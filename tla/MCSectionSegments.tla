-------------------------- MODULE MCSectionSegments --------------------------
(* Instances of SectionSegments: mmap succeeds.                              *)
EXTENDS SectionSegments

MCStarts == {8}
=============================================================================
