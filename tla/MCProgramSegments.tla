-------------------------- MODULE MCProgramSegments --------------------------
(* Instances of ProgramSegments: the reservation is at address 8, or fails.  *)
EXTENDS ProgramSegments

MCStarts == {8, MapFailed}
=============================================================================
