----------------------------- MODULE SegmentMap -----------------------------
(***************************************************************************)
(* How an image gets its memory (segment/mod.rs): one reservation is made  *)
(* for the whole image, then every ElfSegment is mapped over it, copied or *)
(* zero-filled, and protected.  Memory is modelled byte by byte, with what *)
(* each byte holds and may be used for, so that the page arithmetic of the *)
(* code is checked and not assumed.  ProgramSegments and SectionSegments   *)
(* make the segments: from program headers and from section headers.       *)
(***************************************************************************)
EXTENDS Integers, Sequences

CONSTANTS
  PAGE,      \* PAGE_SIZE
  Size,      \* the addresses are 0 .. Size - 1
  Starts,    \* what mmap may return for a reservation: addresses, or MAP_FAILED
  FileLen    \* the bytes of the ELF file are 0 .. FileLen - 1

ASSUME SegmentMapAssumption ==
  /\ PAGE \in Nat \ {0, 1} /\ Size \in Nat /\ FileLen \in Nat
  /\ \A a \in Starts : (a \in Nat /\ a % PAGE = 0) \/ a = -1

VARIABLES
  pc,        \* where load_segments and what follows it stand
  fd,        \* "file" when ElfReader::as_fd is Some, "memory" when it is None
  segments,  \* the ElfSegments, in order
  i,         \* the segment the loops are at
  space,     \* the ElfSegments of the image: memory, offset and len
  mem,       \* what each byte of memory holds
  prot       \* what each byte of memory may be used for

mapVars == <<pc, fd, segments, i, space, mem, prot>>

\* A byte of memory holds a byte of the file (its offset), or one of these.
Zero     == -1
Unmapped == -2   \* munmap
Foreign  == -3   \* not of this image: free, or another mapping of the process
Beyond   == -4   \* a page of a file mapping with no byte of the file

MapFailed == -1

Addr == 0 .. Size - 1

Span(a, n) == a .. (a + n - 1)

roundup(x, align) == IF align = 0 THEN x ELSE ((x + align - 1) \div align) * align

rounddown(x, align) == (x \div align) * align

RW == {"R", "W"}

-----------------------------------------------------------------------------
(* The kernel: mmap, mprotect and munmap, which work on whole pages *)

FileByte(k) ==
  IF k < FileLen THEN k ELSE IF k < roundup(FileLen, PAGE) THEN Zero ELSE Beyond

\* mmap(MAP_FIXED): the pages of [a, a + n) are replaced.
Mapped(a, n, at, p) ==
  /\ mem' = [x \in Addr |-> IF x \in Span(a, roundup(n, PAGE))
                            THEN IF at = Zero THEN Zero ELSE FileByte(at + x - a)
                            ELSE mem[x]]
  /\ prot' = [x \in Addr |-> IF x \in Span(a, roundup(n, PAGE)) THEN p ELSE prot[x]]

Protected(a, n, p) ==
  prot' = [x \in Addr |-> IF x \in Span(a, roundup(n, PAGE)) THEN p ELSE prot[x]]

\* A store to these bytes does not fault.
Writable(bytes) ==
  \A x \in bytes : x \in Addr /\ "W" \in prot[x] /\ mem[x] \notin {Unmapped, Foreign, Beyond}

-----------------------------------------------------------------------------
(* load_segments *)

base == space.memory - space.offset

NoSpace == [memory |-> 0, offset |-> 0, len |-> 0]

seg == segments[i]

InitMap ==
  /\ pc = "reserve" /\ fd \in {"file", "memory"} /\ i = 1
  /\ space = NoSpace
  /\ mem = [x \in Addr |-> Foreign] /\ prot = [x \in Addr |-> {}]

\* The reservation of len bytes for the addresses from offset on.  What mmap
\* returns is not compared with MAP_FAILED.
mmap_reserve(len, offset, p) ==
  \E m \in Starts :
    /\ space' = [memory |-> m, offset |-> offset, len |-> len]
    /\ IF m = MapFailed THEN UNCHANGED <<mem, prot>>
       ELSE m + len <= Size /\ Mapped(m, len, Zero, p)

\* rebase and mmap_segment of a segment with one piece of a file that is open.
mmap_segment_fd ==
  /\ pc = "map" /\ fd = "file" /\ Len(seg.map_info) = 1 /\ (base + seg.addr) % PAGE = 0
  /\ segments' = [segments EXCEPT ![i].addr = base + @]
  /\ Mapped(base + seg.addr, seg.len, seg.map_info[1].offset,
            IF seg.from_relocatable THEN RW ELSE seg.prot)
  /\ pc' = "copy"
  /\ UNCHANGED <<fd, i, space>>

\* Without a file descriptor the reservation is used, and copied into.
mmap_segment_copy ==
  /\ pc = "map" /\ (fd = "memory" \/ Len(seg.map_info) # 1)
  /\ segments' = [segments EXCEPT ![i].addr = base + @, ![i].need_copy = TRUE]
  /\ pc' = "copy"
  /\ UNCHANGED <<fd, i, space, mem, prot>>

\* The bytes copy_data writes: one piece of the file per FileMapInfo.
Dest(info) == Span(seg.addr + info.start, info.filesz)

Copied == UNION {Dest(seg.map_info[j]) : j \in DOMAIN seg.map_info}

copy_data ==
  /\ pc = "copy"
  /\ seg.need_copy => Writable(Copied)     \* the process is killed otherwise
  /\ mem' = IF ~seg.need_copy THEN mem
            ELSE [x \in Addr |->
                   LET last == {j \in DOMAIN seg.map_info :
                                  /\ x \in Dest(seg.map_info[j])
                                  /\ \A k \in DOMAIN seg.map_info :
                                       x \in Dest(seg.map_info[k]) => k <= j}
                   IN  IF last = {} THEN mem[x]
                       ELSE LET info == seg.map_info[CHOOSE j \in last : TRUE]
                            IN  info.offset + x - (seg.addr + info.start)]
  /\ pc' = "zero"
  /\ UNCHANGED <<fd, segments, i, space, prot>>

zero_start == seg.addr + seg.content_size

zero_end == roundup(zero_start, PAGE)

write_len == zero_end - zero_start

\* The loops over the segments: on to step for the next one, or after the last.
Advance(step, after) ==
  /\ i' = IF i < Len(segments) THEN i + 1 ELSE 1
  /\ pc' = IF i < Len(segments) THEN step ELSE after

\* fill_zero: the rest of the page is cleared, whole pages are mapped.
fill_zero ==
  /\ pc = "zero"
  /\ seg.zero_size > 0 => Writable(Span(zero_start, write_len))
  /\ LET cleared == IF seg.zero_size > 0 THEN Span(zero_start, write_len) ELSE {}
         fresh   == IF write_len < seg.zero_size
                    THEN Span(zero_end, roundup(seg.zero_size - write_len, PAGE)) ELSE {}
     IN  /\ mem' = [x \in Addr |-> IF x \in cleared \cup fresh THEN Zero ELSE mem[x]]
         /\ prot' = [x \in Addr |->
              IF x \in fresh
              THEN IF seg.from_relocatable THEN RW ELSE seg.prot
              ELSE prot[x]]
  /\ Advance("map", "loaded")
  /\ UNCHANGED <<fd, segments, space>>

\* Mutant: what was copied keeps the protection of the reservation.
mprotect_relocatable ==
  /\ pc = "protect"
  /\ IF seg.from_relocatable THEN Protected(seg.addr, seg.len, seg.prot) ELSE UNCHANGED prot
  /\ Advance("protect", "done")
  /\ UNCHANGED <<fd, segments, space, mem>>

\* Mutant: what was mapped from the file keeps its protection.
mprotect_copied ==
  /\ pc = "protect"
  /\ IF seg.need_copy THEN Protected(seg.addr, seg.len, seg.prot) ELSE UNCHANGED prot
  /\ Advance("protect", "done")
  /\ UNCHANGED <<fd, segments, space, mem>>

\* SegmentBuilder::mprotect: the final protection of what was not mapped so.
mprotect ==
  /\ pc = "protect"
  /\ IF seg.need_copy \/ seg.from_relocatable
     THEN Protected(seg.addr, seg.len, seg.prot)
     ELSE UNCHANGED prot
  /\ Advance("protect", "done")
  /\ UNCHANGED <<fd, segments, space, mem>>

\* Drop for ElfSegments, which panics if munmap fails.
munmap(to) ==
  /\ IF space.memory % PAGE = 0
     THEN /\ pc' = to
          /\ mem' = [x \in Addr |->
                       IF x \in Span(space.memory, space.len) THEN Unmapped ELSE mem[x]]
          /\ prot' = [x \in Addr |->
                        IF x \in Span(space.memory, space.len) THEN {} ELSE prot[x]]
     ELSE pc' = "panic" /\ UNCHANGED <<mem, prot>>
  /\ UNCHANGED <<fd, segments, i, space>>

\* The operations that can fail; the error drops the reservation.
Fallible ==
  \/ pc = "map" /\ fd = "file" /\ Len(seg.map_info) = 1
  \/ pc = "copy" /\ seg.need_copy /\ seg.map_info # <<>>
  \/ pc = "zero" /\ write_len < seg.zero_size
  \/ pc = "protect" /\ (seg.need_copy \/ seg.from_relocatable)

\* Mutant: the error is returned and the reservation is kept.
fail_leak == Fallible /\ pc' = "failed" /\ UNCHANGED <<fd, segments, i, space, mem, prot>>

fail == Fallible /\ munmap("failed")

\* The image is dropped, or relocation is given up with it.
Drop == pc \in {"done", "sealed"} /\ munmap("dropped")

LoadNext ==
  \/ mmap_segment_fd \/ mmap_segment_copy \/ copy_data \/ fill_zero
  \/ mprotect \/ fail \/ Drop

-----------------------------------------------------------------------------
(* What every image relies on *)

\* Mapping, copying, zero-filling and unmapping stay inside the reservation:
\* MAP_FIXED never replaces a page of somebody else, and munmap never takes one
\* away.
Contained == \A x \in Addr \ Span(space.memory, space.len) : mem[x] = Foreign

\* After a failed load and after the drop of the image nothing of it is left
\* mapped: the one munmap of ElfSegments covers all that was mapped over the
\* reservation.
Released ==
  pc \in {"failed", "dropped", "panic"} => \A x \in Addr : mem[x] \in {Foreign, Unmapped}

\* The loader's own stores (copy_data, the partial page of fill_zero) only
\* touch bytes that are mapped and writable at that moment, and the drop on the
\* way out of an error does not panic, if the reservation was made.  If it was
\* not, which the code does not notice, no image comes out of it and no error
\* either, although create_space documents one: the load ends in the panic of
\* the drop, or at its first store.
NoFault ==
  IF space.memory = MapFailed THEN pc \in {"map", "copy", "zero", "panic"}
  ELSE /\ pc = "copy" /\ seg.need_copy => Writable(Copied)
       /\ pc = "zero" /\ seg.zero_size > 0 => Writable(Span(zero_start, write_len))
       /\ pc # "panic"

=============================================================================
