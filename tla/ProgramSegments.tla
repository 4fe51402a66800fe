--------------------------- MODULE ProgramSegments ---------------------------
(***************************************************************************)
(* The memory of an image with program headers (segment/program.rs, and    *)
(* ELFRelro of segment/mod.rs): the span of the PT_LOAD headers is         *)
(* reserved, an ElfSegment is made for each of them, and once relocation   *)
(* is finished PT_GNU_RELRO is made read-only.                             *)
(***************************************************************************)
EXTENDS SegmentMap, FiniteSets, FiniteSetsExt

CONSTANTS
  Vaddr, Filesz, Bss,   \* the p_vaddr, p_filesz and p_memsz - p_filesz tried
  Offset,               \* the pages of the file a PT_LOAD may start in
  Flags,                \* the p_flags tried
  MaxLoads              \* the number of PT_LOAD headers

ASSUME HeadersAssumption ==
  /\ Vaddr \subseteq Nat /\ Filesz \subseteq Nat /\ Bss \subseteq Nat
  /\ Offset \subseteq Nat /\ MaxLoads \in Nat

VARIABLES
  phdrs,     \* the PT_LOAD headers
  gnu_relro  \* the PT_GNU_RELRO header, of no bytes when there is none

vars == <<mapVars, phdrs, gnu_relro>>

Pages(p) == rounddown(p.p_vaddr, PAGE) .. (roundup(p.p_vaddr + p.p_memsz, PAGE) - 1)

\* Loadable headers: offset and address agree modulo the page size, the file
\* has the bytes, and only what may be written has a zero-filled tail.
Phdr ==
  {p \in [p_vaddr : Vaddr, p_offset : 0 .. FileLen, p_filesz : Filesz,
          p_memsz : {f + z : f \in Filesz, z \in Bss}, p_flags : Flags] :
     /\ p.p_offset \in {(q * PAGE) + (p.p_vaddr % PAGE) : q \in Offset}
     /\ p.p_memsz > 0 /\ p.p_filesz <= p.p_memsz /\ p.p_memsz - p.p_filesz \in Bss
     /\ p.p_offset + p.p_filesz <= FileLen
     /\ p.p_memsz > p.p_filesz => "W" \in p.p_flags}

\* What is to be read-only after relocation: any part of a segment.  Linkers
\* let it end on a page boundary, which the code does not ask for.
Relros(p) ==
  LET top == p.p_vaddr + p.p_memsz
  IN  {r \in [p_vaddr : p.p_vaddr .. (top - 1), p_memsz : 1 .. p.p_memsz] :
         r.p_vaddr + r.p_memsz <= top}

Init ==
  /\ InitMap
  /\ \E n \in 1 .. MaxLoads : phdrs \in [1 .. n -> Phdr]
  /\ \A j, k \in DOMAIN phdrs : j # k => Pages(phdrs[j]) \cap Pages(phdrs[k]) = {}
  /\ gnu_relro \in {[p_vaddr |-> 0, p_memsz |-> 0]} \cup
       UNION {Relros(phdrs[j]) : j \in {k \in DOMAIN phdrs : "W" \in phdrs[k].p_flags}}
  /\ segments = <<>>

min_vaddr == rounddown(Min({phdrs[j].p_vaddr : j \in DOMAIN phdrs}), PAGE)

\* Mutant: the end of the image is not rounded up.
max_vaddr_exact == Max({phdrs[j].p_vaddr + phdrs[j].p_memsz : j \in DOMAIN phdrs})

max_vaddr == roundup(Max({phdrs[j].p_vaddr + phdrs[j].p_memsz : j \in DOMAIN phdrs}), PAGE)

segment_prot(p_flags) == p_flags

\* Mutant: the size in the file does not count the bytes before p_offset in
\* its page.
create_segment_unaligned(p) ==
  LET offset == rounddown(p.p_offset, PAGE)
  IN  [addr |-> rounddown(p.p_vaddr, PAGE), prot |-> segment_prot(p.p_flags),
       len |-> roundup(p.p_vaddr + p.p_memsz, PAGE) - rounddown(p.p_vaddr, PAGE),
       content_size |-> p.p_filesz, zero_size |-> p.p_memsz - p.p_filesz,
       map_info |-> <<[start |-> 0, filesz |-> p.p_filesz, offset |-> offset]>>,
       need_copy |-> FALSE, from_relocatable |-> FALSE]

create_segment(p) ==
  LET offset == rounddown(p.p_offset, PAGE)
      filesz == p.p_filesz + (p.p_offset - offset)
  IN  [addr |-> rounddown(p.p_vaddr, PAGE), prot |-> segment_prot(p.p_flags),
       len |-> roundup(p.p_vaddr + p.p_memsz, PAGE) - rounddown(p.p_vaddr, PAGE),
       content_size |-> filesz, zero_size |-> p.p_memsz - p.p_filesz,
       map_info |-> <<[start |-> 0, filesz |-> filesz, offset |-> offset]>>,
       need_copy |-> FALSE, from_relocatable |-> FALSE]

\* Mutant: the reservation is never writable.
create_space_none ==
  /\ pc = "reserve"
  /\ mmap_reserve(max_vaddr - min_vaddr, min_vaddr, {})
  /\ segments' = [j \in DOMAIN phdrs |-> create_segment(phdrs[j])]
  /\ pc' = "map"
  /\ UNCHANGED <<fd, i, phdrs, gnu_relro>>

\* create_space and create_segments.
create_space ==
  /\ pc = "reserve"
  /\ mmap_reserve(max_vaddr - min_vaddr, min_vaddr, IF fd = "file" THEN {} ELSE {"W"})
  /\ segments' = [j \in DOMAIN phdrs |-> create_segment(phdrs[j])]
  /\ pc' = "map"
  /\ UNCHANGED <<fd, i, phdrs, gnu_relro>>

\* load_dynamic_impl and load_static_impl protect right after loading.
start_protect ==
  /\ pc = "loaded" /\ pc' = "protect"
  /\ UNCHANGED <<fd, segments, i, space, mem, prot, phdrs, gnu_relro>>

\* ELFRelro::relro, from the image that relocation finishes.
relro ==
  /\ pc = "done" /\ gnu_relro.p_memsz > 0
  /\ LET addr  == base + gnu_relro.p_vaddr
         start == rounddown(addr, PAGE)
     IN  Protected(start, roundup(addr + gnu_relro.p_memsz, PAGE) - start, {"R"})
  /\ pc' = "sealed"
  /\ UNCHANGED <<fd, segments, i, space, mem, phdrs, gnu_relro>>

Next ==
  \/ create_space \/ start_protect \/ relro
  \/ LoadNext /\ UNCHANGED <<phdrs, gnu_relro>>

Spec == Init /\ [][Next]_vars

-----------------------------------------------------------------------------

\* A loaded image reads as its program headers say: every byte of every
\* PT_LOAD is at base + p_vaddr, from the file up to p_filesz and zero up to
\* p_memsz, whether the file is mapped or copied.
ImageInPlace ==
  pc \in {"loaded", "protect", "done", "sealed"} =>
    \A j \in DOMAIN phdrs :
      LET p == phdrs[j]
      IN  \A k \in 0 .. p.p_memsz - 1 :
            mem[base + p.p_vaddr + k] = IF k < p.p_filesz THEN p.p_offset + k ELSE Zero

\* Once loaded, the pages of a PT_LOAD allow what its p_flags say.  Once
\* sealed, the pages that hold a byte of PT_GNU_RELRO are read-only, with
\* whatever else is on them, and every other page allows what it did.
ImageProtected ==
  /\ pc = "done" =>
       \A j \in DOMAIN phdrs : \A x \in Pages(phdrs[j]) : prot[base + x] = phdrs[j].p_flags
  /\ pc = "sealed" =>
       \A j \in DOMAIN phdrs : \A x \in Pages(phdrs[j]) :
         prot[base + x] =
           IF \E y \in Span(gnu_relro.p_vaddr, gnu_relro.p_memsz) :
                rounddown(y, PAGE) = rounddown(x, PAGE)
           THEN {"R"} ELSE phdrs[j].p_flags

=============================================================================
