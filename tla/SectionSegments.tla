--------------------------- MODULE SectionSegments ---------------------------
(***************************************************************************)
(* The memory of an object file (segment/section.rs): its sections, and a  *)
(* GOT and a PLT made for it, are grouped by protection into units; each   *)
(* unit becomes one ElfSegment.  Until relocation is finished everything   *)
(* stays writable.                                                         *)
(***************************************************************************)
EXTENDS SegmentMap, SequencesExt

CONSTANTS
  Secsz, Align, Flags,    \* the sh_size, sh_addralign and sh_flags tried
  HeaderLen,              \* where the first section starts in the file
  MaxSections,            \* bound: sections of the file
  MaxEntries,             \* bound: entries of the GOT and of the PLT
  WORD,                   \* size_of::<usize>()
  GOT_ALIGN,              \* the alignment of the GOT
  PLT_ENTRY_SIZE

VARIABLES
  shdrs,     \* the section headers of the file
  got_cnt, plt_cnt,   \* what count_needed_entries found
  sh_addr    \* sh_addr of the sections, of the GOT and of the PLT

secVars == <<shdrs, got_cnt, plt_cnt, sh_addr>>
vars == <<mapVars, secVars>>

Shdr(t, f, o, s, a) ==
  [sh_type |-> t, sh_flags |-> f, sh_offset |-> o, sh_size |-> s, sh_addralign |-> a]

create_got_shdr == Shdr("NOBITS", {"W"}, 0, got_cnt * WORD, GOT_ALIGN)
create_plt_shdr == Shdr("NOBITS", {"X"}, 0, plt_cnt * PLT_ENTRY_SIZE, WORD)

All == shdrs \o <<create_got_shdr, create_plt_shdr>>
got == Len(shdrs) + 1
plt == Len(shdrs) + 2

-----------------------------------------------------------------------------
(* Layout *)

section_prot(sh_flags) == {"R"} \cup sh_flags

\* The units, in the order of flags_to_idx.
Units == <<{}, {"W"}, {"X"}, {"W", "X"}>>

\* add_section: the members of a unit with contents and without, in order.
Members(u, nobits) ==
  SelectSeq([k \in DOMAIN All |-> k],
            LAMBDA k : /\ All[k].sh_flags = Units[u]
                       /\ (All[k].sh_type = "NOBITS") = nobits)
content_sections(u) == Members(u, FALSE)
zero_sections(u) == Members(u, TRUE)

\* Mutant: sections are placed one after the other, unaligned.
Cursor_packed(ks, start) ==
  LET cur[j \in 0..Len(ks)] ==
        IF j = 0 THEN start ELSE cur[j - 1] + All[ks[j]].sh_size
  IN cur

\* The Cursor after each of the sections ks placed from start on; those with
\* contents in the file are skipped when they are empty.
Cursor(ks, start) ==
  LET cur[j \in 0..Len(ks)] ==
        IF j = 0 THEN start
        ELSE LET s == All[ks[j]] IN
             IF s.sh_type # "NOBITS" /\ s.sh_size = 0 THEN cur[j - 1]
             ELSE roundup(cur[j - 1], s.sh_addralign) + s.sh_size
  IN cur

\* The address of the j-th of the sections; an empty one keeps its 0.
Placed(ks, cur, j) ==
  LET s == All[ks[j]] IN
  IF s.sh_type # "NOBITS" /\ s.sh_size = 0 THEN 0 ELSE cur[j] - s.sh_size

\* Mutant: the section a single piece of the file is for is not moved.
moved_none(ks, o) == 0

\* The section of a single piece of the file: the first with its offset.
moved(ks, o) == ks[CHOOSE j \in DOMAIN ks : /\ All[ks[j]].sh_offset = o
                                            /\ \A m \in 1..j - 1 : All[ks[m]].sh_offset # o]

\* The pieces of the file a unit is made of.
Pieces(cs, cc, offset) ==
  LET filled == SelectSeq([j \in DOMAIN cs |-> j], LAMBDA j : All[cs[j]].sh_size # 0)
      piece(s, end) == [filesz |-> s.sh_size, offset |-> s.sh_offset,
                        start |-> end - s.sh_size - offset]
  IN [m \in DOMAIN filled |-> piece(All[cs[filled[m]]], cc[filled[m]])]

\* A single piece is mapped from the start of its page: its section moves.
Aligned(info) ==
  LET align_len == IF Len(info) = 1 THEN info[1].offset % PAGE ELSE 0
  IN [align_len |-> align_len,
      map_info |-> IF Len(info) # 1 THEN info
                   ELSE <<[filesz |-> info[1].filesz + align_len,
                           offset |-> rounddown(info[1].offset, PAGE),
                           start |-> info[1].start]>>]

Segment(u, offset, map_info, content_size, zero_size) ==
  [addr |-> offset, prot |-> section_prot(Units[u]),
   len |-> roundup(content_size + zero_size, PAGE),
   content_size |-> content_size, zero_size |-> zero_size, map_info |-> map_info,
   need_copy |-> FALSE, from_relocatable |-> TRUE]

\* The addresses of the sections of a unit.
Addresses(cs, cc, zs, zc, info, align_len) ==
  [k \in Range(cs) \cup Range(zs) |->
     IF k \in Range(zs) THEN Placed(zs, zc, CHOOSE j \in DOMAIN zs : zs[j] = k)
     ELSE Placed(cs, cc, CHOOSE j \in DOMAIN cs : cs[j] = k)
          + IF Len(info) = 1 /\ k = moved(cs, info[1].offset) THEN align_len ELSE 0]

\* The zero-filled sections follow the contents.
WithZeroes(u, offset, cs, cc, zs, content, content_size, zc) ==
  [seg |-> Segment(u, offset, content.map_info, content_size,
                   zc[Len(zs)] - offset - content_size),
   addr |-> Addresses(cs, cc, zs, zc, Pieces(cs, cc, offset), content.align_len)]

WithContents(u, offset, cs, cc, zs, content) ==
  LET content_size == cc[Len(cs)] + content.align_len - offset
  IN WithZeroes(u, offset, cs, cc, zs, content, content_size, Cursor(zs, offset + content_size))

Sections(u, offset, cs, cc, zs) ==
  WithContents(u, offset, cs, cc, zs, Aligned(Pieces(cs, cc, offset)))

\* SectionUnit::create_segment: the segment, and the addresses it gives.
create_segment(u, offset) ==
  LET place(cs, zs) == Sections(u, offset, cs, Cursor(cs, offset), zs)
  IN place(content_sections(u), zero_sections(u))

\* Mutant: the zero-filled part of a segment takes no room.
after_content(offset, s) == roundup(offset + s.content_size, PAGE)

\* Where the next segment starts.
after(offset, s) == roundup(offset + s.len, PAGE)

\* The layout after another unit; one that needs no memory has no segment.
Extended(prev, made) ==
  [segments |-> IF made.seg.len = 0 THEN prev.segments ELSE Append(prev.segments, made.seg),
   offset |-> after(prev.offset, made.seg),
   addr |-> made.addr @@ prev.addr]

\* SectionSegments::new: the layout of the units, one after the other.
new ==
  LET acc[u \in 0..4] ==
        IF u = 0 THEN [segments |-> <<>>, offset |-> 0, addr |-> [k \in {} |-> 0]]
        ELSE LET next(prev) == Extended(prev, create_segment(u, prev.offset))
             IN next(acc[u - 1])
  IN acc[4]

-----------------------------------------------------------------------------
(* What assemblers write: sections follow each other, at aligned offsets *)

Section == [sh_type : {"PROGBITS", "NOBITS"}, sh_flags : Flags, sh_size : Secsz,
            sh_addralign : Align]

FileSize(s) == IF s.sh_type = "NOBITS" THEN 0 ELSE s.sh_size

Laid(s) ==
  LET at[k \in DOMAIN s] ==
        roundup(IF k = 1 THEN HeaderLen ELSE at[k - 1] + FileSize(s[k - 1]), s[k].sh_addralign)
  IN [k \in DOMAIN s |-> Shdr(s[k].sh_type, s[k].sh_flags, at[k], s[k].sh_size, s[k].sh_addralign)]

Init ==
  /\ InitMap /\ segments = <<>>
  /\ \E n \in 1..MaxSections : \E s \in [1..n -> Section] : shdrs = Laid(s)
  /\ \E k \in DOMAIN shdrs : shdrs[k].sh_size > 0
  /\ got_cnt \in 0..MaxEntries /\ plt_cnt \in 0..got_cnt
  /\ sh_addr = [k \in {} |-> 0]

-----------------------------------------------------------------------------
(* Loading *)

\* SectionSegments::new and create_space.
create_space ==
  /\ pc = "reserve"
  /\ \E layout \in {new} :
       /\ mmap_reserve(layout.offset, 0, {"W"})
       /\ segments' = layout.segments /\ sh_addr' = layout.addr
  /\ pc' = "map" /\ UNCHANGED <<fd, i, shdrs, got_cnt, plt_cnt>>

\* ObjectBuilder::new adds the base to the sections and to the PLT and GOT.
build ==
  /\ pc = "loaded"
  /\ sh_addr' = [k \in DOMAIN sh_addr |-> sh_addr[k] + base]
  /\ pc' = "built"
  /\ UNCHANGED <<fd, segments, i, space, mem, prot, shdrs, got_cnt, plt_cnt>>

\* RawObject::relocate_impl has applied the relocations and calls mprotect.
relocated ==
  /\ pc = "built" /\ pc' = "protect"
  /\ UNCHANGED <<fd, segments, i, space, mem, prot, secVars>>

\* A RawObject is dropped without having been relocated.
drop_raw == pc = "built" /\ munmap("dropped") /\ UNCHANGED secVars

Next ==
  \/ create_space \/ build \/ relocated \/ drop_raw
  \/ LoadNext /\ UNCHANGED secVars

Spec == Init /\ [][Next]_vars

-----------------------------------------------------------------------------
(* Properties *)

Bytes(k) == Span(sh_addr[k], All[k].sh_size)
Ready == pc \in {"built", "protect", "done"}
Used == {k \in DOMAIN All : All[k].sh_size > 0}

\* Another, empty section with contents of the same unit has the same offset.
Shadowed(k) ==
  \E j \in 1..k - 1 : /\ All[j].sh_type = "PROGBITS" /\ All[j].sh_flags = All[k].sh_flags
                      /\ All[j].sh_size = 0 /\ All[j].sh_offset = All[k].sh_offset

Holds(k) ==
  \A x \in Bytes(k) :
    mem[x] = IF All[k].sh_type = "NOBITS" THEN Zero ELSE All[k].sh_offset + x - sh_addr[k]

\* Every section, the GOT and the PLT are found at their sh_addr: contents of
\* the file or zeroes, mapped, copied or filled in.  Sections that follow an
\* empty one at the same offset in a unit of a single piece are left out: the
\* address goes to the empty one.
SectionsInPlace == Ready => \A k \in Used : Shadowed(k) \/ Holds(k)

\* create_segment gives every section its alignment and its own bytes, in the
\* reservation, so that relocating one never writes into another.
SectionsApart ==
  Ready => \A k \in Used :
    /\ Shadowed(k) \/ sh_addr[k] % All[k].sh_addralign = 0
    /\ Bytes(k) \subseteq Span(space.memory, space.len)
    /\ \A m \in Used \ {k} : Shadowed(k) \/ Shadowed(m) \/ Bytes(k) \cap Bytes(m) = {}

\* Relocation can write all of the image; afterwards every section has the
\* protection of its flags and code is not writable.
ObjectProtected ==
  /\ pc = "built" => \A k \in Used : Writable(Bytes(k))
  /\ pc = "done" => \A k \in Used, x \in Addr :
       x \in Bytes(k) => prot[x] = section_prot(All[k].sh_flags)
=============================================================================
