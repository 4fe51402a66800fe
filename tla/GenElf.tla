------------------------------- MODULE GenElf -------------------------------
(***************************************************************************)
(* gen-elf's DylibWriter: a shared object built from a list of symbols and *)
(* a list of relocations.  DylibWriter::write collects symbols, PLT stubs, *)
(* relocations and sections with offsets relative to their section, lays   *)
(* the sections out, and then goes back over everything it has built to    *)
(* put the final addresses in.  One action per stage of write().           *)
(*                                                                         *)
(* Code is abstracted to its length and to the addresses patched into it,  *)
(* a name to its length NameLen.                                           *)
(***************************************************************************)
EXTENDS Integers, Sequences, FiniteSets, SequencesExt

CONSTANTS
  Arches,     \* the architectures to write for
  Requests,   \* what write() is given: [relocs, symbols]
  PageSize,   \* ElfWriterConfig::page_size
  BaseAddrs,  \* the values of ElfWriterConfig::base_addr
  NameLen     \* bytes of a name in a string table

VARIABLES
  arch, base_addr, \* the writer's architecture and configuration
  request,         \* the arguments of write()
  pc,              \* the stage write() is at
  syms,     \* .dynsym without the null symbol; symbol i has index i
  entries,  \* SymTabMetadata::plt_entries, with what the stub's code holds
  rels,     \* RelocMetaData::relocs
  secs,     \* the sections, in the order of the file once laid out
  fileOff,  \* ElfLayout::file_off
  through,  \* through[p]: the address of the GOT slot stub p jumps through
  jumps,    \* jumps[h]: the address helper h jumps to
  got, gotPlt,     \* the words of .got and .got.plt
  dyn,      \* DynamicMetadata::dyn_entries
  file      \* the parts written to the output: [what, off, len]

tables == <<syms, entries, rels>>
patched == <<through, jumps, got, gotPlt>>
given == <<arch, base_addr, request>>
vars == <<given, pc, tables, secs, fileOff, patched, dyn, file>>

-----------------------------------------------------------------------------
(* Architectures *)

is_64 == arch \in {"X86_64", "Aarch64", "Riscv64", "Loongarch64"}
is_rela == arch \notin {"X86", "Arm"}
word_size == IF is_64 THEN 8 ELSE 4
rel_entry_size == word_size * (IF is_rela THEN 3 ELSE 2)
EHDR_SIZE == IF is_64 THEN 64 ELSE 52
PHDR_SIZE == IF is_64 THEN 56 ELSE 32
SHDR_SIZE == IF is_64 THEN 64 ELSE 40
SYM_SIZE == IF is_64 THEN 24 ELSE 16
DYN_SIZE == IF is_64 THEN 16 ELSE 8

\* What an architecture's module generates: the length of PLT0, a stub, a
\* helper and the ifunc resolver; the word of .got.plt PLT0 takes the resolver
\* from; what tells the resolver which stub was called - an index the stub
\* loads, times scale, the address of its slot or its return address - and
\* where in the stub the code that loads the index begins.
Code(plt0, entry, helper, ifunc, word, tells, scale, lazy) ==
  [plt0 |-> plt0, entry |-> entry, helper |-> helper, ifunc |-> ifunc,
   word |-> word, tells |-> tells, scale |-> scale, lazy |-> lazy]
x86_64 == Code(16, 16, 8, 16, 2, "index", 1, 6)
x86 == Code(16, 16, 32, 16, 2, "index", 8, 6)
aarch64 == Code(32, 16, 8, 16, 2, "slot", 1, 0)
arm == Code(20, 12, 4, 16, 2, "slot", 1, 0)
riscv64 == Code(32, 16, 8, 24, 0, "return", 1, 0)
riscv32 == Code(32, 32, 8, 20, 2, "index", 1, 16)
loongarch64 == Code(32, 32, 8, 16, 0, "index", 8, 16)
Machine ==
  [X86_64 |-> x86_64, X86 |-> x86, Aarch64 |-> aarch64, Arm |-> arm, Riscv64 |-> riscv64,
   Riscv32 |-> riscv32, Loongarch64 |-> loongarch64][arch]

\* The sizes patch_got and patch_reloc compute slot contents with.
get_plt0_size == CASE arch \in {"X86_64", "X86"} -> 16 [] arch = "Arm" -> 20 [] OTHER -> 32
get_plt_entry_size ==
  CASE arch = "Arm" -> 12 [] arch \in {"Riscv32", "Loongarch64"} -> 32 [] OTHER -> 16

\* What an unbound slot holds: the lazy part of its own stub, or PLT0.
get_got_plt_init_value(plt_vaddr, plt_entry_off) ==
  CASE arch \in {"X86_64", "X86"} -> plt_vaddr + plt_entry_off + 6
    [] arch \in {"Aarch64", "Riscv64", "Arm"} -> plt_vaddr
    [] OTHER -> plt_vaddr + plt_entry_off + 16

-----------------------------------------------------------------------------
(* Symbols and relocations asked for *)

\* A symbol: its section, whether it has content, and how much.
Desc(name, kind, def, len, size) ==
  [name |-> name, kind |-> kind, def |-> def, len |-> len, size |-> size, value |-> 0]
global_func(name, len) == Desc(name, "Text", TRUE, len, len)
global_object(name, len) == Desc(name, "Data", TRUE, len, len)
global_tls(name, len) == Desc(name, "Tls", TRUE, len, len)
plt_func(name, len) == Desc(name, "Plt", TRUE, len, len)
undefined_func(name) == Desc(name, "Text", FALSE, 0, 0)
undefined_object(name) == Desc(name, "Data", FALSE, 0, 0)
undefined_tls(name) == Desc(name, "Tls", FALSE, 0, 0)
with_size(desc, size) == [desc EXCEPT !.size = size]

\* Names: the caller's, and those derived from them.
Plain(n) == <<n, "">>
Stub(name) == <<name[1], "@plt">>
Helper(name) == <<name[1], "@helper">>
Resolver == <<"__ifunc_resolver", "">>
PLT0 == <<"PLT0", "">>
NoName == <<"", "">>

RelocEntry(type, name) == [type |-> type, name |-> name]

\* The classes RelocMetaData::new sorts the relocations into.
ClassOf(type) ==
  IF type \in {"RELATIVE", "IRELATIVE", "JUMP_SLOT", "COPY"} THEN type ELSE "GOT"

OfClass(c) == SelectSeq(request.relocs, LAMBDA r : ClassOf(r.type) = c)

\* Architectures whose GLOB_DAT is the absolute relocation type.
GlobDatIsAbs == arch \in {"Riscv64", "Riscv32", "Loongarch64"}

\* A type that none of the predicates names is given its section offset.
calculate_addend(type, reloc_offset, data_vaddr, sym_value) ==
  CASE type = "ABS" /\ ~GlobDatIsAbs -> sym_value + 16
    [] type = "RELATIVE" -> IF sym_value # 0 THEN sym_value ELSE data_vaddr
    [] type \in {"ABS", "GLOB_DAT", "JUMP_SLOT", "COPY", "DTPOFF"} -> 0
    [] OTHER -> reloc_offset

-----------------------------------------------------------------------------
(* SymTabMetadata *)

\* Bytes of content the symbols of a section have: text_offset, data_offset,
\* tls_offset, plt_offset, and the length of get_*_content.
Extent(table, kind) ==
  MapThenSumSet(LAMBDA i : table[i].len, {i \in DOMAIN table : table[i].kind = kind})

Known(table, name) == \E i \in DOMAIN table : table[i].name = name
get_sym_idx(name) == CHOOSE i \in DOMAIN syms : syms[i].name = name

\* A name that is already in the table keeps its first description.
add_single_symbol(table, s) ==
  IF Known(table, s.name) THEN table
  ELSE Append(table, [s EXCEPT !.value = IF s.def THEN Extent(table, s.kind) ELSE 0])

Jumps == OfClass("JUMP_SLOT")

\* add_symbols, then add_plt_symbols: PLT0, and a stub and a helper for each
\* function called through the PLT.
Wanted ==
  <<global_func(Resolver, Machine.ifunc)>> \o request.symbols
    \o <<plt_func(PLT0, Machine.plt0)>>
    \o FlattenSeq([k \in 1..Len(Jumps) |->
         <<plt_func(Stub(Jumps[k].name), Machine.entry),
           global_func(Helper(Jumps[k].name), Machine.helper)>>])

add_symbols[i \in Nat] ==
  IF i = 0 THEN <<>> ELSE add_single_symbol(add_symbols[i - 1], Wanted[i])

\* The chain of the only bucket, which starts at symbol 1.
create_hashtable(table) == [i \in 0..Len(table) |-> IF i = 0 \/ i = Len(table) THEN 0 ELSE i + 1]

\* plt_entries: the stub, its slot in .got.plt, and the relocation index and
\* the distance to PLT0 that generate_plt_entry_code put into its code when
\* the name first occurred.
add_plt_symbols(table) ==
  [k \in 1..Len(Jumps) |->
     LET p == CHOOSE i \in DOMAIN table : table[i].name = Stub(Jumps[k].name)
         first == Min({j \in 1..k : Jumps[j].name = Jumps[k].name})
     IN [stub |-> p, slot |-> 2 + k, idx |-> first - 1, back |-> table[p].value]]

symtab_new ==
  /\ pc = "symtab" /\ pc' = "reloc"
  /\ \E table \in {add_symbols[Len(Wanted)]} :
       syms' = table /\ entries' = add_plt_symbols(table)
  /\ UNCHANGED <<given, rels, secs, fileOff, patched, dyn, file>>

-----------------------------------------------------------------------------
(* RelocMetaData::new: slots of .got from 0, copies behind the contents of *)
(* .data, slots of .got.plt from 3; the offsets are still section offsets. *)

Counts == [c \in {"RELATIVE", "GOT", "COPY", "IRELATIVE", "JUMP_SLOT"} |-> Len(OfClass(c))]

\* Mutant: the relative relocations are not put first.
Ordered_late ==
  OfClass("GOT") \o OfClass("RELATIVE") \o OfClass("COPY")
    \o OfClass("IRELATIVE") \o OfClass("JUMP_SLOT")

Ordered == OfClass("RELATIVE") \o OfClass("GOT") \o OfClass("COPY")
             \o OfClass("IRELATIVE") \o OfClass("JUMP_SLOT")
copy_start == Counts["RELATIVE"] + Counts["GOT"]
copy_end == copy_start + Counts["COPY"]
plt_start == copy_end + Counts["IRELATIVE"]
InCopy(i) == i > copy_start /\ i <= copy_end
InPlt(i) == i > plt_start
SymOf(i) == IF Ordered[i].name = NoName THEN 0 ELSE get_sym_idx(Ordered[i].name)

\* Bytes of the copies before entry i.
CopiesBefore(i) ==
  MapThenSumSet(LAMBDA j : syms[SymOf(j)].size, {j \in 1..(i - 1) : InCopy(j)})

\* Mutant: the entries after the copies count the copies as slots.
got_slot_all(i) == i - 1

\* The .got slot of an entry outside the copies.
got_slot_idx(i) == IF i > copy_end THEN i - 1 - Counts["COPY"] ELSE i - 1

OffsetOf(i) ==
  CASE InPlt(i) -> (2 + i - plt_start) * word_size
    [] InCopy(i) -> Extent(syms, "Data") + CopiesBefore(i)
    [] OTHER -> got_slot_idx(i) * word_size

reloc_new ==
  /\ pc = "reloc"
  /\ \/ /\ \A i \in 1..Len(Ordered) : Ordered[i].name = NoName \/ Known(syms, Ordered[i].name)
        /\ rels' = [i \in 1..Len(Ordered) |->
                      [type |-> Ordered[i].type, sym |-> SymOf(i), off |-> OffsetOf(i), addend |-> 0]]
        /\ pc' = "sections"
     \/ /\ \E i \in 1..Len(Ordered) : Ordered[i].name # NoName /\ ~Known(syms, Ordered[i].name)
        /\ rels' = rels
        /\ pc' = "panicked"
  /\ UNCHANGED <<given, syms, entries, secs, fileOff, patched, dyn, file>>

-----------------------------------------------------------------------------
(* Sections *)

Sec(kind, size, align) == [kind |-> kind, size |-> size, align |-> align, off |-> 0, addr |-> 0]
RelDyn == IF is_rela THEN "RelaDyn" ELSE "RelDyn"
RelPlt == IF is_rela THEN "RelaPlt" ELSE "RelPlt"

code_sections ==
  <<Sec("Text", Extent(syms, "Text"), 16), Sec("Plt", Extent(syms, "Plt"), 16)>>

data_section == <<Sec("Data", Extent(syms, "Data") + CopiesBefore(Len(rels) + 1), 8)>>

tls_section == IF Extent(syms, "Tls") > 0 THEN <<Sec("Tls", Extent(syms, "Tls"), 8)>> ELSE <<>>

\* The symbols with the null symbol; the SysV table has one bucket.
symtab_sections ==
  <<Sec("DynStr", 2 + Len(syms) * (NameLen + 1), 1),
    Sec("DynSym", (Len(syms) + 1) * SYM_SIZE, 8),
    Sec("Hash", 4 * (4 + Len(syms)), 4)>>

got_size == (1 + Counts["RELATIVE"] + Counts["GOT"] + Counts["IRELATIVE"]) * word_size
got_plt_size == (3 + Counts["JUMP_SLOT"]) * word_size

reloc_sections ==
  <<Sec(RelDyn, plt_start * rel_entry_size, word_size),
    Sec(RelPlt, Counts["JUMP_SLOT"] * rel_entry_size, word_size),
    Sec("Got", got_size, 8), Sec("GotPlt", got_plt_size, 8)>>

\* Mutant: no place is kept for the number of relative relocations.
rel_dyn_uncounted ==
  << <<"REL", 0>>, <<"RELSZ", plt_start * rel_entry_size>>, <<"RELENT", rel_entry_size>> >>

\* The entries for .rela.dyn or .rel.dyn; RELCOUNT is DT_RELACOUNT or
\* DT_RELCOUNT.
rel_dyn_entries ==
  << <<"REL", 0>>, <<"RELSZ", plt_start * rel_entry_size>>, <<"RELENT", rel_entry_size>>,
     <<"RELCOUNT", 0>> >>

\* Entries for the sections so far, none of which has an address yet.
init_from_sections ==
  << <<"STRTAB", 0>>, <<"STRSZ", symtab_sections[1].size>>, <<"SYMTAB", 0>>,
     <<"SYMENT", SYM_SIZE>>, <<"HASH", 0>> >>
  \o rel_dyn_entries
  \o << <<"JMPREL", 0>>, <<"PLTRELSZ", reloc_sections[2].size>>, <<"PLTREL", 0>>,
        <<"PLTGOT", 0>>, <<"NULL", 0>> >>

dynamic_section == <<Sec("Dynamic", Len(init_from_sections) * DYN_SIZE, 8)>>

\* shstrtab: the names of the sections before it and its own.
create_sections ==
  LET s == code_sections \o data_section \o tls_section \o symtab_sections
             \o reloc_sections \o dynamic_section
  IN Append(s, Sec("ShStrTab", 1 + (Len(s) + 1) * (NameLen + 1), 1))

sections_new ==
  /\ pc = "sections" /\ pc' = "layout"
  /\ secs' = create_sections
  /\ dyn' = init_from_sections
  /\ UNCHANGED <<given, tables, fileOff, patched, file>>
-----------------------------------------------------------------------------
(* ShdrManager::layout *)

align_up(val, align) == ((val + align - 1) \div align) * align

flags(kind) ==
  CASE kind \in {"Plt", "Text"} -> {"ALLOC", "EXECINSTR"}
    [] kind \in {"Data", "Got", "GotPlt", "Tls", "Dynamic"} -> {"ALLOC", "WRITE"}
    [] kind = "ShStrTab" -> {}
    [] OTHER -> {"ALLOC"}

\* R, RX and RW sections and those that are not loaded.
Group(kind) ==
  CASE "ALLOC" \notin flags(kind) -> 3
    [] "EXECINSTR" \in flags(kind) -> 1
    [] "WRITE" \in flags(kind) -> 2
    [] OTHER -> 0

InGroup(s, g) == SelectSeq(s, LAMBDA x : Group(x.kind) = g)
Sorted(s) == InGroup(s, 0) \o InGroup(s, 1) \o InGroup(s, 2) \o InGroup(s, 3)

get_phnum ==
  1 + Cardinality({Group(secs[i].kind) : i \in DOMAIN secs} \ {3})
    + Cardinality({i \in DOMAIN secs : secs[i].kind \in {"Dynamic", "Tls"}})

\* The first section of a loaded group starts on a page of its own.
EnterGroup(end, g, last) == IF g # last /\ g # 3 THEN align_up(end, PageSize) ELSE end

\* The sections with their places; place[i].end is file_off after section i.
Layout(s) ==
  LET place[i \in 0..Len(s)] ==
        IF i = 0
        THEN [off |-> 0, end |-> align_up(EHDR_SIZE + PHDR_SIZE * get_phnum, PageSize), group |-> 3]
        ELSE LET last == place[i - 1]
                 g == Group(s[i].kind)
                 off == align_up(EnterGroup(last.end, g, last.group), s[i].align)
             IN [off |-> off, end |-> off + s[i].size, group |-> g]
  IN place

layout ==
  /\ pc = "layout" /\ pc' = "symbols"
  /\ \E place \in {Layout(Sorted(secs))} :
       /\ secs' = [i \in 1..Len(secs) |->
            [Sorted(secs)[i] EXCEPT !.off = place[i].off,
                !.addr = IF place[i].group # 3 THEN base_addr + place[i].off ELSE 0]]
       /\ fileOff' = place[Len(secs)].end
  /\ UNCHANGED <<given, tables, patched, dyn, file>>

\* The section of a kind; one that does not exist has address 0.
HasSection(kind) == \E i \in DOMAIN secs : secs[i].kind = kind
Section(kind) == secs[CHOOSE i \in DOMAIN secs : secs[i].kind = kind]
get_vaddr(kind) == IF HasSection(kind) THEN Section(kind).addr ELSE 0
get_size(kind) == IF HasSection(kind) THEN Section(kind).size ELSE 0

-----------------------------------------------------------------------------
(* The final addresses *)

\* update_symbol_values: TLS symbols stay relative to their segment.
patch_symtab ==
  /\ pc = "symbols" /\ pc' = "text"
  /\ syms' = [i \in DOMAIN syms |->
       IF syms[i].def /\ syms[i].kind # "Tls"
       THEN [syms[i] EXCEPT !.value = @ + get_vaddr(syms[i].kind)] ELSE syms[i]]
  /\ UNCHANGED <<given, entries, rels, secs, fileOff, patched, dyn, file>>

\* The address an instruction of stub p is made to load its target from; the
\* last entry of a stub that has several wins.
patch_plt(p) ==
  get_vaddr("GotPlt") + entries[Max({k \in DOMAIN entries : entries[k].stub = p})].slot * word_size

Stubs == {entries[k].stub : k \in DOMAIN entries}
HelperOf(p) == get_sym_idx(Helper(syms[p].name))

\* patch_helpers, patch_plt; the resolver's return value is not followed.
patch_text ==
  /\ pc = "text" /\ pc' = "got"
  /\ through' = [p \in Stubs |-> patch_plt(p)]
  /\ jumps' = [h \in {HelperOf(p) : p \in Stubs} |->
                 syms[CHOOSE p \in Stubs : HelperOf(p) = h].value]
  /\ UNCHANGED <<given, tables, secs, fileOff, got, gotPlt, dyn, file>>

AddendOf(i) ==
  IF rels[i].type = "IRELATIVE" THEN syms[get_sym_idx(Resolver)].value
  ELSE calculate_addend(rels[i].type, rels[i].off, get_vaddr("Data"),
                        IF rels[i].sym # 0 THEN syms[rels[i].sym].value ELSE 0)

\* patch_got, and the addends patch_reloc stores in place where entries have
\* no field for them.
patch_got ==
  [k \in 0..(got_size \div word_size - 1) |->
     LET here == {i \in 1..plt_start : ~InCopy(i) /\ rels[i].off = k * word_size}
     IN IF ~is_rela /\ here # {} THEN AddendOf(CHOOSE i \in here : TRUE)
        ELSE IF k = 0 THEN get_vaddr("Dynamic") ELSE 0]

\* The words of .got.plt: the loader fills in 1 and 2.
patch_got_plt ==
  [k \in 0..(2 + Counts["JUMP_SLOT"]) |->
     CASE k = 0 -> get_vaddr("Dynamic")
       [] k \in {1, 2} -> 0
       [] OTHER -> get_got_plt_init_value(get_vaddr("Plt"),
                                          get_plt0_size + (k - 3) * get_plt_entry_size)]

BaseOf(i) ==
  CASE InPlt(i) -> get_vaddr("GotPlt") [] InCopy(i) -> get_vaddr("Data") [] OTHER -> get_vaddr("Got")

patch_all ==
  /\ pc = "got" /\ pc' = "dynamic"
  /\ got' = patch_got /\ gotPlt' = patch_got_plt
  /\ rels' = [i \in DOMAIN rels |->
                [rels[i] EXCEPT !.off = @ + BaseOf(i), !.addend = AddendOf(i)]]
  /\ UNCHANGED <<given, syms, entries, secs, fileOff, through, jumps, dyn, file>>

\* A tag that has no entry is inserted before the end.
update_entry(d, tag, value) ==
  IF \E i \in DOMAIN d : d[i][1] = tag
  THEN [d EXCEPT ![Min({i \in DOMAIN d : d[i][1] = tag})] = <<tag, value>>]
  ELSE InsertAt(d, CHOOSE i \in DOMAIN d : d[i][1] = "NULL", <<tag, value>>)

Updates ==
  << <<"STRTAB", get_vaddr("DynStr")>>, <<"SYMTAB", get_vaddr("DynSym")>>,
     <<"HASH", get_vaddr("Hash")>>, <<"PLTGOT", get_vaddr("GotPlt")>>,
     <<"REL", get_vaddr(RelDyn)>>, <<"RELSZ", get_size(RelDyn)>>,
     <<"JMPREL", get_vaddr(RelPlt)>>, <<"PLTRELSZ", get_size(RelPlt)>>,
     <<"RELCOUNT", Counts["RELATIVE"]>> >>

Updated[i \in Nat] ==
  IF i = 0 THEN dyn ELSE update_entry(Updated[i - 1], Updates[i][1], Updates[i][2])

patch_dynamic ==
  /\ pc = "dynamic" /\ pc' = "write"
  /\ dyn' = Updated[Len(Updates)]
  /\ UNCHANGED <<given, tables, secs, fileOff, patched, file>>

-----------------------------------------------------------------------------
(* The file *)

\* The bytes a section has by now, whatever its header says.
DataLen(s) ==
  CASE s.kind = "DynSym" -> (Len(syms) + 1) * SYM_SIZE
    [] s.kind = RelDyn -> plt_start * rel_entry_size
    [] s.kind = RelPlt -> (Len(rels) - plt_start) * rel_entry_size
    [] s.kind = "Dynamic" -> Len(dyn) * DYN_SIZE
    [] OTHER -> s.size

Part(what, off, len) == [what |-> what, off |-> off, len |-> len]

\* The program header table's entry for the sections of a group: the R
\* segment starts with the file.
write_phdr(type, group, off, vaddr, len) ==
  [type |-> type, group |-> group, off |-> off, vaddr |-> vaddr, len |-> len]
Load(g) ==
  LET s == InGroup(secs, g)
      off == IF g = 0 THEN 0 ELSE s[1].off
  IN write_phdr("PT_LOAD", g, off, s[1].addr - (s[1].off - off),
                s[Len(s)].off + s[Len(s)].size - off)
OfSection(type, kind) ==
  {write_phdr(type, Group(kind), secs[i].off, secs[i].addr, secs[i].size) :
     i \in {j \in DOMAIN secs : secs[j].kind = kind}}

\* PT_PHDR's address is its offset in the file: it is not moved by base_addr.
write_phdrs ==
  {write_phdr("PT_PHDR", 0, EHDR_SIZE, EHDR_SIZE, PHDR_SIZE * get_phnum)}
    \cup {Load(g) : g \in {Group(secs[i].kind) : i \in DOMAIN secs} \ {3}}
    \cup OfSection("PT_DYNAMIC", "Dynamic") \cup OfSection("PT_TLS", "Tls")

write ==
  /\ pc = "write" /\ pc' = "written"
  /\ file' = {Part("Ehdr", 0, EHDR_SIZE), Part("Phdrs", EHDR_SIZE, PHDR_SIZE * get_phnum),
              Part("Shdrs", fileOff, SHDR_SIZE * (Len(secs) + 1))}
             \cup {Part(secs[i].kind, secs[i].off, DataLen(secs[i])) : i \in DOMAIN secs}
  /\ UNCHANGED <<given, tables, secs, fileOff, patched, dyn>>

Init ==
  /\ arch \in Arches /\ base_addr \in BaseAddrs /\ request \in Requests
  /\ pc = "symtab"
  /\ syms = <<>> /\ entries = <<>> /\ rels = <<>> /\ secs = <<>> /\ fileOff = 0
  /\ through = <<>> /\ jumps = <<>> /\ got = <<>> /\ gotPlt = <<>>
  /\ dyn = <<>> /\ file = {}

Next ==
  \/ symtab_new \/ reloc_new \/ sections_new \/ layout \/ patch_symtab \/ patch_text
  \/ patch_all \/ patch_dynamic \/ write
-----------------------------------------------------------------------------
(* Properties *)

Finished == pc \notin {"symtab", "reloc", "sections", "layout", "symbols", "text", "got",
                       "dynamic", "write", "panicked"}

Apart(a, b) == a.off + a.len <= b.off \/ b.off + b.len <= a.off

Loads == {l \in write_phdrs : l.type = "PT_LOAD"}

\* len bytes of the file at off, meant for vaddr, are in the segment of a
\* group, and are mapped there.
InSegment(group, off, vaddr, len) ==
  \E l \in Loads :
    /\ l.group = group
    /\ l.off <= off /\ off + len <= l.off + l.len
    /\ vaddr - l.vaddr = off - l.off

\* What write() puts into the file does not overlap, although .dynamic, the
\* symbols and the relocations are written again after the layout has been
\* fixed; every loaded section lies, in the file and in memory, in the one
\* segment that has its protection; no two segments share a page; and there
\* is a place in the table for each header.  PT_DYNAMIC and PT_TLS describe
\* mapped bytes, and PT_PHDR does unless a base_addr is configured: it is the
\* one header whose address base_addr is not added to.
LaidOut ==
  Finished =>
    /\ \A a, b \in file : a # b => Apart(a, b)
    /\ \A i \in DOMAIN secs : Group(secs[i].kind) # 3 =>
         InSegment(Group(secs[i].kind), secs[i].off, secs[i].addr, DataLen(secs[i]))
    /\ \A l, m \in Loads : l # m =>
         \/ (l.vaddr + l.len - 1) \div PageSize < m.vaddr \div PageSize
         \/ (m.vaddr + m.len - 1) \div PageSize < l.vaddr \div PageSize
    /\ Cardinality(write_phdrs) = get_phnum
    /\ \A h \in write_phdrs : base_addr = 0 \/ h.type # "PT_PHDR" =>
         InSegment(h.group, h.off, h.vaddr, h.len)

\* The bytes relocation i fills in.
Filled(i) ==
  [off |-> rels[i].off, len |-> IF InCopy(i) THEN syms[rels[i].sym].size ELSE word_size]
TargetSection(i) ==
  Section(IF InPlt(i) THEN "GotPlt" ELSE IF InCopy(i) THEN "Data" ELSE "Got")

\* Every relocation RelocMetaData::new made has a place of its own, inside
\* the section patch_reloc rebased it by, and a copied object does not
\* overwrite one the library defines.  The place of the first entry in .got
\* is word 0, where patch_got has put the address of .dynamic: the word got_size
\* adds for it is the last one, which nothing uses.
SlotsOwn ==
  Finished => \A i \in DOMAIN rels :
    /\ rels[i].off >= TargetSection(i).addr
    /\ rels[i].off + Filled(i).len <= TargetSection(i).addr + TargetSection(i).size
    /\ \A j \in DOMAIN rels \ {i} : Apart(Filled(i), Filled(j))
    /\ InCopy(i) => \A k \in DOMAIN syms : syms[k].def /\ syms[k].kind = "Data" =>
         Apart(Filled(i), [off |-> syms[k].value, len |-> syms[k].len])

Entry(tag) == dyn[CHOOSE i \in DOMAIN dyn : dyn[i][1] = tag][2]

\* Symbols a lookup in the hash table passes.
Reached[n \in Nat] ==
  IF n = 0 THEN {1} ELSE Reached[n - 1] \cup ({create_hashtable(syms)[i] : i \in Reached[n - 1]} \ {0})

\* The loader finds what was written: the first DT_RELCOUNT entries of the
\* relocation table, which it applies without looking at their type, are the
\* relative ones; the two tables hold all relocations, the jump slots apart;
\* every tag occurs once; and a lookup passes every symbol.
TablesAgree ==
  Finished =>
    /\ \A i \in DOMAIN rels : i <= Entry("RELCOUNT") <=> rels[i].type = "RELATIVE"
    /\ \A i \in DOMAIN rels : i > Entry("RELSZ") \div rel_entry_size <=> rels[i].type = "JUMP_SLOT"
    /\ Entry("RELSZ") + Entry("PLTRELSZ") = Len(rels) * rel_entry_size
    /\ \A i, j \in DOMAIN dyn : dyn[i][1] = dyn[j][1] => i = j
    /\ dyn[Len(dyn)][1] = "NULL"
    /\ Reached[Len(syms)] = 1..Len(syms)
=============================================================================
