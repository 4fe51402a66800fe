----------------------------- MODULE ElfDynamic -----------------------------
(***************************************************************************)
(* ElfDynamic::new (elf/dynamic.rs): one pass over the entries of a        *)
(* dynamic section, up to DT_NULL.  An entry is <<tag, value>>; values are *)
(* offsets from the base of the image, sizes or flags.  An Option is a set *)
(* of at most one element, or None where it holds a number.                *)
(***************************************************************************)
EXTENDS Integers, Sequences

CONSTANTS
  DF_BIND_NOW, DF_1_NOW,   \* the bits of DT_FLAGS and of DT_FLAGS_1
  DT_RELA,                 \* what DT_PLTREL holds for entries with addends
  ElfRelType               \* of this architecture: "ElfRela" or "ElfRel"

None == -1

Tags == {"FLAGS", "FLAGS_1", "PLTGOT", "HASH", "GNU_HASH", "SYMTAB", "STRTAB",
         "PLTRELSZ", "JMPREL", "RELR", "RELASZ", "RELRSZ", "RELACOUNT", "RELA",
         "INIT", "FINI", "INIT_ARRAY", "INIT_ARRAYSZ", "FINI_ARRAY",
         "FINI_ARRAYSZ", "VERSYM", "VERNEED", "VERNEEDNUM", "VERDEF",
         "VERDEFNUM", "RPATH", "RUNPATH"}

\* The locals that hold the value itself; the others are an
\* Option<NonZeroUsize>.
Plain == {"FLAGS", "FLAGS_1", "HASH", "GNU_HASH", "SYMTAB", "STRTAB"}

\* The tag a local is named after here: the REL form of a tag writes the local
\* of its RELA form.
LocalOf(tag) ==
  CASE tag = "REL" -> "RELA"
    [] tag = "RELSZ" -> "RELASZ"
    [] tag = "RELCOUNT" -> "RELACOUNT"
    [] OTHER -> tag

\* The locals before the first entry.
Locals ==
  [offs |-> [t \in Tags |-> IF t \in {"FLAGS", "FLAGS_1", "SYMTAB", "STRTAB"}
                            THEN 0 ELSE None],
   needed_libs |-> <<>>,
   is_rela |-> None]

\* Mutant: the first entry with a tag is kept, not the last.
Entry_first(l, e) ==
  CASE e[1] = "NEEDED" -> [l EXCEPT !.needed_libs = Append(@, e[2])]
    [] LocalOf(e[1]) \in Tags ->
         [l EXCEPT !.offs[LocalOf(e[1])] = IF @ \in {None, 0} THEN e[2] ELSE @]
    [] OTHER -> l

\* One arm of the match over d_tag.
Entry(l, e) ==
  CASE e[1] = "NEEDED" ->
         [l EXCEPT !.needed_libs = IF e[2] # 0 THEN Append(@, e[2]) ELSE @]
    [] e[1] = "PLTREL" -> [l EXCEPT !.is_rela = IF e[2] = DT_RELA THEN 1 ELSE 0]
    [] LocalOf(e[1]) \in Tags ->
         [l EXCEPT !.offs[LocalOf(e[1])] = IF e[2] # 0 \/ e[1] \in Plain THEN e[2] ELSE None,
                   !.is_rela = IF e[1] = "RELA" THEN 1 ELSE IF e[1] = "REL" THEN 0 ELSE @]
    [] OTHER -> l

\* The loop: the locals when it meets DT_NULL.
Scan(dyn) ==
  LET end == CHOOSE i \in DOMAIN dyn :
               dyn[i][1] = "NULL" /\ \A j \in 1..i - 1 : dyn[j][1] # "NULL"
      at[i \in 0..end - 1] == IF i = 0 THEN Locals ELSE Entry(at[i - 1], dyn[i])
  IN at[end - 1]

\* get_slice(off, size): a table, absent without its offset, empty without
\* its size.
Slice(offs, off, size) ==
  {[off |-> o, size |-> IF offs[size] = None THEN 0 ELSE offs[size]] :
     o \in {offs[off]} \ {None}}

\* (off, num) of a version table.
Counted(offs, off, num) == {[off |-> o, num |-> offs[num]] : o \in {offs[off]} \ {None}}

\* Prefer the GNU hash table.
HashTab(offs) ==
  LET tag == IF offs["GNU_HASH"] # None THEN "GNU_HASH" ELSE "HASH"
  IN {[kind |-> tag, off |-> o] : o \in {offs[tag]} \ {None}}

\* What makes new panic (the assertion on the relocation type, a version table
\* without its count) or return an error (no hash table).
Refused(l) ==
  \/ l.is_rela = IF ElfRelType = "ElfRela" THEN 0 ELSE 1
  \/ HashTab(l.offs) = {}
  \/ l.offs["VERNEED"] # None /\ l.offs["VERNEEDNUM"] = None
  \/ l.offs["VERDEF"] # None /\ l.offs["VERDEFNUM"] = None

ElfDynamic_new(dyn) ==
  LET l == Scan(dyn)
      o == l.offs
  IN IF Refused(l) THEN {}
     ELSE {[hashtab |-> HashTab(o),
            symtab |-> o["SYMTAB"], strtab |-> o["STRTAB"],
            bind_now |-> \/ (o["FLAGS"] \div DF_BIND_NOW) % 2 = 1
                        \/ (o["FLAGS_1"] \div DF_1_NOW) % 2 = 1,
            got_plt |-> o["PLTGOT"],
            needed_libs |-> l.needed_libs,
            pltrel |-> Slice(o, "JMPREL", "PLTRELSZ"),
            dynrel |-> Slice(o, "RELA", "RELASZ"),
            relr |-> Slice(o, "RELR", "RELRSZ"),
            init_fn |-> o["INIT"],
            init_array_fn |-> Slice(o, "INIT_ARRAY", "INIT_ARRAYSZ"),
            fini_fn |-> o["FINI"],
            fini_array_fn |-> Slice(o, "FINI_ARRAY", "FINI_ARRAYSZ"),
            rel_count |-> o["RELACOUNT"],
            rpath_off |-> o["RPATH"], runpath_off |-> o["RUNPATH"],
            version_idx |-> o["VERSYM"],
            verneed |-> Counted(o, "VERNEED", "VERNEEDNUM"),
            verdef |-> Counted(o, "VERDEF", "VERDEFNUM")]}
=============================================================================
