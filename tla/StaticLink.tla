----------------------------- MODULE StaticLink -----------------------------
(***************************************************************************)
(* Relocation of an object file (.o).  The GOT and the PLT of the object   *)
(* are sized before anything is loaded, from a first pass over the         *)
(* relocation sections (count_needed_entries); relocate_impl then applies  *)
(* the entries one after the other and hands out GOT slots and PLT stubs   *)
(* on demand, without ever looking at the sizes again.                     *)
(***************************************************************************)
EXTENDS Naturals, Sequences, FiniteSets

CONSTANTS
  Sym,         \* symbols the entries name
  Found,       \* the symbols find_symbol_addr resolves
  Type,        \* relocation types that occur
  Unreadable,  \* sections the first pass may fail to read
  MaxRel       \* bound: relocation entries of the object

ASSUME ConstantsAssumption ==
  /\ IsFiniteSet(Sym) /\ Found \subseteq Sym
  /\ Type \subseteq {"64", "PC32", "PLT32", "GOTPCREL", "32", "32S", "other"}
  /\ Unreadable \subseteq {1, 2}
  /\ MaxRel \in Nat

VARIABLES
  rel,      \* the entries, in the order of their sections
  cut,      \* the first cut entries are in section 1, the others in section 2
  unread,   \* sections the first pass could not read
  pc,       \* where loading or relocate_impl is
  next,     \* entries already applied
  slot,     \* slot[i]: what entry i was made to refer to
  gotCnt, pltCnt,   \* capacity of the two tables
  gotIdx, pltIdx,   \* PltGotSection::got_idx, plt_idx
  gotMap, pltMap,   \* PltGotSection::got_map, plt_map
  got,      \* got[k]: the symbol whose address GOT slot k holds
  plt       \* plt[k]: the GOT slot PLT stub k jumps through

pltgot == <<gotIdx, pltIdx, gotMap, pltMap, got, plt>>
vars == <<rel, cut, unread, pc, next, slot, gotCnt, pltCnt, pltgot>>

-----------------------------------------------------------------------------
\* near: the value of the entry fits into its 32 bits.
Entry == [type : Type, sym : Sym, near : {"near", "far"}]

\* What the place of an entry refers to: the symbol itself, GOT slot k or
\* PLT stub k.
Ref(w, k) == [via |-> w, k |-> k]
Untouched == Ref("file", 0)
Refs == [via : {"file", "direct", "got", "plt"}, k : Nat]

\* f with v at k.
Put(f, k, v) == [x \in DOMAIN f \cup {k} |-> IF x = k THEN v ELSE f[x]]

Section(i) == IF i <= cut THEN 1 ELSE 2

needs_got(type) == type \in {"GOTPCREL", "PLT32"}

needs_plt(type) == type = "PLT32"

\* The entries of the sections the first pass can read.
Counted == {rel[i] : i \in {j \in 1..Len(rel) : Section(j) \notin unread}}

got_set == {e.sym : e \in {f \in Counted : needs_got(f.type)}}
plt_set == {e.sym : e \in {f \in Counted : needs_plt(f.type)}}

\* Mutant: a stub is expected to share the slot of its symbol.
got_cnt_shared == Cardinality(got_set)

\* The size of the GOT: a slot for each symbol and another for each stub.
got_cnt == Cardinality(got_set) + Cardinality(plt_set)

\* The tables of PltGotSection stay in their types.
TypeOK ==
  /\ rel \in Seq(Entry) /\ cut \in Nat /\ unread \subseteq Unreadable
  /\ pc \in {"count", "relocate", "done", "failed", "panicked"}
  /\ next \in 0..Len(rel)
  /\ slot \in [1..Len(rel) -> Refs]
  /\ gotCnt \in Nat /\ pltCnt \in Nat /\ gotIdx \in Nat /\ pltIdx \in Nat
  /\ DOMAIN gotMap \subseteq Sym /\ \A s \in DOMAIN gotMap : gotMap[s] \in Nat
  /\ DOMAIN pltMap \subseteq Sym /\ \A s \in DOMAIN pltMap : pltMap[s] \in Nat
  /\ DOMAIN got \subseteq Nat /\ \A k \in DOMAIN got : got[k] \in Sym
  /\ DOMAIN plt \subseteq Nat /\ \A k \in DOMAIN plt : plt[k] \in Nat

Empty == [k \in {} |-> 0]

Init ==
  /\ rel \in UNION {[1..n -> Entry] : n \in 0..MaxRel}
  /\ cut \in 0..Len(rel) /\ unread \in SUBSET Unreadable
  /\ pc = "count" /\ next = 0
  /\ slot = [i \in 1..Len(rel) |-> Untouched]
  /\ gotCnt = 0 /\ pltCnt = 0 /\ gotIdx = 0 /\ pltIdx = 0
  /\ gotMap = Empty /\ pltMap = Empty /\ got = Empty /\ plt = Empty

-----------------------------------------------------------------------------
\* SectionSegments::new sizes the tables.
count_needed_entries ==
  /\ pc = "count" /\ pc' = "relocate"
  /\ gotCnt' = got_cnt
  /\ pltCnt' = Cardinality(plt_set)
  /\ UNCHANGED <<rel, cut, unread, next, slot, pltgot>>

\* The place of the current entry is written.
Apply(r) ==
  /\ slot' = [slot EXCEPT ![next + 1] = r] /\ next' = next + 1
  /\ UNCHANGED <<rel, cut, unread, pc, gotCnt, pltCnt>>

\* The absolute and pc-relative types.
relocate_direct(e) ==
  /\ e.sym \in Found
  /\ \/ e.type = "64"
     \/ e.type \in {"PC32", "PLT32", "32", "32S"} /\ e.near = "near"
  /\ Apply(Ref("direct", 0)) /\ UNCHANGED pltgot

\* An unknown symbol, an unknown type or a value that does not fit.
relocate_err(e) ==
  /\ \/ e.sym \notin Found
     \/ e.type = "other"
     \/ e.type \in {"PC32", "32", "32S"} /\ e.near = "far"
  /\ pc' = "failed"
  /\ UNCHANGED <<rel, cut, unread, next, slot, gotCnt, pltCnt, pltgot>>

\* R_X86_64_GOTPCREL: add_got_entry, Occupied or Vacant.
relocate_got(e) ==
  /\ e.sym \in Found /\ e.type = "GOTPCREL"
  /\ \/ /\ e.sym \in DOMAIN gotMap
        /\ Apply(Ref("got", gotMap[e.sym])) /\ UNCHANGED pltgot
     \/ /\ e.sym \notin DOMAIN gotMap
        /\ gotMap' = Put(gotMap, e.sym, gotIdx) /\ gotIdx' = gotIdx + 1
        /\ got' = Put(got, gotIdx, e.sym)
        /\ Apply(Ref("got", gotIdx)) /\ UNCHANGED <<pltIdx, pltMap, plt>>

\* Mutant: the GOT slot of a stub is not taken out of the GOT.
got_idx_kept == gotIdx

\* got_idx after add_plt_entry.
got_idx_taken == gotIdx + 1

\* R_X86_64_PLT32 out of range: add_plt_entry, Occupied or Vacant.
relocate_plt(e) ==
  /\ e.sym \in Found /\ e.type = "PLT32" /\ e.near = "far"
  /\ \/ /\ e.sym \in DOMAIN pltMap
        /\ Apply(Ref("plt", pltMap[e.sym])) /\ UNCHANGED pltgot
     \/ /\ e.sym \notin DOMAIN pltMap
        /\ pltMap' = Put(pltMap, e.sym, pltIdx) /\ pltIdx' = pltIdx + 1
        /\ gotIdx' = got_idx_taken
        /\ plt' = Put(plt, pltIdx, gotIdx) /\ got' = Put(got, gotIdx, e.sym)
        /\ Apply(Ref("plt", pltIdx)) /\ UNCHANGED gotMap

\* The slot or the stub of the entry, or the slot of the stub, is out of reach
\* of 32 bits: unwrap.  What was handed out last is not used.
relocate_panic(e) ==
  /\ e.sym \in Found
  /\ e.type = "GOTPCREL" \/ (e.type = "PLT32" /\ e.near = "far")
  /\ pc' = "panicked"
  /\ UNCHANGED <<rel, cut, unread, next, slot, gotCnt, pltCnt, pltgot>>

relocate ==
  /\ pc = "relocate" /\ next < Len(rel)
  /\ LET e == rel[next + 1] IN
     \/ relocate_direct(e) \/ relocate_got(e) \/ relocate_plt(e)
     \/ relocate_err(e) \/ relocate_panic(e)

\* Mutant: the loop over the entries ends one too early.
protect_early ==
  /\ pc = "relocate" /\ next + 1 >= Len(rel) /\ pc' \in {"done", "failed"}
  /\ UNCHANGED <<rel, cut, unread, next, slot, gotCnt, pltCnt, pltgot>>

\* The segments get their protection, which may fail, and the initialisers
\* run.
protect ==
  /\ pc = "relocate" /\ next = Len(rel) /\ pc' \in {"done", "failed"}
  /\ UNCHANGED <<rel, cut, unread, next, slot, gotCnt, pltCnt, pltgot>>

Next == count_needed_entries \/ relocate \/ protect

Spec == Init /\ [][Next]_vars

-----------------------------------------------------------------------------
(* Properties *)

\* No GOT slot or PLT stub is handed out beyond the space reserved for it:
\* the first pass counts at least what relocation asks for.  "GOT should
\* contain entries for both GOT relocations and PLT stubs."
GotFits ==
  pc # "count" =>
    /\ gotIdx <= gotCnt /\ pltIdx <= pltCnt
    /\ \A k \in DOMAIN got : k < gotCnt
    /\ \A k \in DOMAIN plt : k < pltCnt

\* Entry i leads to its own symbol.
Leads(i) ==
  \/ slot[i].via = "direct"
  \/ slot[i].via = "got" /\ slot[i].k \in DOMAIN got /\ got[slot[i].k] = rel[i].sym
  \/ slot[i].via = "plt" /\ slot[i].k \in DOMAIN plt /\ plt[slot[i].k] \in DOMAIN got
     /\ got[plt[slot[i].k]] = rel[i].sym

\* Every entry applied so far leads to its own symbol, directly, through
\* its GOT slot or through the slot its PLT stub jumps through, whatever
\* add_got_entry and add_plt_entry wrote for the entries after it.
EntriesLead == \A i \in 1..next : Leads(i)

-----------------------------------------------------------------------------
(* What this means to the user of the object *)

\* The symbol control or data reaches by way of entry i, in the tables as
\* they are now.
Target(i) ==
  CASE slot[i].via = "got" -> got[slot[i].k]
    [] slot[i].via = "plt" -> got[plt[slot[i].k]]
    [] OTHER -> rel[i].sym

Wants == [i \in 1..Len(rel) |-> rel[i].sym]
Bound == [i \in 1..next |-> Target(i)]
Outcome ==
  CASE pc = "done" -> "linked"
    [] pc \in {"failed", "panicked"} -> "failed"
    [] OTHER -> "linking"

Promise == INSTANCE ObjectBinding WITH want <- Wants, bound <- Bound, outcome <- Outcome

\* relocate_impl, with the tables PltGotSection hands out slots and stubs of,
\* binds the references of an object as if there were no tables.
BindsReferences == Promise!Spec
=============================================================================
