-------------------------- MODULE StaticLinkProofs --------------------------
(***************************************************************************)
(* The GOT and the PLT of an object file are large enough, and every entry *)
(* leads to its symbol, for every object: any symbols, any number of       *)
(* entries of any type in any order.                                       *)
(***************************************************************************)
EXTENDS StaticLink, FiniteSetTheorems, TLAPS

\* The maps hold only symbols the first pass counted.
MapsCounted == DOMAIN gotMap \subseteq got_set /\ DOMAIN pltMap \subseteq plt_set

\* Every map entry has taken one slot of the GOT, a stub one of the PLT too.
IndexCounts ==
  /\ pltIdx = Cardinality(DOMAIN pltMap)
  /\ gotIdx = Cardinality(DOMAIN gotMap) + Cardinality(DOMAIN pltMap)

Sized == pc # "count" => gotCnt = got_cnt /\ pltCnt = Cardinality(plt_set)

\* The slot at the index has not been written yet.
Fresh == (\A k \in DOMAIN got : k < gotIdx) /\ (\A k \in DOMAIN plt : k < pltIdx)

SlotOf(s) == gotMap[s] \in DOMAIN got /\ got[gotMap[s]] = s

StubOf(s) ==
  /\ pltMap[s] \in DOMAIN plt /\ plt[pltMap[s]] \in DOMAIN got
  /\ got[plt[pltMap[s]]] = s

MapsLead == (\A s \in DOMAIN gotMap : SlotOf(s)) /\ (\A s \in DOMAIN pltMap : StubOf(s))

IInv ==
  /\ TypeOK /\ unread = {}
  /\ MapsCounted /\ IndexCounts /\ Sized /\ Fresh /\ MapsLead /\ EntriesLead

-----------------------------------------------------------------------------
\* The counted symbols are symbols, so there are finitely many.
LEMMA CountedFinite ==
  ASSUME TypeOK
  PROVE  /\ got_set \subseteq Sym /\ plt_set \subseteq Sym
         /\ IsFiniteSet(got_set) /\ IsFiniteSet(plt_set)
         /\ Cardinality(got_set) \in Nat /\ Cardinality(plt_set) \in Nat
<1>1. \A i \in 1..Len(rel) : rel[i].sym \in Sym
  <2>1. \A i \in 1..Len(rel) : rel[i] \in Entry
    BY DEF TypeOK
  <2>2. \A e \in Entry : e.sym \in Sym
    BY DEF Entry
  <2> QED
    BY <2>1, <2>2
<1>2. got_set \subseteq Sym /\ plt_set \subseteq Sym
  BY <1>1 DEF got_set, plt_set, Counted
<1>3. IsFiniteSet(got_set) /\ IsFiniteSet(plt_set)
  BY <1>2, FS_Subset, ConstantsAssumption
<1> QED
  BY <1>2, <1>3, FS_CardinalityType

\* The indices stay within what the first pass counted (add_got_entry and
\* add_plt_entry in section.rs never check them).
LEMMA WithinCount ==
  ASSUME TypeOK, MapsCounted, IndexCounts
  PROVE  gotIdx <= got_cnt /\ pltIdx <= Cardinality(plt_set)
<1>1. /\ IsFiniteSet(DOMAIN gotMap) /\ Cardinality(DOMAIN gotMap) <= Cardinality(got_set)
      /\ IsFiniteSet(DOMAIN pltMap) /\ Cardinality(DOMAIN pltMap) <= Cardinality(plt_set)
  BY CountedFinite, FS_Subset DEF MapsCounted
<1>2. Cardinality(DOMAIN gotMap) \in Nat /\ Cardinality(DOMAIN pltMap) \in Nat
  BY <1>1, FS_CardinalityType
<1> QED
  BY <1>1, <1>2, CountedFinite DEF IndexCounts, got_cnt

-----------------------------------------------------------------------------
\* The invariant holds initially.
LEMMA InitIInv ==
  ASSUME Unreadable = {}, Init
  PROVE  IInv
<1>1. DOMAIN Empty = {} /\ Cardinality({}) = 0
  BY FS_EmptySet DEF Empty
<1>2. rel \in Seq(Entry) /\ Len(rel) \in Nat
  <2>1. PICK n \in 0..MaxRel : rel \in [1..n -> Entry]
    BY DEF Init
  <2> QED
    BY <2>1, ConstantsAssumption
<1>3. TypeOK
  BY <1>1, <1>2 DEF Init, TypeOK, Untouched, Ref, Refs
<1> QED
  BY <1>1, <1>3 DEF Init, IInv, MapsCounted, IndexCounts, Sized, Fresh, MapsLead, EntriesLead

\* The counted entries include the current one.
LEMMA CurrentCounted ==
  ASSUME IInv, NEW e, e = rel[next + 1], next < Len(rel)
  PROVE  /\ e \in Entry
         /\ e.type = "GOTPCREL" => e.sym \in got_set
         /\ e.type = "PLT32" => e.sym \in plt_set
<1>1. next + 1 \in 1..Len(rel)
  BY DEF IInv, TypeOK
<1>2. e \in Counted
  BY <1>1 DEF IInv, Counted
<1> QED
  BY <1>1, <1>2 DEF IInv, TypeOK, got_set, plt_set, needs_got, needs_plt

\* The sets of counted symbols are fixed by the object.
LEMMA SetsFixed ==
  ASSUME UNCHANGED <<rel, cut, unread>>
  PROVE  got_set' = got_set /\ plt_set' = plt_set /\ got_cnt' = got_cnt
BY DEF got_set, plt_set, got_cnt, Counted, Section

\* A step that leaves the tables alone: the first pass, an error, the end.
LEMMA QuietStep ==
  ASSUME IInv, UNCHANGED <<rel, cut, unread, next, slot, pltgot>>,
         pc' \in {"relocate", "done", "failed", "panicked"},
         gotCnt' \in Nat, pltCnt' \in Nat, Sized'
  PROVE  IInv'
<1> USE DEF pltgot
<1>1. TypeOK'
  BY DEF IInv, TypeOK
<1>2. MapsCounted' /\ IndexCounts' /\ Fresh'
  BY SetsFixed DEF IInv, MapsCounted, IndexCounts, Fresh
<1>3. MapsLead' /\ EntriesLead'
  BY DEF IInv, MapsLead, SlotOf, StubOf, EntriesLead, Leads
<1> QED
  BY <1>1, <1>2, <1>3 DEF IInv

\* The entries applied before keep leading to their symbols as long as no
\* written slot and no stub is overwritten.
LEMMA EarlierLead ==
  ASSUME IInv, NEW r, Apply(r), next < Len(rel),
         \A k \in DOMAIN got : k \in DOMAIN got' /\ got'[k] = got[k],
         \A k \in DOMAIN plt : k \in DOMAIN plt' /\ plt'[k] = plt[k]
  PROVE  \A i \in 1..next : Leads(i)'
<1> SUFFICES ASSUME NEW i \in 1..next
             PROVE  Leads(i)'
  OBVIOUS
<1>1. slot'[i] = slot[i] /\ rel'[i] = rel[i]
  BY DEF IInv, TypeOK, Apply
<1>2. Leads(i)
  BY DEF IInv, EntriesLead
<1> QED
  BY <1>1, <1>2 DEF Leads

\* An entry that uses the tables as they are.
LEMMA ReuseStep ==
  ASSUME IInv, pc = "relocate", next < Len(rel), NEW r \in Refs, Apply(r), UNCHANGED pltgot,
         NEW n \in Nat, n = next + 1, Leads(n)'
  PROVE  IInv'
<1> USE DEF pltgot
<1>1. TypeOK'
  BY DEF IInv, TypeOK, Apply
<1>2. MapsCounted' /\ IndexCounts' /\ Fresh' /\ Sized'
  BY SetsFixed DEF IInv, MapsCounted, IndexCounts, Fresh, Sized, Apply
<1>3. MapsLead'
  BY DEF IInv, MapsLead, SlotOf, StubOf
<1>4. EntriesLead'
  <2>1. \A i \in 1..next : Leads(i)'
    BY EarlierLead
  <2>2. next' = next + 1 /\ next \in Nat
    BY DEF Apply, IInv, TypeOK
  <2> QED
    BY <2>1, <2>2 DEF EntriesLead
<1> QED
  BY <1>1, <1>2, <1>3, <1>4 DEF IInv, Apply

\* A new GOT slot for the symbol of the current entry.
LEMMA NewSlotStep ==
  ASSUME IInv, pc = "relocate", next < Len(rel), NEW e, e = rel[next + 1],
         e.sym \notin DOMAIN gotMap, e.type = "GOTPCREL",
         gotMap' = Put(gotMap, e.sym, gotIdx), gotIdx' = gotIdx + 1,
         got' = Put(got, gotIdx, e.sym), Apply(Ref("got", gotIdx)),
         UNCHANGED <<pltIdx, pltMap, plt>>
  PROVE  IInv'
<1>1. /\ DOMAIN gotMap' = DOMAIN gotMap \cup {e.sym} /\ gotMap'[e.sym] = gotIdx
      /\ \A s \in DOMAIN gotMap : gotMap'[s] = gotMap[s]
  BY DEF Put
<1>2. /\ DOMAIN got' = DOMAIN got \cup {gotIdx} /\ got'[gotIdx] = e.sym
      /\ \A k \in DOMAIN got : k # gotIdx => got'[k] = got[k]
  BY DEF Put
<1>3. gotIdx \in Nat /\ \A k \in DOMAIN got : k \in Nat /\ k < gotIdx
  BY DEF IInv, TypeOK, Fresh
<1>4. \A k \in DOMAIN got : k \in DOMAIN got' /\ got'[k] = got[k]
  BY <1>2, <1>3
<1>5. e \in Entry /\ e.sym \in got_set /\ e.sym \in Sym
  BY CurrentCounted DEF Entry
<1>6. TypeOK'
  <2>1. Ref("got", gotIdx) \in Refs
    BY <1>3 DEF Ref, Refs
  <2>2. DOMAIN gotMap' \subseteq Sym /\ \A s \in DOMAIN gotMap' : gotMap'[s] \in Nat
    BY <1>1, <1>3, <1>5 DEF IInv, TypeOK
  <2>3. DOMAIN got' \subseteq Nat /\ \A k \in DOMAIN got' : got'[k] \in Sym
    BY <1>2, <1>3, <1>4, <1>5 DEF IInv, TypeOK
  <2> QED
    BY <1>3, <2>1, <2>2, <2>3 DEF IInv, TypeOK, Apply
<1>7. MapsCounted' /\ Sized'
  BY <1>1, <1>5, SetsFixed DEF IInv, MapsCounted, Sized, Apply
<1>8. IndexCounts'
  <2>1. IsFiniteSet(DOMAIN gotMap)
    BY FS_Subset, ConstantsAssumption DEF IInv, TypeOK
  <2>2. Cardinality(DOMAIN gotMap') = Cardinality(DOMAIN gotMap) + 1
    BY <1>1, <2>1, FS_AddElement
  <2>3. Cardinality(DOMAIN gotMap) \in Nat /\ Cardinality(DOMAIN pltMap) \in Nat
    BY <2>1, FS_Subset, FS_CardinalityType, ConstantsAssumption DEF IInv, TypeOK
  <2> QED
    BY <2>2, <2>3 DEF IInv, IndexCounts
<1>9. Fresh'
  BY <1>2, <1>3 DEF IInv, Fresh
<1>10. MapsLead'
  <2>1. \A s \in DOMAIN gotMap' : SlotOf(s)'
    BY <1>1, <1>2, <1>4 DEF IInv, MapsLead, SlotOf
  <2>2. \A s \in DOMAIN pltMap : StubOf(s)'
    BY <1>4 DEF IInv, MapsLead, StubOf
  <2> QED
    BY <2>1, <2>2 DEF MapsLead
<1>11. EntriesLead'
  <2>1. \A i \in 1..next : Leads(i)'
    BY <1>4, EarlierLead
  <2>2. next' = next + 1 /\ next \in Nat /\ next + 1 \in 1..Len(rel)
    BY DEF Apply, IInv, TypeOK
  <2>3. slot'[next + 1] = Ref("got", gotIdx) /\ rel'[next + 1] = e
    BY <2>2 DEF Apply, IInv, TypeOK
  <2>4. ASSUME NEW n \in Nat, n = next + 1
        PROVE  Leads(n)'
    BY <1>2, <2>3, <2>4 DEF Leads, Ref
  <2> QED
    BY <2>1, <2>2, <2>4 DEF EntriesLead
<1> QED
  BY <1>6, <1>7, <1>8, <1>9, <1>10, <1>11 DEF IInv, Apply

\* A new PLT stub, and the GOT slot it jumps through.
LEMMA NewStubStep ==
  ASSUME IInv, pc = "relocate", next < Len(rel), NEW e, e = rel[next + 1],
         e.sym \notin DOMAIN pltMap, e.type = "PLT32",
         pltMap' = Put(pltMap, e.sym, pltIdx), pltIdx' = pltIdx + 1, gotIdx' = gotIdx + 1,
         plt' = Put(plt, pltIdx, gotIdx), got' = Put(got, gotIdx, e.sym),
         Apply(Ref("plt", pltIdx)), UNCHANGED gotMap
  PROVE  IInv'
<1>1. /\ DOMAIN pltMap' = DOMAIN pltMap \cup {e.sym} /\ pltMap'[e.sym] = pltIdx
      /\ \A s \in DOMAIN pltMap : pltMap'[s] = pltMap[s]
  BY DEF Put
<1>2. /\ DOMAIN got' = DOMAIN got \cup {gotIdx} /\ got'[gotIdx] = e.sym
      /\ \A k \in DOMAIN got : k # gotIdx => got'[k] = got[k]
  BY DEF Put
<1>3. /\ DOMAIN plt' = DOMAIN plt \cup {pltIdx} /\ plt'[pltIdx] = gotIdx
      /\ \A k \in DOMAIN plt : k # pltIdx => plt'[k] = plt[k]
  BY DEF Put
<1>4. /\ gotIdx \in Nat /\ \A k \in DOMAIN got : k \in Nat /\ k < gotIdx
      /\ pltIdx \in Nat /\ \A k \in DOMAIN plt : k \in Nat /\ k < pltIdx
  BY DEF IInv, TypeOK, Fresh
<1>5. \A k \in DOMAIN got : k \in DOMAIN got' /\ got'[k] = got[k]
  BY <1>2, <1>4
<1>6. \A k \in DOMAIN plt : k \in DOMAIN plt' /\ plt'[k] = plt[k]
  BY <1>3, <1>4
<1>7. e \in Entry /\ e.sym \in plt_set /\ e.sym \in Sym
  BY CurrentCounted DEF Entry
<1>8. TypeOK'
  <2>1. Ref("plt", pltIdx) \in Refs
    BY <1>4 DEF Ref, Refs
  <2>2. DOMAIN pltMap' \subseteq Sym /\ \A s \in DOMAIN pltMap' : pltMap'[s] \in Nat
    BY <1>1, <1>4, <1>7 DEF IInv, TypeOK
  <2>3. DOMAIN got' \subseteq Nat /\ \A k \in DOMAIN got' : got'[k] \in Sym
    BY <1>2, <1>4, <1>5, <1>7 DEF IInv, TypeOK
  <2>4. DOMAIN plt' \subseteq Nat /\ \A k \in DOMAIN plt' : plt'[k] \in Nat
    BY <1>3, <1>4, <1>6 DEF IInv, TypeOK
  <2> QED
    BY <1>4, <2>1, <2>2, <2>3, <2>4 DEF IInv, TypeOK, Apply
<1>9. MapsCounted' /\ Sized'
  BY <1>1, <1>7, SetsFixed DEF IInv, MapsCounted, Sized, Apply
<1>10. IndexCounts'
  <2>1. IsFiniteSet(DOMAIN pltMap)
    BY FS_Subset, ConstantsAssumption DEF IInv, TypeOK
  <2>2. Cardinality(DOMAIN pltMap') = Cardinality(DOMAIN pltMap) + 1
    BY <1>1, <2>1, FS_AddElement
  <2>3. Cardinality(DOMAIN gotMap) \in Nat /\ Cardinality(DOMAIN pltMap) \in Nat
    BY <2>1, FS_Subset, FS_CardinalityType, ConstantsAssumption DEF IInv, TypeOK
  <2> QED
    BY <2>2, <2>3 DEF IInv, IndexCounts
<1>11. Fresh'
  BY <1>2, <1>3, <1>4 DEF IInv, Fresh
<1>12. MapsLead'
  <2>1. \A s \in DOMAIN gotMap : SlotOf(s)'
    BY <1>5 DEF IInv, MapsLead, SlotOf
  <2>2. \A s \in DOMAIN pltMap : StubOf(s)'
    BY <1>1, <1>5, <1>6 DEF IInv, MapsLead, StubOf
  <2>3. StubOf(e.sym)'
    BY <1>1, <1>2, <1>3, <1>7 DEF StubOf
  <2> QED
    BY <1>1, <2>1, <2>2, <2>3 DEF MapsLead
<1>13. EntriesLead'
  <2>1. \A i \in 1..next : Leads(i)'
    BY <1>5, <1>6, EarlierLead
  <2>2. next' = next + 1 /\ next \in Nat /\ next + 1 \in 1..Len(rel)
    BY DEF Apply, IInv, TypeOK
  <2>3. slot'[next + 1] = Ref("plt", pltIdx) /\ rel'[next + 1] = e
    BY <2>2 DEF Apply, IInv, TypeOK
  <2>4. ASSUME NEW n \in Nat, n = next + 1
        PROVE  Leads(n)'
    BY <1>2, <1>3, <2>3, <2>4 DEF Leads, Ref
  <2> QED
    BY <2>1, <2>2, <2>4 DEF EntriesLead
<1> QED
  BY <1>8, <1>9, <1>10, <1>11, <1>12, <1>13 DEF IInv, Apply

-----------------------------------------------------------------------------
\* Every step keeps the invariant: one case per action.
LEMMA StepIInv ==
  ASSUME IInv, [Next]_vars
  PROVE  IInv'
<1>1. CASE count_needed_entries
  <2>1. Cardinality(got_set) \in Nat /\ Cardinality(plt_set) \in Nat
    BY CountedFinite DEF IInv
  <2>2. gotCnt' = got_cnt /\ pltCnt' = Cardinality(plt_set)
    BY <1>1 DEF count_needed_entries
  <2>3. Sized'
    BY <1>1, <2>2, SetsFixed DEF count_needed_entries, Sized
  <2> QED
    BY <1>1, <2>1, <2>2, <2>3, QuietStep DEF count_needed_entries, got_cnt
<1>2. CASE relocate
  <2> PICK e : e = rel[next + 1]
    OBVIOUS
  <2>0. pc = "relocate" /\ next < Len(rel) /\ next \in Nat /\ next + 1 \in Nat
    BY <1>2 DEF relocate, IInv, TypeOK
  <2>1. CASE relocate_direct(e)
    <3>1. Ref("direct", 0) \in Refs
      BY DEF Ref, Refs
    <3>2. ASSUME NEW n \in Nat, n = next + 1
          PROVE  Leads(n)'
      BY <2>0, <2>1, <3>2 DEF relocate_direct, Apply, IInv, TypeOK, Leads, Ref
    <3> QED
      BY <2>0, <2>1, <3>1, <3>2, ReuseStep DEF relocate_direct
  <2>2. CASE relocate_got(e)
    <3>1. CASE e.sym \in DOMAIN gotMap
      <4>1. Ref("got", gotMap[e.sym]) \in Refs
        BY <3>1 DEF Ref, Refs, IInv, TypeOK
      <4>2. Apply(Ref("got", gotMap[e.sym])) /\ UNCHANGED pltgot
        BY <2>2, <3>1 DEF relocate_got
      <4>3. SlotOf(e.sym)
        BY <3>1 DEF IInv, MapsLead
      <4>4. ASSUME NEW n \in Nat, n = next + 1
            PROVE  Leads(n)'
        <5>1. slot'[n] = Ref("got", gotMap[e.sym]) /\ rel'[n] = e
          BY <2>0, <4>2, <4>4 DEF Apply, IInv, TypeOK
        <5> QED
          BY <4>2, <4>3, <5>1 DEF Leads, Ref, SlotOf, pltgot
      <4> QED
        BY <2>0, <4>1, <4>2, <4>4, ReuseStep
    <3>2. CASE e.sym \notin DOMAIN gotMap
      BY <2>0, <2>2, <3>2, NewSlotStep DEF relocate_got
    <3> QED
      BY <3>1, <3>2
  <2>3. CASE relocate_plt(e)
    <3>1. CASE e.sym \in DOMAIN pltMap
      <4>1. Ref("plt", pltMap[e.sym]) \in Refs
        BY <3>1 DEF Ref, Refs, IInv, TypeOK
      <4>2. Apply(Ref("plt", pltMap[e.sym])) /\ UNCHANGED pltgot
        BY <2>3, <3>1 DEF relocate_plt
      <4>3. StubOf(e.sym)
        BY <3>1 DEF IInv, MapsLead
      <4>4. ASSUME NEW n \in Nat, n = next + 1
            PROVE  Leads(n)'
        <5>1. slot'[n] = Ref("plt", pltMap[e.sym]) /\ rel'[n] = e
          BY <2>0, <4>2, <4>4 DEF Apply, IInv, TypeOK
        <5> QED
          BY <4>2, <4>3, <5>1 DEF Leads, Ref, StubOf, pltgot
      <4> QED
        BY <2>0, <4>1, <4>2, <4>4, ReuseStep
    <3>2. CASE e.sym \notin DOMAIN pltMap
      BY SMTT(30), <2>0, <2>3, <3>2, NewStubStep DEF relocate_plt, got_idx_taken
    <3> QED
      BY <3>1, <3>2
  <2>4. CASE relocate_err(e)
    <3>1. Sized'
      BY <2>0, <2>4, SetsFixed DEF relocate_err, IInv, Sized
    <3> QED
      BY SMTT(30), <2>4, <3>1, QuietStep DEF relocate_err, IInv, TypeOK
  <2>5. CASE relocate_panic(e)
    <3>1. Sized'
      BY <2>0, <2>5, SetsFixed DEF relocate_panic, IInv, Sized
    <3> QED
      BY SMTT(30), <2>5, <3>1, QuietStep DEF relocate_panic, IInv, TypeOK
  <2> QED
    BY <1>2, <2>1, <2>2, <2>3, <2>4, <2>5 DEF relocate
<1>3. CASE protect
  <2>1. Sized'
    BY <1>3, SetsFixed DEF protect, IInv, Sized
  <2> QED
    BY SMTT(30), <1>3, <2>1, QuietStep DEF protect, IInv, TypeOK
<1>4. CASE UNCHANGED vars
  <2> USE DEF vars, pltgot
  <2>1. TypeOK' /\ unread' = {}
    BY <1>4 DEF IInv, TypeOK
  <2>2. MapsCounted' /\ IndexCounts' /\ Fresh' /\ Sized'
    BY <1>4, SetsFixed DEF IInv, MapsCounted, IndexCounts, Fresh, Sized
  <2>3. MapsLead' /\ EntriesLead'
    BY <1>4 DEF IInv, MapsLead, SlotOf, StubOf, EntriesLead, Leads
  <2> QED
    BY <2>1, <2>2, <2>3 DEF IInv
<1> QED
  BY <1>1, <1>2, <1>3, <1>4 DEF Next

\* The inductive invariant holds of every relocation of an object whose
\* relocation sections the first pass could read.
THEOREM IInvHolds == Unreadable = {} => (Spec => []IInv)
<1> SUFFICES ASSUME Unreadable = {}
             PROVE  Spec => []IInv
  OBVIOUS
<1>1. Init => IInv
  BY InitIInv
<1>2. IInv /\ [Next]_vars => IInv'
  BY StepIInv
<1> QED
  BY <1>1, <1>2, PTL DEF Spec

\* add_got_entry and add_plt_entry (section.rs), which never look at the size
\* of their tables, stay inside the GOT and the PLT count_needed_entries
\* sized.
THEOREM TablesFit == Unreadable = {} => (Spec => []GotFits)
<1> SUFFICES ASSUME Unreadable = {}
             PROVE  Spec => []GotFits
  OBVIOUS
<1>1. IInv => GotFits
  <2> SUFFICES ASSUME IInv, pc # "count"
               PROVE  /\ gotIdx <= gotCnt /\ pltIdx <= pltCnt
                      /\ \A k \in DOMAIN got : k < gotCnt
                      /\ \A k \in DOMAIN plt : k < pltCnt
    BY DEF GotFits
  <2>1. gotIdx <= gotCnt /\ pltIdx <= pltCnt
    BY WithinCount DEF IInv, Sized
  <2>2. /\ \A k \in DOMAIN got : k \in Nat /\ k < gotIdx
        /\ \A k \in DOMAIN plt : k \in Nat /\ k < pltIdx
        /\ gotIdx \in Nat /\ pltIdx \in Nat /\ gotCnt \in Nat /\ pltCnt \in Nat
    BY DEF IInv, TypeOK, Fresh
  <2> QED
    BY <2>1, <2>2
<1> QED
  BY <1>1, IInvHolds, PTL

\* Every entry StaticRelocator::relocate has applied leads to its own symbol
\* and goes on doing so while the rest of the object is relocated.
THEOREM EntriesKeepLeading == Unreadable = {} => (Spec => []EntriesLead)
<1> SUFFICES ASSUME Unreadable = {}
             PROVE  Spec => []EntriesLead
  OBVIOUS
<1>1. IInv => EntriesLead
  BY DEF IInv
<1> QED
  BY <1>1, IInvHolds, PTL

-----------------------------------------------------------------------------
(* StaticLink implements ObjectBinding: relocating an object binds its       *)
(* references as promised, for every object.  The inductive invariant says   *)
(* that every entry applied leads to its own symbol.  What the entries lead  *)
(* to is therefore a prefix of what they name, whatever the tables hold;     *)
(* applying an entry makes it longer by one.                                 *)

\* The references bound so far lead to the symbols they name.
BoundIsPrefix ==
  /\ next \in Nat /\ Len(rel) \in Nat /\ next <= Len(rel)
  /\ \A i \in 1..Len(rel) : rel[i].sym \in Sym
  /\ Bound = [i \in 1..next |-> rel[i].sym]

\* The invariant of StaticLinkProofs says so.
LEMMA InvariantGivesPrefix ==
  ASSUME IInv
  PROVE  BoundIsPrefix
<1>1. next \in Nat /\ next <= Len(rel) /\ Len(rel) \in Nat
  BY DEF IInv, TypeOK
<1>2. \A i \in 1..Len(rel) : rel[i].sym \in Sym
  <2>1. \A i \in 1..Len(rel) : rel[i] \in Entry
    BY DEF IInv, TypeOK
  <2> QED
    BY <2>1 DEF Entry
<1>3. ASSUME NEW i \in 1..next
      PROVE  Target(i) = rel[i].sym
  <2>1. Leads(i)
    BY DEF IInv, EntriesLead
  <2> QED
    BY <2>1 DEF Leads, Target
<1>4. Bound = [i \in 1..next |-> rel[i].sym]
  BY <1>3 DEF Bound
<1> QED
  BY <1>1, <1>2, <1>4 DEF BoundIsPrefix

\* Before the first entry nothing is bound.
LEMMA InitImplements ==
  ASSUME Init, BoundIsPrefix
  PROVE  Promise!Init
<1>1. Wants \in Seq(Sym)
  BY DEF Wants, BoundIsPrefix
<1>2. Bound = <<>>
  <2>1. 1..next = {}
    BY DEF Init
  <2> QED
    BY <2>1 DEF BoundIsPrefix
<1>3. Outcome = "linking"
  BY DEF Init, Outcome
<1> QED
  BY <1>1, <1>2, <1>3 DEF Promise!Init

\* A step that applies no entry leaves what is bound alone.
LEMMA SameBound ==
  ASSUME BoundIsPrefix, BoundIsPrefix', rel' = rel, next' = next
  PROVE  Wants' = Wants /\ Bound' = Bound
BY DEF BoundIsPrefix, Wants

\* A step that applies an entry binds one more reference.
LEMMA ApplyBinds ==
  ASSUME BoundIsPrefix, BoundIsPrefix', pc = "relocate", next < Len(rel), NEW r, Apply(r)
  PROVE  Promise!Bind
<1>1. rel' = rel /\ next' = next + 1 /\ pc' = pc
  BY DEF Apply
<1>2. Wants' = Wants /\ Outcome = "linking" /\ Outcome' = "linking"
  BY <1>1 DEF Wants, Outcome
<1>3. Len(Bound) = next /\ Len(Wants) = Len(rel)
  BY DEF BoundIsPrefix, Wants
<1>4. Bound' = Append(Bound, Wants[next + 1])
  <2>1. Wants[next + 1] = rel[next + 1].sym
    BY DEF BoundIsPrefix, Wants
  <2>2. Bound' = [i \in 1..(next + 1) |-> rel[i].sym]
    BY <1>1 DEF BoundIsPrefix
  <2> QED
    BY <2>1, <2>2 DEF BoundIsPrefix
<1> QED
  BY <1>2, <1>3, <1>4 DEF Promise!Bind

\* Every step of relocate_impl is a step of the promise or invisible to it.
LEMMA StepImplements ==
  ASSUME BoundIsPrefix, BoundIsPrefix', [Next]_vars
  PROVE  [Promise!Next]_(Promise!vars)
<1>1. CASE count_needed_entries
  <2>1. Wants' = Wants /\ Bound' = Bound
    BY <1>1, SameBound DEF count_needed_entries
  <2>2. Outcome' = Outcome
    BY <1>1 DEF count_needed_entries, Outcome
  <2> QED
    BY <2>1, <2>2 DEF Promise!vars
<1>2. CASE relocate
  <2> PICK e : e = rel[next + 1]
    OBVIOUS
  <2>1. CASE relocate_direct(e) \/ relocate_got(e) \/ relocate_plt(e)
    <3>1. \E r : Apply(r)
      BY <2>1 DEF relocate_direct, relocate_got, relocate_plt
    <3> QED
      BY <1>2, <3>1, ApplyBinds DEF relocate, Promise!Next
  <2>2. CASE relocate_err(e) \/ relocate_panic(e)
    <3>1. Wants' = Wants /\ Bound' = Bound
      BY <2>2, SameBound DEF relocate_err, relocate_panic
    <3>2. Outcome = "linking" /\ Outcome' = "failed"
      BY <1>2, <2>2 DEF relocate, relocate_err, relocate_panic, Outcome
    <3> QED
      BY <3>1, <3>2 DEF Promise!Next, Promise!Fail
  <2> QED
    BY <1>2, <2>1, <2>2 DEF relocate
<1>3. CASE protect
  <2>1. Wants' = Wants /\ Bound' = Bound
    BY <1>3, SameBound DEF protect
  <2>2. Outcome = "linking" /\ Outcome' \in {"linked", "failed"}
    BY <1>3 DEF protect, Outcome
  <2>3. Bound = Wants
    BY <1>3 DEF protect, BoundIsPrefix, Wants
  <2> QED
    BY <2>1, <2>2, <2>3 DEF Promise!Next, Promise!Finish, Promise!Fail
<1>4. CASE UNCHANGED vars
  <2>1. Wants' = Wants /\ Bound' = Bound /\ Outcome' = Outcome
    BY <1>4, SameBound DEF vars, Outcome
  <2> QED
    BY <2>1 DEF Promise!vars
<1> QED
  BY <1>1, <1>2, <1>3, <1>4 DEF Next

\* StaticRelocator (relocation/static.rs), with the tables of
\* PltGotSection, implements the binding of references without tables:
\* whatever slots and stubs are handed out, every reference is bound to the
\* symbol it names, stays so, and the object is linked only when all are.
THEOREM ImplementsBinding == Unreadable = {} => (Spec => BindsReferences)
<1> SUFFICES ASSUME Unreadable = {}
             PROVE  Spec => BindsReferences
  OBVIOUS
<1>1. Spec => []IInv
  BY IInvHolds
<1>2. IInv => BoundIsPrefix
  BY InvariantGivesPrefix
<1>3. Init /\ BoundIsPrefix => Promise!Init
  BY InitImplements
<1>4. BoundIsPrefix /\ BoundIsPrefix' /\ [Next]_vars => [Promise!Next]_(Promise!vars)
  BY StepImplements
<1> QED
  BY <1>1, <1>2, <1>3, <1>4, PTL DEF Spec, BindsReferences, Promise!Spec

=============================================================================
