-------------------------- MODULE RelocationProofs --------------------------
(***************************************************************************)
(* The safety and action properties of Relocation hold for every file,     *)
(* scope, answer of the handlers and number of threads.                    *)
(***************************************************************************)
EXTENDS Relocation, TLAPS, WellFoundedInduction, SequenceTheorems

\* The jump slots at the end of DT_RELA.
TailLen == IF joined THEN Len(plt) ELSE 0

\* What Files says of the tables: relative entries are counted, and the
\* entries that name a symbol of the GOT lie between them and the tail.
Tables ==
  /\ plt \in Seq(PltEntry) /\ rela \in Seq(Entry \cup PltEntry) /\ count \in Nat
  /\ joined \in BOOLEAN /\ lazy \in BOOLEAN /\ custom \in BOOLEAN
  /\ count + TailLen <= Len(rela)
  /\ \A i \in 1..Len(rela) :
       rela[i].type = "GOT" => count < i /\ i <= Len(rela) - TailLen

SlotTypes ==
  /\ slot \in [rela : [1..Len(rela) -> Value], plt : [1..Len(plt) -> Value],
               relr : [relr -> Value]]
  /\ next \in Nat /\ flags \in SUBSET (1..N)

\* relocate_impl has gone past relocate_pltrel.
Ran == pc \in {"finish", "init", "aborted"} \/ (pc = "done" /\ isInit)

\* Entry i of DT_RELA has been applied.
RelaDone(i) ==
  /\ rela[i].type # "NONE" => slot.rela[i] # File
  /\ rela[i].type = "GOT" =>
       \/ slot.rela[i].by = "handler"
       \/ /\ find_symbol_addr(rela[i].sym) # NotFound
          /\ slot.rela[i] = find_symbol_addr(rela[i].sym)

\* Entry j of DT_JMPREL has been applied, or was an eager one that is skipped.
PltDone(j) ==
  /\ ~lazy /\ plt[j].type = "JUMP_SLOT" /\ slot.plt[j].by # "handler" =>
       slot.plt[j] = IF find_symbol_addr(plt[j].sym) # NotFound
                     THEN find_symbol_addr(plt[j].sym) ELSE File
  /\ slot.plt[j] = File => ~lazy /\ plt[j].type = "JUMP_SLOT"

\* How far relocate_impl has come.
Progress ==
  /\ pc = "start" => next = 0
  /\ pc = "dynrel" =>
       next <= Len(Dynrel) /\ \A i \in 1..(Len(Relative) + next) : RelaDone(i)
  /\ pc = "pltrel" \/ Ran => \A i \in 1..(Len(Relative) + Len(Dynrel)) : RelaDone(i)
  /\ pc = "pltrel" => next <= Len(plt) /\ \A j \in 1..next : PltDone(j)
  /\ Ran => \A j \in 1..Len(plt) : PltDone(j)
  /\ pc \in {"dynrel", "pltrel"} \/ Ran => \A w \in relr : slot.relr[w].by = "base"
  /\ pc = "done" /\ ~isInit => plt = <<>> /\ \A i \in 1..Len(rela) : slot.rela[i] = File
  /\ pc = "start" => \A i \in 1..Len(rela) : slot.rela[i] = File
  /\ pc \in {"start", "dynrel"} => \A j \in 1..Len(plt) : slot.plt[j] = File
  /\ pc = "pltrel" => \A j \in (next + 1)..Len(plt) : slot.plt[j] = File
  /\ isInit => pc \in {"init", "done", "aborted"}
  /\ pc \in {"init", "aborted"} => isInit

\* Who provided a value of a slot has been flagged, is the image itself or
\* belongs to the lazy scope.
Flagged(v) ==
  /\ v.by = "lib" => v.lib \in flags \cup Needed \cup {Self}
  /\ v.by = "handler" => v.lib \in flags \cup {0}

SlotsFlagged ==
  /\ \A i \in 1..Len(rela) : Flagged(slot.rela[i])
  /\ \A j \in 1..Len(plt) : Flagged(slot.plt[j])

DepsCollected == pc = "done" /\ isInit => deps = flags \cup Needed

\* Only lazy images have stubs and run dl_fixup, after prepare_lazy_bind and
\* never with RELRO applied; all the threads bind a slot to the same address.
LazyOnly ==
  /\ \A j \in 1..Len(plt) : slot.plt[j].by = "stub" => lazy
  /\ Ran /\ lazy => got = (plt # <<>>) /\ lazyScope
  /\ relro => ~lazy /\ pc \in {"finish", "init", "done", "aborted"}

FixAgrees ==
  /\ fix \in [Thread -> [i : Nat, value : Value \cup {NotFound}]]
  /\ \A t \in Thread : fix[t] # Idle =>
       /\ lazy /\ Ran /\ fix[t].i \in 1..Len(plt)
       /\ fix[t].value = LazyScope_lookup(plt[fix[t].i].sym)
       /\ fix[t].value \in Value
       /\ fix[t].value.by = "lib" => fix[t].value.lib \in Needed
       /\ fix[t].value.by \in {"lib", "custom"}
       /\ slot.plt[fix[t].i] \in {By("stub", 0), fix[t].value}

\* The inductive invariant.
IInv ==
  Tables /\ SlotTypes /\ Progress /\ SlotsFlagged /\ DepsCollected /\ LazyOnly /\ FixAgrees

-----------------------------------------------------------------------------
(* Tables, scopes and writes *)

USE ZenonT(60)

\* A set of positions of the scope has a first element: FirstOf, which stands
\* for the search of the scope in order, is defined.
LEMMA FirstIn ==
  ASSUME NEW S \in SUBSET (1..N), S # {}
  PROVE  FirstOf(S) \in S
<1>1. S \subseteq Nat
  BY SMTT(30), ConstantsAssumption
<1>2. PICK x \in S : \A y \in S : ~(<<y, x>> \in OpToRel(<, Nat))
  BY <1>1, WFMin, NatLessThanWellFounded
<1>3. OpToRel(<, Nat) = {p \in Nat \X Nat : p[1] < p[2]}
  BY DEF OpToRel
<1>4. \A y \in S : ~(<<y, x>> \in {p \in Nat \X Nat : p[1] < p[2]})
  BY <1>2, <1>3
<1>5. ASSUME NEW y \in S PROVE x <= y
  <2>1. <<y, x>> \in Nat \X Nat /\ <<y, x>>[1] = y /\ <<y, x>>[2] = x
    BY <1>1
  <2>2. ~(<<y, x>>[1] < <<y, x>>[2])
    BY <1>4, <2>1
  <2> QED
    BY SMTT(30), <1>1, <2>1, <2>2
<1> QED
  BY <1>5 DEF FirstOf

\* find_symdef_impl answers a value whose library, if there is one, is
\* flagged or the image itself.
LEMMA SymdefValue ==
  ASSUME NEW s \in Sym, find_symdef_impl(s) # NotFound
  PROVE  /\ find_symdef_impl(s) \in Value
         /\ find_symdef_impl(s).by \in {"self", "lib", "null"}
<1>1. Defs[s] \in SUBSET (1..N)
  BY ConstantsAssumption
<1>2. CASE s \in Local
  BY <1>2 DEF find_symdef_impl, By, Value
<1>3. CASE s \notin Local /\ Defs[s] # {}
  <2>1. FirstOf(Defs[s]) \in 1..N
    BY <1>1, <1>3, FirstIn
  <2> QED
    BY <2>1, <1>3 DEF find_symdef_impl, By, Value
<1>4. CASE s \notin Local /\ Defs[s] = {}
  BY <1>4 DEF find_symdef_impl, find_weak, By, Value
<1> QED
  BY <1>2, <1>3, <1>4

\* The same of find_symbol_addr.
LEMMA AddrValue ==
  ASSUME NEW s \in Sym, find_symbol_addr(s) # NotFound
  PROVE  /\ find_symbol_addr(s) \in Value
         /\ find_symbol_addr(s).by \in {"pre", "self", "lib", "null", "post"}
<1>1. CASE find_symbol_addr(s) = find_symdef_impl(s)
  BY <1>1, SymdefValue
<1>2. CASE find_symbol_addr(s) \in {By("pre", 0), By("post", 0)}
  BY SMTT(30), <1>2 DEF By, Value
<1> QED
  BY <1>1, <1>2 DEF find_symbol_addr

\* The lazy scope answers with a library of DT_NEEDED or the custom lookup.
LEMMA LazyValue ==
  ASSUME NEW s \in Sym, LazyScope_lookup(s) # NotFound
  PROVE  /\ LazyScope_lookup(s) \in Value
         /\ LazyScope_lookup(s).by \in {"lib", "custom"}
         /\ LazyScope_lookup(s).by = "lib" => LazyScope_lookup(s).lib \in Needed
<1>1. Defs[s] \cap LazyLibs \in SUBSET (1..N) /\ LazyLibs \subseteq Needed
  BY ConstantsAssumption DEF LazyLibs
<1>2. CASE custom /\ s \in LazyFind
  BY <1>2 DEF LazyScope_lookup, By, Value
<1>3. CASE ~(custom /\ s \in LazyFind) /\ Defs[s] \cap LazyLibs # {}
  <2>1. FirstOf(Defs[s] \cap LazyLibs) \in Needed /\ FirstOf(Defs[s] \cap LazyLibs) \in 1..N
    BY <1>1, <1>3, FirstIn
  <2> QED
    BY <2>1, <1>3 DEF LazyScope_lookup, By, Value
<1> QED
  BY <1>2, <1>3 DEF LazyScope_lookup

\* The library a resolution used is reported, unless it is the image itself.
LEMMA UsedCovers ==
  ASSUME NEW v \in Value, v.by # "handler"
  PROVE  /\ Used(v) \in SUBSET (1..N)
         /\ v.by = "lib" => v.lib \in Used(v) \cup {Self}
BY DEF Used, Value

\* DynamicRelocation::new cuts DT_RELA into the relative entries and the
\* slice relocate_dynrel walks, which follows them.
LEMMA Cut ==
  ASSUME Tables
  PROVE  /\ Len(Relative) = IF relr = {} THEN count ELSE 0
         /\ Len(Dynrel) = IF relr = {} THEN Len(rela) - count - TailLen ELSE Len(rela)
         /\ Len(Relative) \in Nat /\ Len(Dynrel) \in Nat
         /\ Len(Relative) + Len(Dynrel) <= Len(rela)
         /\ \A k \in 1..Len(Dynrel) : Dynrel[k] = rela[Len(Relative) + k]
<1> DEFINE T == Entry \cup PltEntry
<1>1. rela \in Seq(T) /\ plt \in Seq(PltEntry) /\ Len(rela) \in Nat /\ Len(plt) \in Nat
      /\ count \in Nat /\ TailLen \in Nat /\ count + TailLen <= Len(rela)
  BY SMTT(30) DEF Tables, TailLen
<1> HIDE DEF T
<1>2. CASE relr # {}
  BY SMTT(30), <1>1, <1>2 DEF Relative, Dynrel
<1>3. CASE relr = {}
  <2>1. Len(SubSeq(rela, 1, count)) = count
    BY SMTT(30), <1>1, SubSeqProperties
  <2>2. /\ Rest \in Seq(T) /\ Len(Rest) = Len(rela) - count
        /\ \A k \in 1..(Len(rela) - count) : Rest[k] = rela[count + k]
    <3>1. /\ Rest \in Seq(T)
          /\ Len(Rest) = IF count + 1 <= Len(rela) THEN Len(rela) - (count + 1) + 1 ELSE 0
          /\ \A i \in 1..(Len(rela) - (count + 1) + 1) : Rest[i] = rela[count + 1 + i - 1]
      <4>1. \A i \in (count + 1)..Len(rela) : rela[i] \in T
        BY SMTT(30), <1>1
      <4> QED
        BY SMTT(30), <1>1, <4>1, SubSeqProperties DEF Rest
    <3> QED
      BY SMTT(30), <1>1, <3>1
  <2>3. CASE joined
    <3>1. /\ Len(SubSeq(Rest, 1, Len(Rest) - Len(plt))) = Len(Rest) - Len(plt)
          /\ \A k \in 1..(Len(Rest) - Len(plt)) : SubSeq(Rest, 1, Len(Rest) - Len(plt))[k] = Rest[k]
      <4>1. Len(Rest) - Len(plt) \in Nat
        BY SMTT(30), <1>1, <2>2, <2>3 DEF TailLen
      <4>2. \A i \in 1..(Len(Rest) - Len(plt)) : Rest[i] \in T
        BY SMTT(30), <1>1, <2>2, <4>1
      <4>3. /\ Len(SubSeq(Rest, 1, Len(Rest) - Len(plt))) =
                 IF 1 <= Len(Rest) - Len(plt) THEN Len(Rest) - Len(plt) - 1 + 1 ELSE 0
            /\ \A i \in 1..(Len(Rest) - Len(plt) - 1 + 1) :
                 SubSeq(Rest, 1, Len(Rest) - Len(plt))[i] = Rest[1 + i - 1]
        BY SMTT(30), <4>1, <4>2, SubSeqProperties
      <4> QED
        BY SMTT(30), <4>1, <4>3
    <3>2. Dynrel = SubSeq(Rest, 1, Len(Rest) - Len(plt))
      BY <1>3, <2>3 DEF Dynrel
    <3>3. Len(Relative) = count /\ TailLen = Len(plt)
      BY <1>3, <2>1, <2>3 DEF Relative, TailLen
    <3>4. Len(Dynrel) = Len(rela) - count - TailLen
      BY <1>1, <2>2, <3>1, <3>2, <3>3
    <3>5. \A k \in 1..Len(Dynrel) : Dynrel[k] = rela[Len(Relative) + k]
      BY SMTT(30), <1>1, <2>2, <3>1, <3>2, <3>3, <3>4
    <3> QED
      BY SMTT(30), <1>1, <1>3, <3>3, <3>4, <3>5
  <2>4. CASE ~joined
    BY SMTT(30), <1>1, <1>3, <2>1, <2>2, <2>4 DEF Relative, Dynrel, TailLen
  <2> QED
    BY <2>3, <2>4
<1> QED
  BY <1>2, <1>3

\* The slots of the tables are functions, and their entries are of the two
\* kinds of Entry and PltEntry.
LEMMA Shapes ==
  ASSUME Tables, SlotTypes
  PROVE  /\ slot.rela \in [1..Len(rela) -> Value] /\ slot.plt \in [1..Len(plt) -> Value]
         /\ slot.relr \in [relr -> Value]
         /\ Len(rela) \in Nat /\ Len(plt) \in Nat
         /\ DOMAIN rela = 1..Len(rela) /\ DOMAIN plt = 1..Len(plt)
         /\ \A i \in 1..Len(rela) : rela[i].type \in SymType \cup {"JUMP_SLOT"} => rela[i].sym \in Sym
         /\ \A j \in 1..Len(plt) : plt[j].type = "JUMP_SLOT" => plt[j].sym \in Sym
<1>1. slot.rela \in [1..Len(rela) -> Value] /\ slot.plt \in [1..Len(plt) -> Value]
      /\ slot.relr \in [relr -> Value]
  BY DEF SlotTypes
<1>2. /\ Len(rela) \in Nat /\ Len(plt) \in Nat
      /\ DOMAIN rela = 1..Len(rela) /\ DOMAIN plt = 1..Len(plt)
      /\ \A i \in 1..Len(rela) : rela[i] \in Entry \cup PltEntry
      /\ \A j \in 1..Len(plt) : plt[j] \in PltEntry
  BY SMTT(30) DEF Tables
<1>3. \A e \in Entry \cup PltEntry : e.type \in SymType \cup {"JUMP_SLOT"} => e.sym \in Sym
  BY DEF Entry, PltEntry, SymType
<1>4. \A e \in PltEntry : e.type = "JUMP_SLOT" => e.sym \in Sym
  BY DEF PltEntry
<1> QED
  BY <1>1, <1>2, <1>3, <1>4

\* A write to an entry of DT_RELA changes that slot.
LEMMA WroteRela ==
  ASSUME SlotTypes, NEW i \in 1..Len(rela), NEW v \in Value, NEW S \in SUBSET (1..N),
         Write("rela", i, v, S), UNCHANGED file
  PROVE  /\ slot'.rela = [slot.rela EXCEPT ![i] = v]
         /\ slot'.plt = slot.plt /\ slot'.relr = slot.relr
         /\ SlotTypes'
<1>1. slot = [rela |-> slot.rela, plt |-> slot.plt, relr |-> slot.relr]
  BY DEF SlotTypes
<1>2. slot' = [rela |-> [slot.rela EXCEPT ![i] = v], plt |-> slot.plt, relr |-> slot.relr]
  BY <1>1 DEF Write
<1>3. next' \in Nat /\ flags' \in SUBSET (1..N)
  BY SMTT(30) DEF Write, SlotTypes
<1> QED
  BY <1>2, <1>3 DEF SlotTypes, file

\* A write to an entry of DT_JMPREL changes that slot.
LEMMA WrotePlt ==
  ASSUME SlotTypes, NEW i \in 1..Len(plt), NEW v \in Value, NEW S \in SUBSET (1..N),
         Write("plt", i, v, S), UNCHANGED file
  PROVE  /\ slot'.plt = [slot.plt EXCEPT ![i] = v]
         /\ slot'.rela = slot.rela /\ slot'.relr = slot.relr
         /\ SlotTypes'
<1>1. slot = [rela |-> slot.rela, plt |-> slot.plt, relr |-> slot.relr]
  BY DEF SlotTypes
<1>2. slot' = [rela |-> slot.rela, plt |-> [slot.plt EXCEPT ![i] = v], relr |-> slot.relr]
  BY <1>1 DEF Write
<1>3. next' \in Nat /\ flags' \in SUBSET (1..N)
  BY SMTT(30) DEF Write, SlotTypes
<1> QED
  BY <1>2, <1>3 DEF SlotTypes, file

\* What the operators compute depends on the file alone.
LEMMA SameFile ==
  ASSUME UNCHANGED file
  PROVE  /\ Tables => Tables'
         /\ Len(rela)' = Len(rela) /\ Len(plt)' = Len(plt)
         /\ Len(Relative)' = Len(Relative) /\ Len(Dynrel)' = Len(Dynrel)
         /\ rela' = rela /\ plt' = plt /\ lazy' = lazy /\ relr' = relr /\ custom' = custom
         /\ \A s : LazyScope_lookup(s)' = LazyScope_lookup(s)
<1>1. /\ rela' = rela /\ plt' = plt /\ lazy' = lazy /\ relr' = relr /\ custom' = custom
      /\ joined' = joined /\ count' = count
  BY DEF file
<1>2. Relative' = Relative /\ Dynrel' = Dynrel /\ TailLen' = TailLen
  BY <1>1 DEF Relative, Dynrel, Rest, TailLen
<1>3. \A s : LazyScope_lookup(s)' = LazyScope_lookup(s)
  BY <1>1 DEF LazyScope_lookup, LazyLibs
<1> QED
  BY <1>1, <1>2, <1>3 DEF Tables

\* Everything but the slots, the flags and the place of relocate_impl.
Frame == UNCHANGED <<file, got, lazyScope, relro, isInit, deps, fix>>

-----------------------------------------------------------------------------
(* The rounds of relocate_dynrel and relocate_pltrel *)

\* A round of relocate_dynrel that writes a value the entry may get.
LEMMA RelaRound ==
  ASSUME IInv, pc = "dynrel", next < Len(Dynrel), Frame,
         NEW i, i = Len(Relative) + next + 1,
         NEW v \in Value, NEW S \in SUBSET (1..N), Write("rela", i, v, S),
         v.by = "lib" => v.lib \in S \cup {Self},
         v.by = "handler" => v.lib \in S \cup {0},
         rela[i].type # "NONE" => v # File,
         rela[i].type = "GOT" =>
           v.by = "handler" \/ (v = find_symbol_addr(rela[i].sym) /\ v # NotFound)
  PROVE  IInv'
<1>1. Tables /\ SlotTypes /\ Progress /\ SlotsFlagged /\ DepsCollected /\ LazyOnly /\ FixAgrees
  BY DEF IInv
<1>2. UNCHANGED file /\ pc' = pc /\ next' = next + 1 /\ flags' = flags \cup S /\ next \in Nat
      /\ isInit' = isInit /\ deps' = deps /\ fix' = fix /\ relro' = relro
  BY <1>1 DEF Frame, Write, SlotTypes
<1>3. i \in 1..Len(rela) /\ Len(Relative) \in Nat /\ Len(Dynrel) \in Nat
  BY SMTT(30), <1>1, <1>2, Cut
<1>4. /\ slot'.rela = [slot.rela EXCEPT ![i] = v]
      /\ slot'.plt = slot.plt /\ slot'.relr = slot.relr
      /\ SlotTypes'
  BY <1>1, <1>2, <1>3, WroteRela
<1>5. /\ Tables' /\ rela' = rela /\ plt' = plt /\ lazy' = lazy /\ relr' = relr
      /\ Len(Relative)' = Len(Relative) /\ Len(Dynrel)' = Len(Dynrel)
      /\ \A s : LazyScope_lookup(s)' = LazyScope_lookup(s)
  BY <1>1, <1>2, SameFile
<1>6. slot.rela \in [1..Len(rela) -> Value] /\ Len(rela) \in Nat
      /\ Len(Relative) + Len(Dynrel) <= Len(rela)
  BY <1>1, Shapes, Cut
<1>7. \A k \in 1..Len(rela) : slot'.rela[k] = IF k = i THEN v ELSE slot.rela[k]
  BY <1>3, <1>4, <1>6
<1>8. ~Ran /\ ~Ran'
  BY <1>1, <1>2 DEF Ran, Progress
<1>9. Progress'
  <2>1. \A k \in 1..(Len(Relative) + next + 1) : RelaDone(k)'
    <3> SUFFICES ASSUME NEW k \in 1..(Len(Relative) + next + 1) PROVE RelaDone(k)'
      OBVIOUS
    <3>1. CASE k = i
      BY <1>3, <1>5, <1>7, <3>1 DEF RelaDone, find_symbol_addr, find_symdef_impl, find_weak
    <3>2. CASE k # i
      <4>1. k \in 1..(Len(Relative) + next) /\ k \in 1..Len(rela)
        BY SMTT(30), <1>2, <1>3, <1>6, <3>2
      <4>2. RelaDone(k) /\ slot'.rela[k] = slot.rela[k]
        BY <1>1, <1>7, <3>2, <4>1 DEF Progress
      <4> QED
        BY <1>5, <4>2 DEF RelaDone
    <3> QED
      BY <3>1, <3>2
  <2> QED
    BY SMTT(30), <1>1, <1>2, <1>4, <1>5, <1>8, <2>1 DEF Progress
<1>10. SlotsFlagged'
  BY <1>1, <1>2, <1>4, <1>5, <1>7 DEF SlotsFlagged, Flagged
<1>11. DepsCollected' /\ LazyOnly'
  BY <1>1, <1>2, <1>4, <1>5, <1>8 DEF DepsCollected, LazyOnly
<1>12. FixAgrees'
  BY <1>1, <1>2, <1>8 DEF FixAgrees
<1> QED
  BY <1>4, <1>5, <1>9, <1>10, <1>11, <1>12 DEF IInv

\* A round of relocate_pltrel that leaves slot j with a value it may get:
\* one that is written, or the contents of the file.
LEMMA PltRound ==
  ASSUME IInv, pc = "pltrel", next < Len(plt), Frame, SlotTypes',
         NEW j, j = next + 1, NEW v \in Value,
         pc' = pc, next' = next + 1, flags \subseteq flags',
         slot'.plt = [slot.plt EXCEPT ![j] = v], slot'.rela = slot.rela, slot'.relr = slot.relr,
         v.by = "lib" => v.lib \in flags' \cup {Self},
         v.by = "handler" => v.lib \in flags' \cup {0},
         v.by = "stub" => lazy,
         v.by = "file" => ~lazy /\ plt[j].type = "JUMP_SLOT",
         ~lazy /\ plt[j].type = "JUMP_SLOT" /\ v.by # "handler" =>
           v = IF find_symbol_addr(plt[j].sym) # NotFound
               THEN find_symbol_addr(plt[j].sym) ELSE File
  PROVE  IInv'
<1>1. Tables /\ SlotTypes /\ Progress /\ SlotsFlagged /\ DepsCollected /\ LazyOnly /\ FixAgrees
  BY DEF IInv
<1>2. UNCHANGED file /\ next \in Nat
      /\ isInit' = isInit /\ deps' = deps /\ fix' = fix /\ relro' = relro
  BY <1>1 DEF Frame, SlotTypes
<1>3. /\ Tables' /\ rela' = rela /\ plt' = plt /\ lazy' = lazy /\ relr' = relr
      /\ Len(Relative)' = Len(Relative) /\ Len(Dynrel)' = Len(Dynrel)
  BY <1>1, <1>2, SameFile
<1>4. slot.plt \in [1..Len(plt) -> Value] /\ Len(plt) \in Nat
  BY <1>1, Shapes
<1>5. j \in 1..Len(plt)
  BY SMTT(30), <1>2, <1>4
<1>6. \A k \in 1..Len(plt) : slot'.plt[k] = IF k = j THEN v ELSE slot.plt[k]
  BY <1>4, <1>5
<1>7. ~Ran /\ ~Ran'
  BY <1>1, <1>2 DEF Ran, Progress
<1>8. Progress'
  <2>1. \A k \in 1..(next + 1) : PltDone(k)'
    <3> SUFFICES ASSUME NEW k \in 1..(next + 1) PROVE PltDone(k)'
      OBVIOUS
    <3>1. CASE k = j
      <4>1. slot'.plt[k] = v /\ File.by = "file"
        BY <1>5, <1>6, <3>1 DEF File, By
      <4> QED
        BY <1>3, <3>1, <4>1 DEF PltDone, find_symbol_addr, find_symdef_impl, find_weak
    <3>2. CASE k # j
      <4>1. k \in 1..next /\ k \in 1..Len(plt)
        BY SMTT(30), <1>2, <1>4, <3>2
      <4>2. PltDone(k) /\ slot'.plt[k] = slot.plt[k]
        BY <1>1, <1>6, <3>2, <4>1 DEF Progress
      <4> QED
        BY <1>3, <4>2 DEF PltDone
    <3> QED
      BY <3>1, <3>2
  <2>2. \A i \in 1..(Len(Relative) + Len(Dynrel)) : RelaDone(i)'
    BY <1>1, <1>3 DEF Progress, RelaDone
  <2>3. \A k \in (next + 2)..Len(plt) : slot'.plt[k] = File
    BY SMTT(30), <1>1, <1>2 DEF Progress
  <2> QED
    BY SMTT(30), <1>1, <1>2, <1>3, <1>7, <2>1, <2>2 DEF Progress
<1>9. SlotsFlagged'
  BY <1>1, <1>3, <1>6 DEF SlotsFlagged, Flagged
<1>10. DepsCollected' /\ LazyOnly'
  BY <1>1, <1>2, <1>3, <1>6, <1>7 DEF DepsCollected, LazyOnly
<1>11. FixAgrees'
  BY <1>1, <1>2, <1>7 DEF FixAgrees
<1> QED
  BY <1>3, <1>8, <1>9, <1>10, <1>11 DEF IInv

\* An error ends the relocation and leaves the slots as they are.
LEMMA Stops ==
  ASSUME IInv, pc \in {"dynrel", "pltrel"}, Frame, NEW p \in {"failed", "panicked"}, Stop(p)
  PROVE  IInv'
<1>1. Tables /\ SlotTypes /\ Progress /\ SlotsFlagged /\ DepsCollected /\ LazyOnly /\ FixAgrees
  BY DEF IInv
<1>2. UNCHANGED <<file, slot, flags, next, isInit, deps, fix, relro>> /\ pc' = p
  BY DEF Frame, Stop
<1>3. /\ Tables' /\ rela' = rela /\ plt' = plt /\ lazy' = lazy /\ relr' = relr
  BY <1>1, <1>2, SameFile
<1>4. ~isInit /\ ~relro /\ ~Ran /\ ~Ran'
  BY <1>1, <1>2 DEF Ran, Progress, LazyOnly
<1>5. SlotTypes'
  BY <1>1, <1>2, <1>3 DEF SlotTypes
<1>6. Progress'
  BY <1>2, <1>4 DEF Progress
<1>7. SlotsFlagged' /\ DepsCollected' /\ LazyOnly'
  BY <1>1, <1>2, <1>3, <1>4 DEF SlotsFlagged, Flagged, DepsCollected, LazyOnly
<1>8. FixAgrees'
  BY <1>1, <1>2, <1>4 DEF FixAgrees
<1> QED
  BY <1>3, <1>5, <1>6, <1>7, <1>8 DEF IInv

\* A handler deals with an entry of DT_RELA or fails.
LEMMA HandledRela ==
  ASSUME IInv, pc = "dynrel", next < Len(Dynrel), Frame,
         NEW i, i = Len(Relative) + next + 1, Handled("rela", i)
  PROVE  IInv'
<1>1. CASE Write("rela", i, By("handler", 0), {})
  <2>1. By("handler", 0) \in Value /\ By("handler", 0).by = "handler"
        /\ By("handler", 0).lib = 0 /\ By("handler", 0) # File
    BY DEF By, Value, File
  <2> QED
    BY SMTT(30), <1>1, <2>1, RelaRound
<1>2. ASSUME NEW d \in 1..N, Write("rela", i, By("handler", d), {d}) PROVE IInv'
  <2>1. By("handler", d) \in Value /\ By("handler", d).by = "handler"
        /\ By("handler", d).lib = d /\ By("handler", d) # File
    BY DEF By, Value, File
  <2> QED
    BY <1>2, <2>1, RelaRound
<1>3. CASE Stop("failed")
  BY <1>3, Stops
<1> QED
  BY <1>1, <1>2, <1>3 DEF Handled

\* A resolved symbol is written to the slot of its entry.
LEMMA ResolvedRela ==
  ASSUME IInv, pc = "dynrel", next < Len(Dynrel), Frame,
         NEW i, i = Len(Relative) + next + 1,
         NEW v \in Value, v.by \in {"pre", "self", "lib", "null", "post", "ifunc"},
         Write("rela", i, v, Used(v)),
         rela[i].type = "GOT" => v = find_symbol_addr(rela[i].sym) /\ v # NotFound
  PROVE  IInv'
<1>1. Used(v) \in SUBSET (1..N) /\ (v.by = "lib" => v.lib \in Used(v) \cup {Self})
  BY UsedCovers
<1>2. v # File /\ v.by # "handler"
  BY SMTT(30) DEF By, File
<1> QED
  BY <1>1, <1>2, RelaRound

\* relocate_dynrel
LEMMA DynrelStep ==
  ASSUME IInv, relocate_dynrel
  PROVE  IInv'
<1> DEFINE i == Len(Relative) + next + 1
           e == rela[i]
<1>1. pc = "dynrel" /\ next < Len(Dynrel) /\ Frame
      /\ (Handled("rela", i) \/ dynrel_default(Dynrel[next + 1], i))
  BY DEF relocate_dynrel, Frame
<1>2. Tables /\ SlotTypes /\ next \in Nat
  BY DEF IInv, SlotTypes
<1>3. Dynrel[next + 1] = e /\ i \in 1..Len(rela)
  <2>1. next + 1 \in 1..Len(Dynrel) /\ Len(Relative) \in Nat
    BY SMTT(30), <1>1, <1>2, Cut
  <2>2. Dynrel[next + 1] = rela[Len(Relative) + (next + 1)]
    BY <1>2, <2>1, Cut
  <2> QED
    BY SMTT(30), <1>2, <2>1, <2>2, Cut, Shapes
<1>4. e.type \in SymType => e.sym \in Sym
  BY <1>2, <1>3, Shapes
<1> HIDE DEF i, e
<1> HIDE DEF i, e
<1>5. CASE Handled("rela", i)
  BY <1>1, <1>5, HandledRela DEF i
<1>6. CASE Unhandled("rela", i)
  BY <1>1, <1>6, HandledRela, Stops DEF i, Unhandled
<1>7. ASSUME e.type = "GOT", find_symbol_addr(e.sym) # NotFound,
             Write("rela", i, find_symbol_addr(e.sym), Used(find_symbol_addr(e.sym)))
      PROVE  IInv'
  <2>1. find_symbol_addr(e.sym) \in Value
        /\ find_symbol_addr(e.sym).by \in {"pre", "self", "lib", "null", "post"}
    BY <1>4, <1>7, AddrValue DEF SymType
  <2> QED
    BY <1>1, <1>7, <2>1, ResolvedRela DEF i, e
<1>8. ASSUME NEW v, v = find_symdef_impl(e.sym), e.type \in {"DTPOFF", "COPY"}, v # NotFound,
             Write("rela", i, v, Used(v))
      PROVE  IInv'
  <2>1. v \in Value /\ v.by \in {"self", "lib", "null"}
    BY <1>4, <1>8, SymdefValue DEF SymType
  <2> QED
    BY <1>1, <1>8, <2>1, ResolvedRela DEF i, e
<1>9. CASE e.type = "IRELATIVE" /\ Write("rela", i, By("ifunc", 0), {})
  <2>1. By("ifunc", 0) \in Value /\ By("ifunc", 0).by = "ifunc" /\ Used(By("ifunc", 0)) = {}
    BY DEF By, Value, Used
  <2> QED
    BY <1>1, <1>9, <2>1, ResolvedRela DEF i, e
<1>10. CASE e.type = "NONE" /\ Write("rela", i, File, {})
  <2>1. File \in Value /\ File.by = "file"
    BY DEF By, Value, File
  <2> QED
    BY SMTT(30), <1>1, <1>10, <2>1, RelaRound DEF i, e
<1>11. CASE Stop("panicked")
  BY <1>1, <1>11, Stops
<1> QED
  BY <1>1, <1>3, <1>5, <1>6, <1>7, <1>8, <1>9, <1>10, <1>11 DEF dynrel_default

\* A round of relocate_pltrel that writes.
LEMMA WritePlt ==
  ASSUME IInv, pc = "pltrel", next < Len(plt), Frame,
         NEW j, j = next + 1, NEW v \in Value, NEW S \in SUBSET (1..N), Write("plt", j, v, S),
         v.by = "lib" => v.lib \in S \cup {Self},
         v.by = "handler" => v.lib \in S \cup {0},
         v.by = "stub" => lazy,
         v.by = "file" => ~lazy /\ plt[j].type = "JUMP_SLOT",
         ~lazy /\ plt[j].type = "JUMP_SLOT" /\ v.by # "handler" =>
           v = IF find_symbol_addr(plt[j].sym) # NotFound
               THEN find_symbol_addr(plt[j].sym) ELSE File
  PROVE  IInv'
<1>1. Tables /\ SlotTypes /\ next \in Nat /\ UNCHANGED file
  BY DEF IInv, SlotTypes, Frame
<1>2. j \in 1..Len(plt)
  BY SMTT(30), <1>1, Shapes
<1>3. /\ slot'.plt = [slot.plt EXCEPT ![j] = v]
      /\ slot'.rela = slot.rela /\ slot'.relr = slot.relr
      /\ SlotTypes'
  BY <1>1, <1>2, WrotePlt
<1>4. pc' = pc /\ next' = next + 1 /\ flags \subseteq flags' /\ S \subseteq flags'
  BY DEF Write
<1>5. (v.by = "lib" => v.lib \in flags' \cup {Self})
      /\ (v.by = "handler" => v.lib \in flags' \cup {0})
  BY <1>4
<1> QED
  BY <1>3, <1>4, <1>5, PltRound

\* A handler deals with an entry of DT_JMPREL or fails.
LEMMA HandledPlt ==
  ASSUME IInv, pc = "pltrel", next < Len(plt), Frame,
         NEW j, j = next + 1, Handled("plt", j)
  PROVE  IInv'
<1>1. CASE Write("plt", j, By("handler", 0), {})
  <2>1. By("handler", 0) \in Value /\ By("handler", 0).by = "handler"
        /\ By("handler", 0).lib = 0
    BY DEF By, Value
  <2> QED
    BY SMTT(30), <1>1, <2>1, WritePlt
<1>2. ASSUME NEW d \in 1..N, Write("plt", j, By("handler", d), {d}) PROVE IInv'
  <2>1. By("handler", d) \in Value /\ By("handler", d).by = "handler"
        /\ By("handler", d).lib = d
    BY DEF By, Value
  <2> QED
    BY <1>2, <2>1, WritePlt
<1>3. CASE Stop("failed")
  BY <1>3, Stops
<1> QED
  BY <1>1, <1>2, <1>3 DEF Handled

\* An unresolved jump slot keeps the contents of the file.
LEMMA SkippedPlt ==
  ASSUME IInv, pc = "pltrel", next < Len(plt), Frame, skip_jump_slot(next + 1),
         ~lazy, plt[next + 1].type = "JUMP_SLOT", find_symbol_addr(plt[next + 1].sym) = NotFound
  PROVE  IInv'
<1>1. Tables /\ SlotTypes /\ Progress /\ next \in Nat /\ UNCHANGED file
  BY DEF IInv, SlotTypes, Frame
<1>2. slot.plt \in [1..Len(plt) -> Value] /\ Len(plt) \in Nat
  BY <1>1, Shapes
<1>3. slot.plt[next + 1] = File
  BY SMTT(30), <1>1, <1>2 DEF Progress
<1>4. slot.plt = [slot.plt EXCEPT ![next + 1] = File]
  BY <1>2, <1>3
<1>5. File \in Value /\ File.by = "file"
  BY DEF File, By, Value
<1>6. pc' = pc /\ next' = next + 1 /\ slot' = slot /\ flags' = flags
  BY DEF skip_jump_slot
<1>7. SlotTypes'
  BY SMTT(30), <1>1, <1>6 DEF SlotTypes, file
<1> QED
  BY <1>4, <1>5, <1>6, <1>7, PltRound

\* relocate_pltrel
LEMMA PltrelStep ==
  ASSUME IInv, relocate_pltrel
  PROVE  IInv'
<1> DEFINE j == next + 1
           e == plt[j]
<1>1. pc = "pltrel" /\ next < Len(plt) /\ Frame
      /\ (Handled("plt", j) \/ pltrel_default(e, j))
  BY DEF relocate_pltrel, Frame
<1>2. Tables /\ SlotTypes /\ next \in Nat
  BY DEF IInv, SlotTypes
<1>3. e.type = "JUMP_SLOT" => e.sym \in Sym
  <2>1. j \in 1..Len(plt)
    BY SMTT(30), <1>1, <1>2, Shapes
  <2> QED
    BY <1>2, <2>1, Shapes
<1> HIDE DEF j, e
<1> HIDE DEF j, e
<1>4. CASE Handled("plt", j)
  BY <1>1, <1>4, HandledPlt DEF j
<1>5. CASE Unhandled("plt", j)
  BY <1>1, <1>5, HandledPlt, Stops DEF j, Unhandled
<1>6. CASE lazy /\ Write("plt", j, By("stub", 0), {})
  <2>1. By("stub", 0) \in Value /\ By("stub", 0).by = "stub"
    BY DEF By, Value
  <2> QED
    BY SMTT(30), <1>1, <1>6, <2>1, WritePlt DEF j
<1>7. ASSUME NEW v, v = find_symbol_addr(e.sym), e.type = "JUMP_SLOT", v # NotFound,
             Write("plt", j, v, Used(v))
      PROVE  IInv'
  <2>1. v \in Value /\ v.by \in {"pre", "self", "lib", "null", "post"}
    BY <1>3, <1>7, AddrValue
  <2>2. Used(v) \in SUBSET (1..N) /\ (v.by = "lib" => v.lib \in Used(v) \cup {Self})
    BY <2>1, UsedCovers
  <2> QED
    BY <1>1, <1>7, <2>1, <2>2, WritePlt DEF j, e
<1>8. CASE ~lazy /\ e.type = "JUMP_SLOT" /\ find_symbol_addr(e.sym) = NotFound /\ skip_jump_slot(j)
  BY <1>1, <1>8, SkippedPlt DEF j, e
<1>9. CASE e.type = "IRELATIVE" /\ Write("plt", j, By("ifunc", 0), {})
  <2>1. By("ifunc", 0) \in Value /\ By("ifunc", 0).by = "ifunc"
    BY DEF By, Value
  <2> QED
    BY SMTT(30), <1>1, <1>9, <2>1, WritePlt DEF j, e
<1> QED
  BY <1>1, <1>4, <1>5, <1>6, <1>7, <1>8, <1>9 DEF pltrel_default, jump_slot_addr

-----------------------------------------------------------------------------
(* The other steps *)

\* The early return and relocate_relative
LEMMA StartStep ==
  ASSUME IInv, Start
  PROVE  IInv'
<1>1. Tables /\ SlotTypes /\ Progress /\ SlotsFlagged /\ DepsCollected /\ LazyOnly /\ FixAgrees
  BY DEF IInv
<1>2. UNCHANGED <<file, next, flags, got, lazyScope, relro, isInit, deps, fix>> /\ pc = "start"
  BY DEF Start
<1>3. /\ Tables' /\ rela' = rela /\ plt' = plt /\ lazy' = lazy /\ relr' = relr
      /\ Len(Relative)' = Len(Relative) /\ Len(Dynrel)' = Len(Dynrel)
  BY <1>1, <1>2, SameFile
<1>4. next = 0 /\ ~isInit /\ ~Ran /\ ~relro
  BY <1>1, <1>2 DEF Progress, Ran, LazyOnly
<1>5. pc' \in {"dynrel", "done"} /\ ~Ran'
  BY SMTT(30), <1>2, <1>4 DEF Start, Ran
<1>6. FixAgrees'
  BY <1>1, <1>2, <1>4 DEF FixAgrees
<1>7. DepsCollected'
  BY <1>2, <1>4 DEF DepsCollected
<1>8. CASE is_empty /\ pc' = "done" /\ UNCHANGED slot
  <2>1. SlotTypes'
    BY <1>1, <1>2, <1>3, <1>8 DEF SlotTypes
  <2>2. plt = <<>>
    BY <1>8 DEF is_empty
  <2>3. Progress'
    BY <1>1, <1>2, <1>3, <1>4, <1>5, <1>8, <2>2 DEF Progress
  <2>4. SlotsFlagged' /\ LazyOnly'
    BY <1>1, <1>2, <1>3, <1>4, <1>5, <1>8 DEF SlotsFlagged, Flagged, LazyOnly
  <2> QED
    BY <1>3, <1>6, <1>7, <2>1, <2>3, <2>4 DEF IInv
<1>9. CASE /\ pc' = "dynrel"
           /\ slot' = [rela |-> [i \in DOMAIN slot.rela |-> IF i <= Len(Relative)
                                                            THEN By("base", 0) ELSE File],
                       relr |-> [w \in relr |-> By("base", 0)], plt |-> slot.plt]
  <2>1. /\ slot.rela \in [1..Len(rela) -> Value] /\ slot.plt \in [1..Len(plt) -> Value]
        /\ Len(Relative) \in Nat /\ Len(Dynrel) \in Nat
        /\ Len(Relative) + Len(Dynrel) <= Len(rela) /\ Len(rela) \in Nat
        /\ Len(Relative) <= count /\ count \in Nat
    BY SMTT(30), <1>1, Shapes, Cut DEF Tables
  <2>2. By("base", 0) \in Value /\ File \in Value /\ By("base", 0) # File
        /\ By("base", 0).by = "base" /\ File.by = "file"
    BY DEF By, File, Value
  <2>3. slot'.plt = slot.plt
        /\ (\A i \in 1..Len(rela) : slot'.rela[i] = IF i <= Len(Relative) THEN By("base", 0)
                                                                          ELSE File)
        /\ (\A w \in relr : slot'.relr[w] = By("base", 0))
    BY <1>9, <2>1
  <2>4. SlotTypes'
    BY <1>1, <1>2, <1>3, <1>9, <2>1, <2>2 DEF SlotTypes
  <2>5. \A i \in 1..Len(Relative) : RelaDone(i)'
    <3> SUFFICES ASSUME NEW i \in 1..Len(Relative) PROVE RelaDone(i)'
      OBVIOUS
    <3>1. i \in 1..Len(rela) /\ slot'.rela[i] # File
      BY SMTT(30), <2>1, <2>2, <2>3
    <3>2. rela[i].type # "GOT"
      BY SMTT(30), <1>1, <2>1, <3>1 DEF Tables
    <3> QED
      BY <1>3, <3>1, <3>2 DEF RelaDone
  <2>6. Progress'
    BY SMTT(30), <1>1, <1>2, <1>3, <1>5, <1>9, <2>2, <2>5 DEF Progress
  <2>7. SlotsFlagged' /\ LazyOnly'
    BY <1>1, <1>2, <1>3, <1>4, <1>5, <2>2, <2>3 DEF SlotsFlagged, Flagged, LazyOnly
  <2> QED
    BY <1>3, <1>6, <1>7, <2>4, <2>6, <2>7 DEF IInv
<1> QED
  BY <1>8, <1>9 DEF Start

\* The end of relocate_dynrel
LEMMA DynrelDoneStep ==
  ASSUME IInv, DynrelDone
  PROVE  IInv'
<1>1. Tables /\ SlotTypes /\ Progress /\ SlotsFlagged /\ DepsCollected /\ LazyOnly /\ FixAgrees
  BY DEF IInv
<1>2. /\ UNCHANGED <<file, slot, flags, got, lazyScope, relro, isInit, deps, fix>>
      /\ pc = "dynrel" /\ pc' = "pltrel" /\ next = Len(Dynrel) /\ next' = 0
  BY DEF DynrelDone
<1>3. /\ Tables' /\ rela' = rela /\ plt' = plt /\ lazy' = lazy /\ relr' = relr
      /\ Len(Relative)' = Len(Relative) /\ Len(Dynrel)' = Len(Dynrel)
      /\ Len(plt) \in Nat
  BY <1>1, <1>2, SameFile, Shapes
<1>4. ~isInit /\ ~Ran /\ ~Ran' /\ ~relro
  BY <1>1, <1>2 DEF Progress, Ran, LazyOnly
<1>5. SlotTypes'
  BY <1>1, <1>2, <1>3 DEF SlotTypes
<1>6. Progress'
  <2>1. \A i \in 1..(Len(Relative) + Len(Dynrel)) : RelaDone(i)'
    BY <1>1, <1>2, <1>3 DEF Progress, RelaDone
  <2> QED
    BY SMTT(30), <1>1, <1>2, <1>3, <1>4, <2>1 DEF Progress
<1>7. SlotsFlagged' /\ DepsCollected' /\ LazyOnly'
  BY <1>1, <1>2, <1>3, <1>4 DEF SlotsFlagged, Flagged, DepsCollected, LazyOnly
<1>8. FixAgrees'
  BY <1>1, <1>2, <1>4 DEF FixAgrees
<1> QED
  BY <1>3, <1>5, <1>6, <1>7, <1>8 DEF IInv

\* The end of relocate_pltrel
LEMMA PltrelDoneStep ==
  ASSUME IInv, PltrelDone
  PROVE  IInv'
<1>1. Tables /\ SlotTypes /\ Progress /\ SlotsFlagged /\ DepsCollected /\ LazyOnly /\ FixAgrees
  BY DEF IInv
<1>2. /\ UNCHANGED <<file, next, slot, flags, isInit, deps, fix>>
      /\ pc = "pltrel" /\ next = Len(plt) /\ pc' \in {"finish", "failed"}
  BY DEF PltrelDone
<1>3. /\ Tables' /\ rela' = rela /\ plt' = plt /\ lazy' = lazy /\ relr' = relr
      /\ Len(Relative)' = Len(Relative) /\ Len(Dynrel)' = Len(Dynrel)
  BY <1>1, <1>2, SameFile
<1>4. ~isInit /\ ~Ran /\ ~relro
  BY <1>1, <1>2 DEF Progress, Ran, LazyOnly
<1>5. SlotTypes'
  BY <1>1, <1>2, <1>3 DEF SlotTypes
<1>6. Progress'
  <2>1. \A i \in 1..(Len(Relative) + Len(Dynrel)) : RelaDone(i)'
    BY <1>1, <1>2, <1>3 DEF Progress, RelaDone
  <2>2. \A j \in 1..Len(plt) : PltDone(j)'
    BY <1>1, <1>2, <1>3 DEF Progress, PltDone
  <2> QED
    BY <1>1, <1>2, <1>3, <1>4, <2>1, <2>2 DEF Progress
<1>7. LazyOnly'
  BY SMTT(30), <1>1, <1>2, <1>3, <1>4 DEF LazyOnly, PltrelDone, protect, Ran
<1>8. SlotsFlagged' /\ DepsCollected'
  BY <1>1, <1>2, <1>3, <1>4 DEF SlotsFlagged, Flagged, DepsCollected
<1>9. FixAgrees'
  BY <1>1, <1>2, <1>4 DEF FixAgrees
<1> QED
  BY <1>3, <1>5, <1>6, <1>7, <1>8, <1>9 DEF IInv

\* Once past relocate_pltrel, the slots stay applied as long as they are left
\* alone.
LEMMA StaysRelocated ==
  ASSUME IInv, Ran, Ran', UNCHANGED <<file, next, slot, flags>>,
         got' = got, lazyScope' = lazyScope, relro' = relro,
         isInit', pc' \in {"init", "done", "aborted"}
  PROVE  Tables' /\ SlotTypes' /\ Progress' /\ SlotsFlagged' /\ LazyOnly'
<1>1. Tables /\ SlotTypes /\ Progress /\ SlotsFlagged /\ LazyOnly
  BY DEF IInv
<1>2. /\ Tables' /\ rela' = rela /\ plt' = plt /\ lazy' = lazy /\ relr' = relr
      /\ Len(Relative)' = Len(Relative) /\ Len(Dynrel)' = Len(Dynrel)
  BY <1>1, SameFile
<1>3. SlotTypes'
  BY <1>1, <1>2 DEF SlotTypes
<1>4. Progress'
  <2>1. \A i \in 1..(Len(Relative) + Len(Dynrel)) : RelaDone(i)'
    BY <1>1, <1>2 DEF Progress, RelaDone
  <2>2. \A j \in 1..Len(plt) : PltDone(j)'
    BY <1>1, <1>2 DEF Progress, PltDone
  <2> QED
    BY <1>1, <1>2, <2>1, <2>2 DEF Progress
<1>5. SlotsFlagged' /\ LazyOnly'
  BY <1>1, <1>2 DEF SlotsFlagged, Flagged, LazyOnly
<1> QED
  BY <1>2, <1>3, <1>4, <1>5

\* finish
LEMMA FinishStep ==
  ASSUME IInv, finish
  PROVE  IInv'
<1>1. Ran /\ Ran' /\ isInit' /\ pc' = "init"
  BY DEF finish, Ran
<1>2. Tables' /\ SlotTypes' /\ Progress' /\ SlotsFlagged' /\ LazyOnly'
  BY <1>1, StaysRelocated DEF finish
<1>3. DepsCollected'
  BY <1>1 DEF DepsCollected
<1>4. FixAgrees'
  BY SMTT(30), <1>1, SameFile DEF IInv, FixAgrees, finish
<1> QED
  BY <1>2, <1>3, <1>4 DEF IInv

\* Collect
LEMMA CollectStep ==
  ASSUME IInv, Collect
  PROVE  IInv'
<1>1. isInit
  BY DEF IInv, Progress, Collect
<1>2. Ran /\ Ran' /\ isInit' /\ pc' = "done"
  BY <1>1 DEF Collect, Ran
<1>3. Tables' /\ SlotTypes' /\ Progress' /\ SlotsFlagged' /\ LazyOnly'
  BY <1>2, StaysRelocated DEF Collect
<1>4. DepsCollected'
  BY <1>2 DEF DepsCollected, Collect
<1>5. FixAgrees'
  BY SMTT(30), <1>2, SameFile DEF IInv, FixAgrees, Collect
<1> QED
  BY <1>3, <1>4, <1>5 DEF IInv

\* dl_fixup
LEMMA FixupStep ==
  ASSUME IInv, NEW t \in Thread, NEW j \in DOMAIN plt, dl_fixup(t, j)
  PROVE  IInv'
<1>1. Tables /\ SlotTypes /\ Progress /\ SlotsFlagged /\ DepsCollected /\ LazyOnly /\ FixAgrees
  BY DEF IInv
<1>2. UNCHANGED <<file, next, slot, flags, got, lazyScope, relro, isInit, deps>>
      /\ pc \in {"init", "done"} /\ pc' \in {pc, "aborted"}
      /\ plt[j].type = "JUMP_SLOT" /\ slot.plt[j].by = "stub"
  BY DEF dl_fixup
<1>3. j \in 1..Len(plt) /\ Len(plt) \in Nat /\ slot.plt \in [1..Len(plt) -> Value]
      /\ plt[j].sym \in Sym
  BY <1>1, <1>2, Shapes
<1>4. isInit
  <2>1. plt # <<>>
    BY SMTT(30), <1>3
  <2> QED
    BY <1>1, <1>2, <2>1 DEF Progress
<1>5. Ran /\ Ran' /\ isInit'
  BY <1>2, <1>4 DEF Ran
<1>6. Tables' /\ SlotTypes' /\ Progress' /\ SlotsFlagged' /\ LazyOnly'
  BY <1>2, <1>5, StaysRelocated
<1>7. DepsCollected'
  BY <1>1, <1>2, <1>4 DEF DepsCollected
<1>8. /\ plt' = plt /\ lazy' = lazy /\ \A s : LazyScope_lookup(s)' = LazyScope_lookup(s)
  BY <1>2, SameFile
<1>9. FixAgrees'
  <2> DEFINE v == LazyScope_lookup(plt[j].sym)
  <2>1. CASE UNCHANGED fix
    BY <1>1, <1>2, <1>5, <1>8, <2>1 DEF FixAgrees
  <2>2. CASE v # NotFound /\ fix' = [fix EXCEPT ![t] = [i |-> j, value |-> v]]
    <3>1. v \in Value /\ v.by \in {"lib", "custom"} /\ (v.by = "lib" => v.lib \in Needed)
      BY <1>3, <2>2, LazyValue
    <3>2. slot.plt[j] = By("stub", 0) /\ lazy
      <4>1. \A w \in Value : w.by = "stub" => w = By("stub", 0)
        BY SMTT(30) DEF Value, By
      <4> QED
        BY <1>1, <1>2, <1>3, <4>1 DEF LazyOnly
    <3> HIDE DEF v
    <3>3. fix' \in [Thread -> [i : Nat, value : Value \cup {NotFound}]]
      BY SMTT(30), <1>1, <1>3, <2>2, <3>1 DEF FixAgrees
    <3>4. ASSUME NEW u \in Thread, u # t PROVE fix'[u] = fix[u]
      BY <1>1, <2>2, <3>4 DEF FixAgrees
    <3>5. fix'[t].i = j /\ fix'[t].value = v
      BY <1>1, <2>2 DEF FixAgrees
    <3>6. \A u \in Thread : fix'[u] # Idle =>
            /\ lazy /\ Ran' /\ fix'[u].i \in 1..Len(plt)
            /\ fix'[u].value = LazyScope_lookup(plt[fix'[u].i].sym)
            /\ fix'[u].value \in Value
            /\ fix'[u].value.by = "lib" => fix'[u].value.lib \in Needed
            /\ fix'[u].value.by \in {"lib", "custom"}
            /\ slot.plt[fix'[u].i] \in {By("stub", 0), fix'[u].value}
      <4> SUFFICES ASSUME NEW u \in Thread, fix'[u] # Idle
                   PROVE  /\ lazy /\ Ran' /\ fix'[u].i \in 1..Len(plt)
                          /\ fix'[u].value = LazyScope_lookup(plt[fix'[u].i].sym)
                          /\ fix'[u].value \in Value
                          /\ fix'[u].value.by = "lib" => fix'[u].value.lib \in Needed
                          /\ fix'[u].value.by \in {"lib", "custom"}
                          /\ slot.plt[fix'[u].i] \in {By("stub", 0), fix'[u].value}
        OBVIOUS
      <4>1. CASE u = t
        BY <1>3, <1>5, <3>1, <3>2, <3>5, <4>1 DEF v
      <4>2. CASE u # t
        BY <1>1, <1>5, <3>4, <4>2 DEF FixAgrees
      <4> QED
        BY <4>1, <4>2
    <3> QED
      BY <1>2, <1>5, <1>8, <3>3, <3>6 DEF FixAgrees
  <2> QED
    BY <2>1, <2>2 DEF dl_fixup
<1> QED
  BY <1>6, <1>7, <1>9 DEF IInv

\* The end of dl_fixup: all that changes in the slots is that of thread t.
LEMMA FixupWrote ==
  ASSUME Tables, SlotTypes, FixAgrees, NEW t \in Thread, FixupWrite(t)
  PROVE  /\ fix[t].i \in 1..Len(plt) /\ fix[t].value \in Value
         /\ fix[t].value = LazyScope_lookup(plt[fix[t].i].sym)
         /\ slot.plt[fix[t].i] \in {By("stub", 0), fix[t].value}
         /\ lazy /\ Ran
         /\ slot'.rela = slot.rela /\ slot'.relr = slot.relr
         /\ slot'.plt = [slot.plt EXCEPT ![fix[t].i] = fix[t].value]
         /\ \A k \in 1..Len(plt) : slot'.plt[k] = IF k = fix[t].i THEN fix[t].value ELSE slot.plt[k]
         /\ SlotTypes'
<1>1. /\ fix[t].i \in 1..Len(plt) /\ fix[t].value \in Value /\ lazy /\ Ran
      /\ fix[t].value = LazyScope_lookup(plt[fix[t].i].sym)
      /\ slot.plt[fix[t].i] \in {By("stub", 0), fix[t].value}
  BY DEF FixAgrees, FixupWrite
<1>2. slot = [rela |-> slot.rela, plt |-> slot.plt, relr |-> slot.relr]
      /\ slot.rela \in [1..Len(rela) -> Value] /\ slot.plt \in [1..Len(plt) -> Value]
      /\ slot.relr \in [relr -> Value]
  BY DEF SlotTypes
<1>3. slot' = [rela |-> slot.rela, plt |-> [slot.plt EXCEPT ![fix[t].i] = fix[t].value],
               relr |-> slot.relr]
  BY <1>2 DEF FixupWrite
<1>4. [slot.plt EXCEPT ![fix[t].i] = fix[t].value] \in [1..Len(plt) -> Value]
  BY <1>1, <1>2
<1>5. SlotTypes'
  BY <1>2, <1>3, <1>4 DEF SlotTypes, FixupWrite, file
<1> QED
  BY <1>1, <1>2, <1>3, <1>5

\* FixupWrite
LEMMA FixupWriteStep ==
  ASSUME IInv, NEW t \in Thread, FixupWrite(t)
  PROVE  IInv'
<1>1. Tables /\ SlotTypes /\ Progress /\ SlotsFlagged /\ DepsCollected /\ LazyOnly /\ FixAgrees
  BY DEF IInv
<1>2. UNCHANGED <<file, pc, next, flags, got, lazyScope, relro, isInit, deps>>
      /\ fix' = [fix EXCEPT ![t] = Idle]
  BY DEF FixupWrite
<1> DEFINE f == fix[t].i
           v == fix[t].value
<1>3. /\ f \in 1..Len(plt) /\ v \in Value /\ lazy /\ Ran
      /\ v = LazyScope_lookup(plt[f].sym)
      /\ slot'.rela = slot.rela /\ slot'.relr = slot.relr
      /\ \A k \in 1..Len(plt) : slot'.plt[k] = IF k = f THEN v ELSE slot.plt[k]
      /\ SlotTypes'
  BY <1>1, FixupWrote
<1>4. v.by \in {"lib", "custom"} /\ (v.by = "lib" => v.lib \in Needed)
  BY <1>1 DEF FixAgrees, FixupWrite
<1> HIDE DEF f, v
<1> HIDE DEF f, v
<1>5. /\ Tables' /\ rela' = rela /\ plt' = plt /\ lazy' = lazy /\ relr' = relr
      /\ Len(Relative)' = Len(Relative) /\ Len(Dynrel)' = Len(Dynrel)
      /\ \A s : LazyScope_lookup(s)' = LazyScope_lookup(s)
  BY <1>1, <1>2, SameFile
<1>6. Ran' /\ pc \notin {"start", "dynrel", "pltrel"} /\ (pc = "done" => isInit)
  BY <1>2, <1>3 DEF Ran
<1>7. Progress'
  <2>1. \A i \in 1..(Len(Relative) + Len(Dynrel)) : RelaDone(i)'
    BY <1>1, <1>3, <1>5 DEF Progress, RelaDone
  <2>2. \A j \in 1..Len(plt) : PltDone(j)'
    <3> SUFFICES ASSUME NEW k \in 1..Len(plt) PROVE PltDone(k)'
      BY <1>5
    <3>1. PltDone(k)
      BY <1>1, <1>3 DEF Progress
    <3>2. v # File
      BY SMTT(30), <1>4 DEF File, By
    <3> QED
      BY <1>3, <1>5, <3>1, <3>2 DEF PltDone
  <2> QED
    BY <1>1, <1>2, <1>3, <1>5, <1>6, <2>1, <2>2 DEF Progress
<1>8. SlotsFlagged'
  BY <1>1, <1>2, <1>3, <1>4, <1>5 DEF SlotsFlagged, Flagged
<1>9. DepsCollected'
  BY <1>1, <1>2 DEF DepsCollected
<1>10. LazyOnly'
  BY <1>1, <1>2, <1>3, <1>5, <1>6 DEF LazyOnly
<1>11. FixAgrees'
  <2>1. fix' \in [Thread -> [i : Nat, value : Value \cup {NotFound}]]
    BY <1>1, <1>2 DEF FixAgrees, Idle
  <2>2. fix'[t] = Idle /\ \A u \in Thread : u # t => fix'[u] = fix[u]
    BY <1>1, <1>2 DEF FixAgrees
  <2>3. ASSUME NEW u \in Thread, fix'[u] # Idle
        PROVE  /\ lazy /\ Ran' /\ fix'[u].i \in 1..Len(plt)
               /\ fix'[u].value = LazyScope_lookup(plt[fix'[u].i].sym)
               /\ fix'[u].value \in Value
               /\ fix'[u].value.by = "lib" => fix'[u].value.lib \in Needed
               /\ fix'[u].value.by \in {"lib", "custom"}
               /\ slot'.plt[fix'[u].i] \in {By("stub", 0), fix'[u].value}
    BY SMTT(30), <1>1, <1>3, <1>6, <2>2, <2>3 DEF FixAgrees
  <2> QED
    BY <1>5, <2>1, <2>3 DEF FixAgrees
<1> QED
  BY <1>3, <1>5, <1>7, <1>8, <1>9, <1>10, <1>11 DEF IInv

-----------------------------------------------------------------------------
(* The invariant holds, and what follows from it *)

\* The tables of the files a static linker writes.
LEMMA InitTables ==
  ASSUME count \in 0..MaxRela, Files
  PROVE  Tables
<1>1. PICK m \in 0..MaxPlt : plt \in [1..m -> PltEntry]
  BY DEF Files
<1> PICK n \in count..MaxRela : \E own \in [1..n -> Entry] :
        /\ \A i \in 1..n : own[i].type = "RELATIVE" <=> i <= count
        /\ rela = IF joined THEN own \o plt ELSE own
  BY DEF Files
<1>2. PICK own \in [1..n -> Entry] :
        /\ \A i \in 1..n : own[i].type = "RELATIVE" <=> i <= count
        /\ rela = IF joined THEN own \o plt ELSE own
  OBVIOUS
<1>3. n \in Nat /\ m \in Nat /\ count \in Nat /\ count <= n
  BY SMTT(30), ConstantsAssumption
<1>4. plt \in Seq(PltEntry) /\ Len(plt) = m
  BY SMTT(30), <1>1, <1>3, IsASeq
<1>5. own \in Seq(Entry) /\ Len(own) = n
  BY SMTT(30), <1>2, <1>3, IsASeq
<1>6. \A i \in 1..n : own[i].type = "GOT" => count < i
  BY SMTT(30), <1>2, <1>3
<1>7. \A e \in PltEntry : e.type # "GOT"
  BY DEF PltEntry
<1>8. joined \in BOOLEAN /\ lazy \in BOOLEAN /\ custom \in BOOLEAN
  BY DEF Files
<1>9. CASE joined
  <2>1. /\ rela \in Seq(Entry \cup PltEntry) /\ Len(rela) = n + m
        /\ \A i \in 1..(n + m) : rela[i] = IF i <= n THEN own[i] ELSE plt[i - n]
    <3>1. own \in Seq(Entry \cup PltEntry) /\ plt \in Seq(Entry \cup PltEntry)
      BY <1>4, <1>5, SeqMonotonic
    <3>2. rela = own \o plt
      BY <1>2, <1>9
    <3>3. /\ own \o plt \in Seq(Entry \cup PltEntry) /\ Len(own \o plt) = Len(own) + Len(plt)
          /\ \A i \in 1..Len(own) + Len(plt) :
               (own \o plt)[i] = IF i <= Len(own) THEN own[i] ELSE plt[i - Len(own)]
      BY <3>1, ConcatProperties
    <3> QED
      BY <1>4, <1>5, <3>2, <3>3
  <2>2. \A i \in 1..(n + m) : rela[i].type = "GOT" => i <= n
    BY SMTT(30), <1>1, <1>7, <2>1
  <2> QED
    BY SMTT(30), <1>4, <1>8, <2>2 DEF Tables, TailLen
<1>10. CASE ~joined
  <2>1. rela = own /\ own \in Seq(Entry \cup PltEntry)
    BY <1>2, <1>5, <1>10, SeqMonotonic
  <2> QED
    BY SMTT(30), <1>4, <1>8, <1>10 DEF Tables, TailLen
<1> QED
  BY <1>8, <1>9, <1>10

\* A file that has just been loaded satisfies the invariant.
LEMMA InitInv ==
  ASSUME Init
  PROVE  IInv
<1>1. Tables
  BY InitTables DEF Init
<1>2. /\ pc = "start" /\ next = 0 /\ flags = {} /\ isInit = FALSE /\ relro = FALSE
      /\ slot = [rela |-> [i \in 1..Len(rela) |-> File], plt |-> [i \in 1..Len(plt) |-> File],
                 relr |-> [w \in relr |-> File]]
      /\ fix = [t \in Thread |-> Idle]
  BY DEF Init
<1>3. File \in Value /\ File.by = "file"
  BY DEF File, By, Value
<1>4. SlotTypes
  BY <1>2, <1>3 DEF SlotTypes
<1>5. Progress
  BY <1>2 DEF Progress, Ran
<1>6. SlotsFlagged /\ DepsCollected /\ LazyOnly
  BY <1>2, <1>3 DEF SlotsFlagged, Flagged, DepsCollected, LazyOnly, Ran
<1>7. FixAgrees
  BY <1>2 DEF FixAgrees, Idle
<1> QED
  BY <1>1, <1>4, <1>5, <1>6, <1>7 DEF IInv

\* Every step of relocate_impl and dl_fixup keeps it.
LEMMA NextInv ==
  ASSUME IInv, [Next]_vars
  PROVE  IInv'
<1>1. CASE relocate_impl
  BY <1>1, StartStep, DynrelStep, DynrelDoneStep, PltrelStep, PltrelDoneStep, FinishStep,
     CollectStep
     DEF relocate_impl
<1>2. ASSUME NEW t \in Thread, FixupWrite(t) PROVE IInv'
  BY <1>2, FixupWriteStep
<1>3. ASSUME NEW t \in Thread, NEW i \in DOMAIN plt, dl_fixup(t, i) PROVE IInv'
  BY <1>3, FixupStep
<1>4. CASE UNCHANGED vars
  <2>1. UNCHANGED <<file, pc, next, slot, flags, got, lazyScope, relro, isInit, deps, fix>>
    BY <1>4 DEF vars
  <2>2. /\ Tables' /\ rela' = rela /\ plt' = plt /\ lazy' = lazy /\ relr' = relr
        /\ Len(Relative)' = Len(Relative) /\ Len(Dynrel)' = Len(Dynrel)
        /\ \A s : LazyScope_lookup(s)' = LazyScope_lookup(s)
    BY <2>1, SameFile DEF IInv
  <2>3. SlotTypes' /\ SlotsFlagged' /\ DepsCollected' /\ LazyOnly'
    BY <2>1, <2>2 DEF IInv, SlotTypes, SlotsFlagged, Flagged, DepsCollected, LazyOnly, Ran
  <2>4. Progress'
    BY <2>1, <2>2 DEF IInv, Progress, Ran, RelaDone, PltDone
  <2>5. FixAgrees'
    BY <2>1, <2>2 DEF IInv, FixAgrees, Ran
  <2> QED
    BY <2>2, <2>3, <2>4, <2>5 DEF IInv
<1> QED
  BY <1>1, <1>2, <1>3, <1>4 DEF Next

\* In every state of relocate_impl and dl_fixup, the inductive invariant
\* holds: the entries processed so far have been applied, what was used has
\* been flagged, and the threads in dl_fixup agree.
THEOREM InvHolds == Spec => []IInv
BY InitInv, NextInv, PTL DEF Spec

\* Every library that provided an address, to the relocator, a handler or
\* dl_fixup, is among the dependencies the LoadedCore keeps.
THEOREM DependenciesCover == Spec => []DepsCover
<1>1. IInv => DepsCover
  <2> SUFFICES ASSUME IInv, pc = "done", NEW v \in Range(slot.rela) \cup Range(slot.plt)
               PROVE  /\ v.by = "lib" => v.lib \in deps \cup {Self}
                      /\ v.by = "handler" => v.lib \in deps \cup {0}
    BY DEF DepsCover
  <2>1. Tables /\ SlotTypes /\ Progress /\ SlotsFlagged /\ DepsCollected
    BY DEF IInv
  <2>2. DOMAIN slot.rela = 1..Len(rela) /\ DOMAIN slot.plt = 1..Len(plt)
    BY <2>1, Shapes
  <2>3. Flagged(v)
    BY <2>1, <2>2 DEF SlotsFlagged, Range
  <2>4. CASE isInit
    BY <2>1, <2>3, <2>4 DEF DepsCollected, Flagged
  <2>5. CASE ~isInit
    <3>1. plt = <<>> /\ \A i \in 1..Len(rela) : slot.rela[i] = File
      BY <2>1, <2>5 DEF Progress
    <3>2. v = File
      BY SMTT(30), <2>2, <3>1 DEF Range
    <3> QED
      BY <3>2 DEF File, By
  <2> QED
    BY <2>4, <2>5
<1> QED
  BY <1>1, InvHolds, PTL

\* A function has the same address through the GOT and through the PLT of an
\* image relocated eagerly.
THEOREM FunctionIsOne == Spec => []SameFunction
<1>1. IInv => SameFunction
  <2> SUFFICES ASSUME IInv, pc = "done", ~lazy, NEW i \in DOMAIN rela, NEW j \in DOMAIN plt,
                      rela[i].type = "GOT", plt[j].type = "JUMP_SLOT", rela[i].sym = plt[j].sym,
                      slot.rela[i].by # "handler", slot.plt[j].by # "handler"
               PROVE  slot.rela[i] = slot.plt[j]
    BY DEF SameFunction
  <2>1. Tables /\ SlotTypes /\ Progress
    BY DEF IInv
  <2>2. i \in 1..Len(rela) /\ j \in 1..Len(plt) /\ Len(rela) \in Nat /\ Len(plt) \in Nat
    BY <2>1, Shapes
  <2>3. Ran
    <3>1. plt # <<>>
      BY SMTT(30), <2>2
    <3> QED
      BY <2>1, <3>1 DEF Progress, Ran
  <2>4. i \in 1..(Len(Relative) + Len(Dynrel))
    <3>1. count < i /\ i <= Len(rela) - TailLen /\ count \in Nat /\ TailLen \in Nat
      BY <2>1, <2>2 DEF Tables, TailLen
    <3> QED
      BY SMTT(30), <2>1, <2>2, <3>1, Cut
  <2>5. RelaDone(i) /\ PltDone(j)
    BY <2>1, <2>2, <2>3, <2>4 DEF Progress
  <2> QED
    BY <2>5 DEF RelaDone, PltDone
<1> QED
  BY <1>1, InvHolds, PTL

\* The initialisers find every entry applied but the eager jump slots that
\* relocate_pltrel skips because no lookup finds their symbol, and the lazy
\* binding ready behind each jump slot that is still a stub.
THEOREM InitialisersRunRelocated == Spec => []InitSeesRelocated
<1>1. IInv => InitSeesRelocated
  <2> SUFFICES ASSUME IInv, isInit PROVE InitSeesRelocated
    BY DEF InitSeesRelocated
  <2>1. Tables /\ SlotTypes /\ Progress /\ LazyOnly
    BY DEF IInv
  <2>2. Ran
    BY <2>1 DEF Progress, Ran
  <2>3. \A w \in relr : slot.relr[w].by = "base"
    BY <2>1, <2>2 DEF Progress
  <2>4. \A i \in 1..(Len(Relative) + Len(Dynrel)) : rela[i].type = "NONE" \/ slot.rela[i] # File
    BY <2>1, <2>2 DEF Progress, RelaDone
  <2>5. ASSUME NEW j \in DOMAIN plt
        PROVE  /\ slot.plt[j].by = "stub" => got /\ lazyScope
               /\ slot.plt[j] = File =>
                    ~lazy /\ plt[j].type = "JUMP_SLOT" /\ find_symbol_addr(plt[j].sym) = NotFound
    <3>1. j \in 1..Len(plt) /\ plt # <<>>
      BY SMTT(30), <2>1, Shapes
    <3>2. slot.plt[j].by = "stub" => got /\ lazyScope
      BY <2>1, <2>2, <3>1 DEF LazyOnly
    <3>3. PltDone(j)
      BY <2>1, <2>2, <3>1 DEF Progress
    <3>4. ASSUME slot.plt[j] = File
          PROVE  ~lazy /\ plt[j].type = "JUMP_SLOT" /\ find_symbol_addr(plt[j].sym) = NotFound
      <4>1. ~lazy /\ plt[j].type = "JUMP_SLOT" /\ File.by = "file"
        BY <3>3, <3>4 DEF PltDone, File, By
      <4>2. plt[j].sym \in Sym
        BY <2>1, <3>1, <4>1, Shapes
      <4>3. ASSUME find_symbol_addr(plt[j].sym) # NotFound PROVE FALSE
        <5>1. find_symbol_addr(plt[j].sym) = File
          BY <3>3, <3>4, <4>1, <4>3 DEF PltDone
        <5>2. find_symbol_addr(plt[j].sym).by \in {"pre", "self", "lib", "null", "post"}
          BY <4>2, <4>3, AddrValue
        <5> QED
          BY <4>1, <5>1, <5>2
      <4> QED
        BY <4>1, <4>3
    <3> QED
      BY <3>2, <3>4
  <2> QED
    BY <2>3, <2>4, <2>5 DEF InitSeesRelocated
<1> QED
  BY <1>1, InvHolds, PTL

\* No step writes a slot of an image whose RELRO pages are read-only.
THEOREM RelroIsReadOnly == Spec => ReadOnlyAfterRelro
<1>1. IInv /\ [Next]_vars => [relro => UNCHANGED slot]_vars
  <2> SUFFICES ASSUME IInv, Next, relro PROVE UNCHANGED slot
    OBVIOUS
  <2>1. ~lazy /\ pc \in {"finish", "init", "done", "aborted"} /\ Tables /\ SlotTypes /\ FixAgrees
    BY DEF IInv, LazyOnly
  <2>2. CASE relocate_impl
    BY <2>1, <2>2
       DEF relocate_impl, Start, relocate_dynrel, DynrelDone, relocate_pltrel, PltrelDone,
           finish, Collect
  <2>3. ASSUME NEW t \in Thread, FixupWrite(t) PROVE UNCHANGED slot
    BY <2>1, <2>3, FixupWrote
  <2>4. ASSUME NEW t \in Thread, NEW i \in DOMAIN plt, dl_fixup(t, i) PROVE UNCHANGED slot
    BY <2>4 DEF dl_fixup
  <2> QED
    BY <2>2, <2>3, <2>4 DEF Next
<1> QED
  BY <1>1, InvHolds, PTL DEF Spec, ReadOnlyAfterRelro

\* A jump slot keeps the address it was bound to, however many threads run
\* dl_fixup for it.
THEOREM BindsOnce == Spec => BoundOnce
<1>1. IInv /\ [Next]_vars =>
        [\A i \in DOMAIN plt :
           pc \in {"init", "done"} /\ slot.plt[i].by \notin {"file", "stub"}
             => slot.plt[i] = slot'.plt[i]]_vars
  <2> SUFFICES ASSUME IInv, Next, NEW i \in DOMAIN plt, pc \in {"init", "done"},
                      slot.plt[i].by \notin {"file", "stub"}
               PROVE  slot.plt[i] = slot'.plt[i]
    OBVIOUS
  <2>1. Tables /\ SlotTypes /\ FixAgrees
    BY DEF IInv
  <2>2. CASE relocate_impl
    BY <2>2
       DEF relocate_impl, Start, relocate_dynrel, DynrelDone, relocate_pltrel, PltrelDone,
           finish, Collect
  <2>3. ASSUME NEW t \in Thread, FixupWrite(t) PROVE slot.plt[i] = slot'.plt[i]
    <3>1. i \in 1..Len(plt)
      BY <2>1, Shapes
    <3>2. /\ slot'.plt[i] = IF i = fix[t].i THEN fix[t].value ELSE slot.plt[i]
          /\ slot.plt[fix[t].i] \in {By("stub", 0), fix[t].value}
      BY <2>1, <2>3, <3>1, FixupWrote
    <3> QED
      BY SMTT(30), <3>2 DEF By
  <2>4. ASSUME NEW t \in Thread, NEW j \in DOMAIN plt, dl_fixup(t, j)
        PROVE  slot.plt[i] = slot'.plt[i]
    BY <2>4 DEF dl_fixup
  <2> QED
    BY <2>2, <2>3, <2>4 DEF Next
<1> QED
  BY <1>1, InvHolds, PTL DEF Spec, BoundOnce

=============================================================================
