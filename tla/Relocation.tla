----------------------------- MODULE Relocation -----------------------------
(***************************************************************************)
(* Relocation of one dynamic image: DynamicRelocation::new splits the      *)
(* tables of the file, relocate_impl applies them (relative entries,       *)
(* dynrel, pltrel), prepares lazy binding or RELRO, runs the initialisers  *)
(* and collects the dependencies; dl_fixup binds the jump slots of a lazy  *)
(* image when threads call through them.                                   *)
(*                                                                         *)
(* A slot is the place an entry relocates.  What matters of its contents   *)
(* is who provided the value.  Images of the scope stay alive here: their  *)
(* life is the subject of ImageLifecycle.                                  *)
(***************************************************************************)
EXTENDS Naturals, Sequences, FiniteSets, Functions

CONSTANTS
  Sym,          \* symbols the entries name
  Local,        \* symbols of local binding
  Weak,         \* weak undefined symbols of the image
  Own,          \* symbols with a value in the image's own table
  PreFind,      \* symbols pre_find answers
  PostFind,     \* symbols post_find answers
  LazyFind,     \* symbols the lookup given to lazy_scope() answers
  N,            \* length of the scope
  Defs,         \* Defs[s]: positions of the scope that define s
  Self,         \* position of the image itself in the scope, or 0
  Needed,       \* positions of the scope DT_NEEDED names
  Handlers,     \* what the handlers may answer: "none", "done", "dep", "err"
  MaxRela,      \* bound: entries of DT_RELA
  MaxPlt,       \* bound: entries of DT_JMPREL
  Thread        \* threads that call through the jump slots

ASSUME ConstantsAssumption ==
  /\ N \in Nat /\ Self \in 0..N /\ Needed \subseteq 1..N
  /\ Defs \in [Sym -> SUBSET (1..N)]
  /\ Local \subseteq Sym /\ Weak \subseteq Sym \ Local /\ Own \subseteq Sym \ Weak
  /\ PreFind \subseteq Sym /\ PostFind \subseteq Sym /\ LazyFind \subseteq Sym
  /\ "none" \in Handlers /\ Handlers \subseteq {"none", "done", "dep", "err"}
  /\ MaxRela \in Nat /\ MaxPlt \in Nat

VARIABLES
  rela,      \* the entries of DT_RELA
  count,     \* DT_RELACOUNT
  relr,      \* DT_RELR: {} or the set of its words
  plt,       \* the entries of DT_JMPREL
  joined,    \* the jump slots are also the tail of DT_RELA
  lazy,      \* bind jump slots lazily
  custom,    \* a lookup was given to lazy_scope()
  pc,        \* where relocate_impl is
  next,      \* entries of the current table already processed
  slot,      \* slot[t][i]: what entry i of table t was relocated to
  flags,     \* dependency_flags
  got,       \* prepare_lazy_bind has filled in the GOT header
  lazyScope, \* lazy_scope is set
  relro,     \* RELRO pages are read-only
  isInit,    \* CoreInner::is_init
  deps,      \* positions of the scope cloned into the LoadedCore
  fix        \* fix[t]: the jump slot thread t is in dl_fixup for, and its result

file == <<rela, count, relr, plt, joined, lazy, custom>>
vars == <<file, pc, next, slot, flags, got, lazyScope, relro, isInit, deps, fix>>

-----------------------------------------------------------------------------
(* Tables and slots *)

SymType == {"GOT", "DTPOFF", "COPY"}
Entry == [type : SymType, sym : Sym]
         \cup [type : {"RELATIVE", "IRELATIVE", "NONE", "other"}, sym : {"-"}]
PltEntry == [type : {"JUMP_SLOT"}, sym : Sym]
            \cup [type : {"IRELATIVE", "other"}, sym : {"-"}]

\* Who provided the value of a slot; lib counts positions of the scope.
By(w, i) == [by |-> w, lib |-> i]
Value == [by : {"file", "base", "stub", "ifunc", "handler", "pre", "self", "null",
                "post", "custom"}, lib : {0}]
         \cup [by : {"lib", "handler"}, lib : 1..N]
File == By("file", 0)

\* DynamicRelocation::new
Relative == IF relr = {} THEN SubSeq(rela, 1, count) ELSE <<>>
Rest == SubSeq(rela, count + 1, Len(rela))
Dynrel == IF relr # {} THEN rela
          ELSE IF joined THEN SubSeq(Rest, 1, Len(Rest) - Len(plt)) ELSE Rest

\* DynamicRelocation::is_empty
is_empty == Relative = <<>> /\ relr = {} /\ Dynrel = <<>> /\ plt = <<>>

-----------------------------------------------------------------------------
(* Symbol resolution.  NotFound stands for the None of the functions.       *)

NotFound == By("none", 0)

find_weak(s) ==
  IF s \in Weak THEN By("null", 0)
  ELSE IF s \in Own THEN By("self", 0) ELSE NotFound

\* The first library of the scope that defines a symbol.
FirstOf(S) == CHOOSE i \in S : \A j \in S : i <= j

find_symdef_impl(s) ==
  IF s \in Local THEN By("self", 0)
  ELSE IF Defs[s] # {} THEN By("lib", FirstOf(Defs[s]))
  ELSE find_weak(s)

find_symbol_addr(s) ==
  IF s \in PreFind THEN By("pre", 0)
  ELSE IF find_symdef_impl(s) # NotFound THEN find_symdef_impl(s)
  ELSE IF s \in PostFind THEN By("post", 0)
  ELSE NotFound

\* The position a resolution returns; none for the image itself.
Used(v) == IF v.by = "lib" THEN {v.lib} \ {Self} ELSE {}

\* Mutant: the lazy scope shrinks once the dependencies are collected.
Shrinking == IF custom THEN {} ELSE IF pc = "init" THEN 1..N ELSE Needed

\* The libraries of the lazy scope; none when a lookup was given.
LazyLibs == IF custom THEN {} ELSE Needed

\* LazyScope::lookup: the custom lookup, then the libraries.
LazyScope_lookup(s) ==
  IF custom /\ s \in LazyFind THEN By("custom", 0)
  ELSE IF Defs[s] \cap LazyLibs # {} THEN By("lib", FirstOf(Defs[s] \cap LazyLibs))
  ELSE NotFound

-----------------------------------------------------------------------------
Stopped == {"done", "failed", "panicked", "aborted"}

\* The files a static linker writes: the relative entries first and counted,
\* jump slots in a table of their own that may be the tail of DT_RELA.  With
\* DT_RELR the relative entries that are not word-aligned stay in DT_RELA.
Files ==
  /\ plt \in UNION {[1..n -> PltEntry] : n \in 0..MaxPlt}
  /\ joined \in BOOLEAN /\ (joined => plt # <<>>)
  /\ \E n \in count..MaxRela : \E own \in [1..n -> Entry] :
       /\ \A i \in 1..n : own[i].type = "RELATIVE" <=> i <= count
       /\ rela = IF joined THEN own \o plt ELSE own
  /\ relr \in {{}, {1}}
  /\ lazy \in BOOLEAN /\ custom \in BOOLEAN

Idle == [i |-> 0, value |-> NotFound]

Init ==
  /\ count \in 0..MaxRela /\ Files
  /\ pc = "start" /\ next = 0
  /\ slot = [rela |-> [i \in 1..Len(rela) |-> File], plt |-> [i \in 1..Len(plt) |-> File],
             relr |-> [w \in relr |-> File]]
  /\ flags = {} /\ deps = {}
  /\ got = FALSE /\ lazyScope = FALSE /\ relro = FALSE /\ isInit = FALSE
  /\ fix = [t \in Thread |-> Idle]

-----------------------------------------------------------------------------
(* relocate_impl *)

\* Entry i of table tab gets value v, the positions S of the scope are used.
Write(tab, i, v, S) ==
  /\ slot' = [slot EXCEPT ![tab][i] = v] /\ flags' = flags \cup S
  /\ next' = next + 1 /\ UNCHANGED pc

Stop(p) == pc' = p /\ UNCHANGED <<slot, flags, next>>

\* Mutant: the library a handler used is not flagged.
Unflagged(tab, i) == "dep" \in Handlers /\ \E d \in 1..N : Write(tab, i, By("handler", d), {})

\* handle_pre and handle_post: a handler deals with the entry or fails.
Handled(tab, i) ==
  \/ "done" \in Handlers /\ Write(tab, i, By("handler", 0), {})
  \/ "dep" \in Handlers /\ \E d \in 1..N : Write(tab, i, By("handler", d), {d})
  \/ "err" \in Handlers /\ Stop("failed")

\* The default logic leaves the entry to the post handler.
Unhandled(tab, i) == Handled(tab, i) \/ Stop("failed")

\* The early return, or relocate_relative.
Start ==
  /\ pc = "start"
  /\ \/ is_empty /\ pc' = "done" /\ UNCHANGED slot
     \/ /\ ~is_empty /\ pc' = "dynrel"
        /\ slot' = [rela |-> [i \in DOMAIN slot.rela |-> IF i <= Len(Relative)
                                                         THEN By("base", 0) ELSE File],
                    relr |-> [w \in relr |-> By("base", 0)], plt |-> slot.plt]
  /\ UNCHANGED <<file, next, flags, got, lazyScope, relro, isInit, deps, fix>>

\* Mutant: an entry that cannot be resolved is skipped.
SkipEntry(e, i) == e.type \in SymType /\ next' = next + 1 /\ UNCHANGED <<pc, slot, flags>>

\* One round of relocate_dynrel for entry e, once the pre handler has passed.
dynrel_default(e, i) ==
  \/ /\ e.type = "GOT" /\ find_symbol_addr(e.sym) # NotFound
     /\ Write("rela", i, find_symbol_addr(e.sym), Used(find_symbol_addr(e.sym)))
  \/ /\ e.type = "GOT" /\ find_symbol_addr(e.sym) = NotFound /\ Unhandled("rela", i)
  \/ /\ e.type \in {"DTPOFF", "COPY"}
     /\ LET v == find_symdef_impl(e.sym) IN
        \/ v = NotFound /\ Unhandled("rela", i)
        \/ v.by = "null" /\ Stop("panicked")
        \/ v \notin {NotFound, By("null", 0)} /\ Write("rela", i, v, Used(v))
  \/ e.type = "IRELATIVE" /\ Write("rela", i, By("ifunc", 0), {})
  \/ e.type = "NONE" /\ Write("rela", i, File, {})
  \/ e.type \in {"RELATIVE", "JUMP_SLOT", "other"} /\ Unhandled("rela", i)

relocate_dynrel ==
  /\ pc = "dynrel" /\ next < Len(Dynrel)
  /\ LET i == Len(Relative) + next + 1
     IN Handled("rela", i) \/ dynrel_default(Dynrel[next + 1], i)
  /\ UNCHANGED <<file, got, lazyScope, relro, isInit, deps, fix>>

DynrelDone ==
  /\ pc = "dynrel" /\ next = Len(Dynrel)
  /\ pc' = "pltrel" /\ next' = 0
  /\ UNCHANGED <<file, slot, flags, got, lazyScope, relro, isInit, deps, fix>>

\* Mutant: jump slots are not looked up in pre_find and post_find.
scope_only(s) == find_symdef_impl(s)

\* What relocate_pltrel writes into a jump slot of a non-lazy image.
jump_slot_addr(s) == find_symbol_addr(s)

\* An unresolved jump slot keeps the contents of the file.
skip_jump_slot(i) == next' = next + 1 /\ UNCHANGED <<pc, slot, flags>>

\* One round of relocate_pltrel.
pltrel_default(e, i) ==
  \/ e.type = "JUMP_SLOT" /\ lazy /\ Write("plt", i, By("stub", 0), {})
  \/ /\ e.type = "JUMP_SLOT" /\ ~lazy
     /\ LET v == jump_slot_addr(e.sym) IN
        \/ v # NotFound /\ Write("plt", i, v, Used(v))
        \/ v = NotFound /\ skip_jump_slot(i)
  \/ e.type = "IRELATIVE" /\ Write("plt", i, By("ifunc", 0), {})
  \/ e.type = "other" /\ Unhandled("plt", i)

relocate_pltrel ==
  /\ pc = "pltrel" /\ next < Len(plt)
  /\ Handled("plt", next + 1) \/ pltrel_default(plt[next + 1], next + 1)
  /\ UNCHANGED <<file, got, lazyScope, relro, isInit, deps, fix>>

\* Mutant: RELRO is applied to lazy images as well.
protect_always == relro' \in BOOLEAN /\ got' = (plt # <<>>) /\ lazyScope' = lazy

\* The end of relocate_pltrel: prepare_lazy_bind and set_lazy_scope, or the
\* RELRO segment, if there is one, becomes read-only.
protect ==
  \/ lazy /\ got' = (plt # <<>>) /\ lazyScope' = TRUE /\ UNCHANGED relro
  \/ ~lazy /\ relro' \in BOOLEAN /\ UNCHANGED <<got, lazyScope>>

PltrelDone ==
  /\ pc = "pltrel" /\ next = Len(plt)
  /\ \/ protect /\ pc' = "finish"
     \/ ~lazy /\ pc' = "failed" /\ UNCHANGED <<got, lazyScope, relro>>
  /\ UNCHANGED <<file, next, slot, flags, isInit, deps, fix>>

\* DynamicImage::finish: is_init, then the initialisers.
finish ==
  /\ pc = "finish"
  /\ isInit' = TRUE /\ pc' = "init"
  /\ UNCHANGED <<file, next, slot, flags, got, lazyScope, relro, deps, fix>>

\* The initialisers have returned; the dependencies are collected.
Collect ==
  /\ pc = "init"
  /\ deps' = flags \cup Needed /\ pc' = "done"
  /\ UNCHANGED <<file, next, slot, flags, got, lazyScope, relro, isInit, fix>>

-----------------------------------------------------------------------------
(* dl_fixup: threads call through jump slots as soon as initialisers run    *)

dl_fixup(t, i) ==
  /\ pc \in {"init", "done"} /\ fix[t] = Idle
  /\ plt[i].type = "JUMP_SLOT" /\ slot.plt[i].by = "stub"
  /\ LET v == LazyScope_lookup(plt[i].sym) IN
     \/ v # NotFound /\ fix' = [fix EXCEPT ![t] = [i |-> i, value |-> v]] /\ UNCHANGED pc
     \/ v = NotFound /\ pc' = "aborted" /\ UNCHANGED fix
  /\ UNCHANGED <<file, next, slot, flags, got, lazyScope, relro, isInit, deps>>

FixupWrite(t) ==
  /\ pc \in {"init", "done"} /\ fix[t] # Idle
  /\ slot' = [slot EXCEPT !.plt[fix[t].i] = fix[t].value]
  /\ fix' = [fix EXCEPT ![t] = Idle]
  /\ UNCHANGED <<file, pc, next, flags, got, lazyScope, relro, isInit, deps>>

-----------------------------------------------------------------------------
relocate_impl ==
  \/ Start \/ relocate_dynrel \/ DynrelDone \/ relocate_pltrel \/ PltrelDone
  \/ finish \/ Collect

Next ==
  \/ relocate_impl
  \/ \E t \in Thread : FixupWrite(t) \/ \E i \in DOMAIN plt : dl_fixup(t, i)

Spec == Init /\ [][Next]_vars

-----------------------------------------------------------------------------
(* Properties *)

\* Every library that provided an address - to the relocator, to a handler
\* that names it as used, or to a dl_fixup - is among the dependencies the LoadedCore keeps alive.
DepsCover ==
  pc = "done" =>
    \A v \in Range(slot.rela) \cup Range(slot.plt) :
      /\ v.by = "lib" => v.lib \in deps \cup {Self}
      /\ v.by = "handler" => v.lib \in deps \cup {0}

\* Nothing is written into the image once RELRO made pages of it read-only:
\* a lazy image, whose jump slots are written later, is never protected.
ReadOnlyAfterRelro == [][relro => UNCHANGED slot]_vars

\* When the initialisers run, every entry has been applied, and a jump slot
\* that is still a stub finds the GOT header and the lazy scope in place.  The
\* one entry that may be left as the file has it is an eager JUMP_SLOT whose
\* symbol no lookup finds: relocate_pltrel goes on to the next entry, although
\* Relocator::lazy says that without lazy binding all relocations are resolved.
InitSeesRelocated ==
  isInit =>
    /\ \A w \in relr : slot.relr[w].by = "base"
    /\ \A i \in 1..(Len(Relative) + Len(Dynrel)) : rela[i].type = "NONE" \/ slot.rela[i] # File
    /\ \A j \in DOMAIN plt :
         /\ slot.plt[j].by = "stub" => got /\ lazyScope
         /\ slot.plt[j] = File =>
              ~lazy /\ plt[j].type = "JUMP_SLOT" /\ find_symbol_addr(plt[j].sym) = NotFound

\* A jump slot that has been bound is never written again with another
\* address, however many threads race through dl_fixup.
BoundOnce ==
  [][\A i \in DOMAIN plt :
       pc \in {"init", "done"} /\ slot.plt[i].by \notin {"file", "stub"}
         => slot.plt[i] = slot'.plt[i]]_vars

\* A function is the same address called through the PLT and taken from the
\* GOT, when both entries are bound eagerly by the default logic.
SameFunction ==
  pc = "done" /\ ~lazy =>
    \A i \in DOMAIN rela, j \in DOMAIN plt :
      /\ rela[i].type = "GOT" /\ plt[j].type = "JUMP_SLOT" /\ rela[i].sym = plt[j].sym
      /\ slot.rela[i].by # "handler" /\ slot.plt[j].by # "handler"
      => slot.rela[i] = slot.plt[j]
=============================================================================
