--------------------------- MODULE ImageLifecycle ---------------------------
(***************************************************************************)
(* Ownership of loaded images: who keeps an ELF image mapped, when its     *)
(* finalisers run and when its memory goes away.                           *)
(*                                                                         *)
(* An image is an Arc<CoreInner>.  A LoadedCore is a pair of an Arc to the *)
(* image (core) and an Arc to a slice of LoadedCores (deps); the slice is  *)
(* built once, at the end of relocate_impl.  An Arc is modelled by the set *)
(* of places that own a reference (Handles): user variables, the scope of  *)
(* a relocation in progress, the elements of a deps slice and the value a  *)
(* thread is in the middle of dropping.  A count that reaches zero is a    *)
(* reference nobody owns any more (CoreHeld, SliceHeld).                   *)
(*                                                                         *)
(* Drops are recursive and run user code (finalisers), so they are split   *)
(* into steps and interleave with the other threads.                       *)
(***************************************************************************)
EXTENDS Sequences, Naturals

CONSTANTS
  Lib,         \* ELF images; each is loaded at most once
  Var,         \* variables of the program that can own a value
  Thread,      \* threads of the program
  Needed,      \* Needed[l]: the images l names in DT_NEEDED
  Object,      \* the images that are relocatable objects (.o)
  Trivial,     \* the dynamic images without any relocation entry
  CoreVar,     \* the variables in which the program keeps ElfCore clones
  None

ASSUME ConstantsAssumption ==
  /\ Needed \in [Lib -> SUBSET Lib]
  /\ Object \subseteq Lib
  /\ Trivial \subseteq Lib \ Object
  /\ CoreVar \subseteq Var
  /\ None \notin Lib \cup Var

VARIABLES
  loaded,    \* images that have been loaded so far
  mapped,    \* images whose segments are mapped
  isInit,    \* images whose CoreInner::is_init is set
  finis,     \* number of times the finalisers of an image have been run
  bound,     \* bound[l]: images whose addresses relocation wrote into l
  lazy,      \* images whose jump slots are resolved by dl_fixup
  weak,      \* weak[l]: LazyScope::libs of l
  deps,      \* deps[l]: elements left in the deps slice built for l
  var,       \* var[v]: the value variable v owns
  job,       \* job[t]: the library call thread t is in
  scope,     \* scope[t]: Relocator::scope of the relocation t runs
  flags,     \* flags[t]: images marked in RelocHelper::dependency_flags
  fix,       \* fix[t]: the dl_fixup thread t is in
  cur,       \* cur[t]: the value thread t is dropping
  drain,     \* drain[t]: deps slices t is dropping, innermost first
  dying,     \* dying[t]: the image whose CoreInner t is dropping
  aborted    \* threads whose dl_fixup found no definition: the process is gone

vars == <<loaded, mapped, isInit, finis, bound, lazy, weak, deps, var, job,
          scope, flags, fix, cur, drain, dying, aborted>>

image == <<loaded, mapped, isInit, finis, bound, lazy, weak>>

-----------------------------------------------------------------------------
(* Values *)

Kind == {"empty", "raw", "core", "loaded", "moving"}

\* A RawDylib/RawObject ("raw"), an ElfCore ("core"), a LoadedCore
\* ("loaded") or a value inside a running relocate() ("moving").  deps is
\* the image whose deps slice the value shares; an empty slice is None.
Handle == [kind : Kind, core : Lib \cup {None}, deps : Lib \cup {None}]

NoHandle == [kind |-> "empty", core |-> None, deps |-> None]

\* The place of a value that has been moved out of a running relocate().
Moved == [kind |-> "moving", core |-> None, deps |-> None]

\* The same references held as another type of value.
As(h, k) == [kind |-> k, core |-> h.core, deps |-> h.deps]

\* Mutant: deps is not initialised.
from_core_uninit(l) == [kind |-> "moving", core |-> l, deps |-> "uninit"]

\* What LoadedCore::from_core makes of a core: no dependencies.
from_core(l) == [kind |-> "moving", core |-> l, deps |-> None]

\* What LoadedCore::from_core_deps makes of a core and its deps slice.
from_core_deps(l) == [kind |-> "moving", core |-> l, deps |-> l]

\* The library call a thread is in: the variable and the image it works on.
Job == [op : {"none", "bind", "init", "unscope", "call"},
        v : Var \cup {None}, lib : Lib \cup {None}]

NoJob == [op |-> "none", v |-> None, lib |-> None]

\* A dl_fixup for image lib: libraries of the lazy scope still to be asked,
\* and the one that defines the symbol.
Fix == [lib : Lib \cup {None}, cand : SUBSET Lib, hit : Lib \cup {None}]

NoFix == [lib |-> None, cand |-> {}, hit |-> None]

Cores(S) == {h.core : h \in S}

\* Every value that owns references.
Handles == {var[v] : v \in Var} \cup {cur[t] : t \in Thread}
           \cup (UNION {scope[t] : t \in Thread}) \cup (UNION {deps[l] : l \in Lib})

\* The strong count of the image is not zero.
CoreHeld(l) == \E h \in Handles : h.core = l

\* The strong count of the deps slice of l is not zero.
SliceHeld(l) == \E h \in Handles : h.deps = l

\* Thread t is not inside a drop.
NotDropping(t) == cur[t] = NoHandle /\ drain[t] = <<>> /\ dying[t] = None

Idle(t) == NotDropping(t) /\ job[t] = NoJob /\ fix[t] = NoFix

\* Mutant: symbols carry no lifetime.
Unborrowed(v) == FALSE

\* A Symbol<'lib> borrows the variable it was looked up in.
Borrowed(v) == \E t \in Thread : job[t].op = "call" /\ job[t].v = v

\* The handles and images stay in their types through every operation.
TypeOK ==
  /\ loaded \subseteq Lib /\ mapped \subseteq Lib
  /\ isInit \subseteq Lib /\ lazy \subseteq Lib
  /\ finis \in [Lib -> Nat]
  /\ bound \in [Lib -> SUBSET Lib] /\ weak \in [Lib -> SUBSET Lib]
  /\ deps \in [Lib -> SUBSET Handle]
  /\ var \in [Var -> Handle]
  /\ job \in [Thread -> Job]
  /\ scope \in [Thread -> SUBSET Handle] /\ flags \in [Thread -> SUBSET Lib]
  /\ fix \in [Thread -> Fix]
  /\ cur \in [Thread -> Handle]
  /\ drain \in [Thread -> Seq(Lib)]
  /\ dying \in [Thread -> Lib \cup {None}]
  /\ aborted \subseteq Thread

Init ==
  /\ loaded = {} /\ mapped = {}
  /\ isInit = {} /\ lazy = {}
  /\ finis = [l \in Lib |-> 0]
  /\ bound = [l \in Lib |-> {}] /\ weak = [l \in Lib |-> {}]
  /\ deps = [l \in Lib |-> {}]
  /\ var = [v \in Var |-> NoHandle]
  /\ job = [t \in Thread |-> NoJob]
  /\ scope = [t \in Thread |-> {}] /\ flags = [t \in Thread |-> {}]
  /\ fix = [t \in Thread |-> NoFix]
  /\ cur = [t \in Thread |-> NoHandle]
  /\ drain = [t \in Thread |-> <<>>]
  /\ dying = [t \in Thread |-> None]
  /\ aborted = {}

-----------------------------------------------------------------------------
(* Operations of the program on its own values *)

\* Loader::load_dylib / load_exec / load_object returning Ok.
Load(v, l) ==
  /\ var[v] = NoHandle /\ l \notin loaded
  /\ loaded' = loaded \cup {l} /\ mapped' = mapped \cup {l}
  /\ var' = [var EXCEPT ![v] = [kind |-> "raw", core |-> l, deps |-> None]]
  /\ UNCHANGED <<isInit, finis, bound, lazy, weak, deps, job, scope, flags,
                 fix, cur, drain, dying, aborted>>

\* LoadedCore::clone: one more reference to the core and to the deps slice.
Clone(v, w) ==
  /\ var[v].kind = "loaded" /\ var[w] = NoHandle
  /\ var' = [var EXCEPT ![w] = var[v]]
  /\ UNCHANGED <<image, deps, job, scope, flags, fix, cur, drain, dying, aborted>>

\* RawDylib::core (or a clone of the ElfCore a RawObject derefs to), and
\* ElfCore::clone: a reference to the core alone.
CloneCore(v, w) ==
  /\ var[v].kind \in {"raw", "core"} /\ w \in CoreVar /\ var[w] = NoHandle
  /\ var' = [var EXCEPT ![w] = As(var[v], "core")]
  /\ UNCHANGED <<image, deps, job, scope, flags, fix, cur, drain, dying, aborted>>

\* A call of a symbol of the image in v, and its return.
Call(t, v) ==
  /\ Idle(t) /\ var[v].kind = "loaded"
  /\ job' = [job EXCEPT ![t] = [op |-> "call", v |-> v, lib |-> var[v].core]]
  /\ UNCHANGED <<image, deps, var, scope, flags, fix, cur, drain, dying, aborted>>

Return(t) ==
  /\ job[t].op = "call" /\ fix[t] = NoFix /\ NotDropping(t)
  /\ job' = [job EXCEPT ![t] = NoJob]
  /\ UNCHANGED <<image, deps, var, scope, flags, fix, cur, drain, dying, aborted>>

-----------------------------------------------------------------------------
(* Relocator::relocate *)

\* Relocator::scope clones the LoadedCores it is given; relocate() consumes
\* the raw image, which stays at v ("moving") until the call returns.
StartRelocate(t, v, ws, op) ==
  /\ Idle(t) /\ var[v].kind = "raw"
  /\ \A w \in ws : var[w].kind = "loaded"
  /\ job' = [job EXCEPT ![t] = [op |-> op, v |-> v, lib |-> var[v].core]]
  /\ scope' = [scope EXCEPT ![t] = {var[w] : w \in ws}]
  /\ var' = [var EXCEPT ![v] = from_core(var[v].core)]
  /\ UNCHANGED <<image, deps, flags, fix, cur, drain, dying, aborted>>

Relocate(t, v, ws) ==
  var[v].core \notin Trivial /\ StartRelocate(t, v, ws, "bind")

\* The early return of DynamicImage::relocate_impl: nothing to relocate, so
\* neither dependencies nor initialisers.
RelocateEmpty(t, v, ws) ==
  var[v].core \in Trivial /\ StartRelocate(t, v, ws, "unscope")

\* Thread t goes on to another stage of its relocation.
Stage(t, op) == [op |-> op, v |-> job[t].v, lib |-> job[t].lib]

\* The relocation entries are applied: the images B of the scope provide
\* addresses.  A dynamic image marks them in dependency_flags, an object
\* drops the index find_symbol_addr returns.  Then finish() sets is_init and
\* the initialisers start; an object runs them without setting is_init.
BindAs(t, l, B, W) ==
  /\ bound' = [bound EXCEPT ![l] = B]
  /\ flags' = [flags EXCEPT ![t] = IF l \in Object THEN {} ELSE B \ {l}]
  /\ weak' = [weak EXCEPT ![l] = W]
  /\ isInit' = IF l \in Object THEN isInit ELSE isInit \cup {l}
  /\ job' = [job EXCEPT ![t] = Stage(t, "init")]
  /\ UNCHANGED <<loaded, mapped, finis, deps, var, scope, fix, cur, drain,
                 dying, aborted>>

\* Non-lazily: every jump slot is among the entries.
BindNow(t) ==
  /\ job[t].op = "bind" /\ UNCHANGED lazy
  /\ \E B \in SUBSET Cores(scope[t]) : BindAs(t, job[t].lib, B, {})

\* Lazily: the lazy scope keeps weak references to the needed libraries.
BindLazy(t) ==
  /\ job[t].op = "bind" /\ job[t].lib \notin Object
  /\ lazy' = lazy \cup {job[t].lib}
  /\ \E B \in SUBSET Cores(scope[t]) :
       BindAs(t, job[t].lib, B, Cores(scope[t]) \cap Needed[job[t].lib])

\* Mutant: the error path forgets the image.
ForgetImage(t) == NoHandle

\* The value relocate_impl drops when it returns Err.
DroppedOnError(t) == var[job[t].v]

\* An entry cannot be resolved: relocate_impl returns Err and drops the
\* image, then the Relocator drops its scope.  No code of the image ever
\* runs, so what was written into it until then is of no interest.
BindFails(t) ==
  /\ job[t].op = "bind"
  /\ cur' = [cur EXCEPT ![t] = DroppedOnError(t)]
  /\ var' = [var EXCEPT ![job[t].v] = Moved]
  /\ job' = [job EXCEPT ![t] = Stage(t, "unscope")]
  /\ UNCHANGED <<image, deps, scope, flags, fix, drain, dying, aborted>>

\* Mutant: only the images relocation found a symbol in are kept.
FlaggedDeps(t, l) == {h \in scope[t] : h.core \in flags[t]}

\* The scope entries relocate_impl clones into the deps slice: the ones a
\* relocation used and the ones DT_NEEDED names.
CollectedDeps(t, l) == {h \in scope[t] : h.core \in flags[t] \cup Needed[l]}

\* The initialisers have returned: build the deps slice and the LoadedCore.
Collect(t) ==
  /\ job[t].op = "init" /\ fix[t] = NoFix /\ NotDropping(t)
  /\ LET l == job[t].lib IN
     \/ /\ l \in Object
        /\ var' = [var EXCEPT ![job[t].v] = from_core(l)]
        /\ UNCHANGED deps
     \/ /\ l \notin Object
        /\ var' = [var EXCEPT ![job[t].v] = from_core_deps(l)]
        /\ deps' = [deps EXCEPT ![l] = CollectedDeps(t, l)]
  /\ flags' = [flags EXCEPT ![t] = {}]
  /\ job' = [job EXCEPT ![t] = Stage(t, "unscope")]
  /\ UNCHANGED <<image, scope, fix, cur, drain, dying, aborted>>

\* The Relocator drops its scope, one element after the other ...
Unscope(t) ==
  /\ job[t].op = "unscope" /\ NotDropping(t)
  /\ \E h \in scope[t] :
       /\ scope' = [scope EXCEPT ![t] = @ \ {h}]
       /\ cur' = [cur EXCEPT ![t] = h]
  /\ UNCHANGED <<image, deps, var, job, flags, fix, drain, dying, aborted>>

\* ... and relocate() returns its result to the caller.
Relocated(t) ==
  /\ job[t].op = "unscope" /\ NotDropping(t) /\ scope[t] = {}
  /\ LET v == job[t].v IN
     var' = [var EXCEPT ![v] = IF @.core = None THEN NoHandle
                               ELSE As(@, "loaded")]
  /\ job' = [job EXCEPT ![t] = NoJob]
  /\ UNCHANGED <<image, deps, scope, flags, fix, cur, drain, dying, aborted>>

-----------------------------------------------------------------------------
(* dl_fixup: the first call through a jump slot of a lazily bound image *)

Fixup(t) ==
  /\ job[t].op \in {"call", "init"} /\ fix[t] = NoFix /\ NotDropping(t)
  /\ LET l == job[t].lib IN
     /\ l \in lazy
     /\ fix' = [fix EXCEPT ![t] = [lib |-> l, cand |-> weak[l], hit |-> None]]
  /\ UNCHANGED <<image, deps, var, job, scope, flags, cur, drain, dying, aborted>>

\* LazyScope::lookup: ElfCoreRef::upgrade of one library; a LoadedCore made
\* of it answers the lookup and is dropped.
FixupLookup(t) ==
  /\ fix[t].lib # None /\ fix[t].hit = None /\ NotDropping(t)
  /\ \E a \in fix[t].cand, hit \in Lib \cup {None} :
       /\ fix' = [fix EXCEPT ![t] = [lib |-> fix[t].lib,
                                     cand |-> fix[t].cand \ {a}, hit |-> hit]]
       /\ \/ /\ CoreHeld(a) /\ hit \in {a, None}
             /\ cur' = [cur EXCEPT ![t] = from_core(a)]
          \/ /\ ~CoreHeld(a) /\ hit = None
             /\ UNCHANGED cur
  /\ UNCHANGED <<image, deps, var, job, scope, flags, drain, dying, aborted>>

\* The address goes into the jump slot.
FixupWrite(t) ==
  /\ fix[t].hit # None /\ NotDropping(t)
  /\ bound' = [bound EXCEPT ![fix[t].lib] = @ \cup {fix[t].hit}]
  /\ fix' = [fix EXCEPT ![t] = NoFix]
  /\ UNCHANGED <<loaded, mapped, isInit, finis, lazy, weak, deps, var, job,
                 scope, flags, cur, drain, dying, aborted>>

\* expect("lazy bind fail") in an extern "C" function.
FixupAbort(t) ==
  /\ fix[t].lib # None /\ fix[t].cand = {} /\ fix[t].hit = None
  /\ NotDropping(t)
  /\ aborted' = {t}
  /\ UNCHANGED <<image, deps, var, job, scope, flags, fix, cur, drain, dying>>

-----------------------------------------------------------------------------
(* Dropping a value.  The fields of a LoadedCore are dropped in the order   *)
(* of their declaration: core, then deps.                                  *)

Drop(t, v) ==
  /\ Idle(t) /\ ~Borrowed(v)
  /\ var[v].kind \in {"raw", "core", "loaded"}
  /\ cur' = [cur EXCEPT ![t] = var[v]]
  /\ var' = [var EXCEPT ![v] = NoHandle]
  /\ UNCHANGED <<image, deps, job, scope, flags, fix, drain, dying, aborted>>

\* Mutant: Drop for CoreInner does not look at is_init.
FiniAlways(l) == 1

\* How often Drop for CoreInner runs the finalisers.
FiniRuns(l) == IF l \in isInit THEN 1 ELSE 0

\* What is left of a value once its core field has been dropped.
OnlyDeps(h) == [kind |-> "empty", core |-> None, deps |-> h.deps]

\* The core reference goes; the last one runs CoreInner::drop, which calls
\* the finalisers of an initialised image.
ReleaseCore(t) ==
  /\ cur[t].core # None
  /\ cur' = [cur EXCEPT ![t] = OnlyDeps(cur[t])]
  /\ UNCHANGED <<deps, var, scope>>
  /\ LET l == cur[t].core IN
     \/ /\ \E h \in Handles' : h.core = l
        /\ UNCHANGED <<dying, finis>>
     \/ /\ \A h \in Handles' : h.core # l
        /\ dying' = [dying EXCEPT ![t] = l]
        /\ finis' = [finis EXCEPT ![l] = @ + FiniRuns(l)]
  /\ UNCHANGED <<loaded, mapped, isInit, bound, lazy, weak, job, flags, fix,
                 drain, aborted>>

\* The finalisers have returned: the fields of CoreInner are dropped, the
\* lazy scope first, the segments (munmap) last.
Unmap(t) ==
  /\ dying[t] # None
  /\ mapped' = mapped \ {dying[t]}
  /\ weak' = [weak EXCEPT ![dying[t]] = {}]
  /\ dying' = [dying EXCEPT ![t] = None]
  /\ UNCHANGED <<loaded, isInit, finis, bound, lazy, deps, var, job, scope,
                 flags, fix, cur, drain, aborted>>

\* The deps reference goes; the last one drops the elements of the slice.
ReleaseDeps(t) ==
  /\ cur[t].core = None /\ cur[t].deps # None /\ dying[t] = None
  /\ cur' = [cur EXCEPT ![t] = NoHandle]
  /\ UNCHANGED <<deps, var, scope>>
  /\ LET s == cur[t].deps IN
     \/ /\ \E h \in Handles' : h.deps = s
        /\ UNCHANGED drain
     \/ /\ \A h \in Handles' : h.deps # s
        /\ drain' = [drain EXCEPT ![t] = <<s>> \o @]
  /\ UNCHANGED <<image, job, flags, fix, dying, aborted>>

\* The elements of the innermost slice are dropped in place, one by one ...
DrainDeps(t) ==
  /\ cur[t] = NoHandle /\ dying[t] = None /\ drain[t] # <<>>
  /\ LET s == Head(drain[t]) IN
     \E h \in deps[s] :
       /\ deps' = [deps EXCEPT ![s] = @ \ {h}]
       /\ cur' = [cur EXCEPT ![t] = h]
  /\ UNCHANGED <<image, var, job, scope, flags, fix, drain, dying, aborted>>

\* Mutant: the slice is never left.
KeepSlice(q) == q

\* The slices still to be dropped after the innermost one.
LeaveSlice(q) == Tail(q)

\* ... and then the slice is freed.
FreeSlice(t) ==
  /\ cur[t] = NoHandle /\ dying[t] = None /\ drain[t] # <<>>
  /\ deps[Head(drain[t])] = {}
  /\ drain' = [drain EXCEPT ![t] = LeaveSlice(@)]
  /\ UNCHANGED <<image, deps, var, job, scope, flags, fix, cur, dying, aborted>>

-----------------------------------------------------------------------------
\* The steps a thread takes once it has entered a library call or a drop.
Internal(t) ==
  \/ BindNow(t) \/ BindLazy(t) \/ BindFails(t) \/ Collect(t) \/ Unscope(t)
  \/ Relocated(t)
  \/ FixupLookup(t) \/ FixupWrite(t) \/ FixupAbort(t)
  \/ ReleaseCore(t) \/ Unmap(t) \/ ReleaseDeps(t)
  \/ DrainDeps(t) \/ FreeSlice(t)

Next ==
  /\ aborted = {}
  /\ \/ \E v \in Var, l \in Lib : Load(v, l)
     \/ \E v, w \in Var : Clone(v, w) \/ CloneCore(v, w)
     \/ \E t \in Thread, v \in Var : Call(t, v) \/ Drop(t, v)
     \/ \E t \in Thread, v \in Var, ws \in SUBSET Var :
          Relocate(t, v, ws) \/ RelocateEmpty(t, v, ws)
     \/ \E t \in Thread : Return(t) \/ Fixup(t) \/ Internal(t)

Spec == Init /\ [][Next]_vars

\* A thread inside the library keeps running.
Fairness == \A t \in Thread : WF_vars(aborted = {} /\ Internal(t))

FairSpec == Spec /\ Fairness

-----------------------------------------------------------------------------
(* Properties *)

\* An image somebody owns is mapped and its finalisers have not been run.
Usable(l) == l \in mapped /\ \A t \in Thread : dying[t] # l

\* While a dynamic image is mapped (its finalisers included), every image
\* relocation or dl_fixup took an address from, and every image its lazy
\* scope can still find, is mapped and not finalised: the deps slice of
\* LoadedCore keeps "required libraries in memory".
NoDanglingBinding ==
  \A m \in mapped \ Object : \A d \in bound[m] \cup weak[m] : Usable(d)

\* The same for every image, relocatable objects included: what the
\* documentation of LoadedCore and LoadedElf promises.
DependenciesRetained ==
  \A m \in mapped : \A d \in bound[m] : Usable(d)

\* A dynamic image the program holds as loaded has been initialised: the
\* initialisers are run "after relocation".
LoadedIsInitialised ==
  \A v \in Var : var[v].kind = "loaded" /\ var[v].core \notin Object
    => var[v].core \in isInit

\* No reference cycle: once the program has dropped everything and every
\* thread has left the library, no image is mapped.
NoLeak ==
  (\A v \in Var : var[v] = NoHandle) /\ (\A t \in Thread : Idle(t))
    => mapped = {} /\ \A l \in Lib : deps[l] = {}

\* Every image that is gone has been finalised exactly once if it had been
\* initialised and never otherwise (a failed relocation runs no finaliser).
FinalisedOnce ==
  \A l \in loaded : LET gone == l \notin mapped \/ \E t \in Thread : dying[t] = l
                    IN finis[l] = IF gone /\ l \in isInit THEN 1 ELSE 0

\* An image a thread is executing - called through a borrowed variable or
\* running its initialisers - is mapped, and so is all it can jump to.
RunningCodeMapped ==
  \A t \in Thread :
    job[t].op \in {"call", "init"} =>
      /\ Usable(job[t].lib)
      /\ job[t].lib \notin Object => \A d \in bound[job[t].lib] : Usable(d)

\* Every drop comes to an end, however deep the dependency tree is.
DropEnds ==
  \A t \in Thread : ~NotDropping(t) ~> (NotDropping(t) \/ aborted # {})
=============================================================================
