------------------------ MODULE ImageLifecycleProofs ------------------------
(***************************************************************************)
(* The inductive invariant behind NoDanglingBinding, and its proof, for    *)
(* programs that keep no ElfCore clones (CoreVar = {}).                    *)
(***************************************************************************)
EXTENDS ImageLifecycle, TLAPS

\* The images l may jump to or look symbols up in.
Reach(l) == bound[l] \cup weak[l]

Isolated(l) == Reach(l) = {}

\* An image whose deps slice decides what it may reach: dynamic, and not
\* relocated by the early return.
Sliced(l) == l \in Lib \ (Object \cup Trivial)

\* Thread t is inside relocate() and has not built the deps slice yet.
Relocating(t) == job[t].op \in {"bind", "init"}

\* Who owns a reference owns a live image.
HeldUsable == \A l \in Lib : CoreHeld(l) => Usable(l)

\* A mapped image is owned or being dropped, by one thread.
MappedOwned == \A l \in mapped : CoreHeld(l) \/ \E t \in Thread : dying[t] = l

OneDropper ==
  \A t, u \in Thread : dying[t] = dying[u] /\ dying[t] # None => t = u

DyingMapped ==
  \A t \in Thread : dying[t] # None => dying[t] \in mapped /\ cur[t].core = None

\* Nothing is known of an image that has not been loaded, and only sliced
\* images have a deps slice.
LoadedFirst ==
  /\ mapped \subseteq loaded
  /\ \A l \in Lib : l \notin loaded \/ l \in Trivial => Isolated(l)

SlicesLoaded == \A l \in Lib : SliceHeld(l) => l \in loaded /\ Sliced(l)

\* What the values of each kind look like: a LoadedCore of a sliced image
\* always comes with the deps slice of that image.
Full(h) == h.kind = "loaded" /\ h.core \in Lib
           /\ (h.deps = h.core \/ (h.deps = None /\ ~Sliced(h.core)))

Raw(h) == h.kind = "raw" /\ h.core \in Lib /\ h.deps = None

VarShapes ==
  \A v \in Var : var[v] = NoHandle \/ Full(var[v]) \/ Raw(var[v])
                 \/ var[v].kind = "moving"

ScopeShapes == \A t \in Thread : \A h \in scope[t] : Full(h)

DepsShapes == \A l \in Lib : \A h \in deps[l] : Full(h)

\* A thread calls a LoadedCore, and relocates the value of a variable no
\* other thread works on.
InRelocate(t) == job[t].op \in {"bind", "init", "unscope"}

CallJob ==
  \A t \in Thread : job[t].op = "call" =>
    var[job[t].v].kind = "loaded" /\ var[job[t].v].core = job[t].lib

MovingJob ==
  /\ \A t \in Thread : InRelocate(t) => var[job[t].v].kind = "moving"
  /\ \A v \in Var : var[v].kind = "moving" =>
       \E t \in Thread : InRelocate(t) /\ job[t].v = v

OneJob ==
  \A t, u \in Thread :
    InRelocate(t) /\ InRelocate(u) /\ job[t].v = job[u].v => t = u

JobImage ==
  \A t \in Thread : Relocating(t) =>
    /\ job[t].lib \in Lib \ Trivial
    /\ var[job[t].v].core = job[t].lib /\ var[job[t].v].deps = None

BindQuiet == \A t \in Thread : job[t].op = "bind" => NotDropping(t)

UnscopeShape ==
  \A t \in Thread : job[t].op = "unscope" =>
    var[job[t].v] = Moved \/ Full(As(var[job[t].v], "loaded"))

\* Relocator::scope goes with the Relocator.
ScopeIdle == \A t \in Thread : \A h \in scope[t] : InRelocate(t)

\* Variable v owns an image that has no deps slice yet but may get one.
Fresh(v) == Sliced(var[v].core) /\ var[v].deps = None

\* A raw image has one owner: RawDylib is not Clone.
Unique ==
  \A v \in Var : Fresh(v) =>
    /\ \A w \in Var : var[w].core = var[v].core => w = v
    /\ \A t \in Thread : cur[t].core # var[v].core
    /\ \A t \in Thread : \A h \in scope[t] : h.core # var[v].core
    /\ \A l \in Lib : \A h \in deps[l] : h.core # var[v].core
    /\ ~SliceHeld(var[v].core)

\* Before its relocation an image reaches nothing; while its initialisers
\* run the scope of the Relocator covers what it reaches, and the flags and
\* DT_NEEDED cover what the slice is going to cover.
RawUnbound ==
  \A v \in Var : var[v].kind = "raw" /\ Sliced(var[v].core) => Isolated(var[v].core)

JobUnbound ==
  \A t \in Thread : job[t].op = "bind" /\ Sliced(job[t].lib) => Isolated(job[t].lib)

ScopeCovers ==
  \A t \in Thread : job[t].op = "init" /\ Sliced(job[t].lib) =>
    /\ Reach(job[t].lib) \subseteq Cores(scope[t])
    /\ Reach(job[t].lib) \subseteq flags[t] \cup Needed[job[t].lib]

\* A deps slice somebody owns covers what its image reaches.
SliceCovers == \A l \in Lib : SliceHeld(l) => Reach(l) \subseteq Cores(deps[l])

\* A slice is taken apart only when nobody owns it and nobody will.
FreshLib(l) == \E v \in Var : Fresh(v) /\ var[v].core = l

NoSliceYet == \A l \in Lib : \A h \in deps[l] : l \in loaded /\ ~FreshLib(l)

DrainFree ==
  \A t \in Thread : \A i \in DOMAIN drain[t] :
    drain[t][i] \in loaded /\ ~SliceHeld(drain[t][i])

DrainOld ==
  \A t \in Thread : \A i \in DOMAIN drain[t] : ~FreshLib(drain[t][i])

\* A value being dropped still owns the slice of an image that reaches
\* anything, except for the temporary of LazyScope::lookup.
DropShape ==
  \A t \in Thread :
    fix[t].lib = None /\ Sliced(cur[t].core) /\ ~Isolated(cur[t].core)
      => cur[t].deps = cur[t].core

DyingShape ==
  \A t \in Thread : dying[t] # None /\ Sliced(dying[t]) /\ ~Isolated(dying[t])
    => cur[t].deps = dying[t]

\* dl_fixup runs on behalf of an image that is called or initialised, and
\* handles only libraries of its lazy scope.
FixJob ==
  \A t \in Thread : fix[t].lib # None =>
    /\ job[t].op \in {"call", "init"} /\ fix[t].lib = job[t].lib
    /\ Sliced(fix[t].lib)

FixLibs ==
  \A t \in Thread : fix[t].lib # None =>
    /\ fix[t].cand \subseteq weak[fix[t].lib]
    /\ fix[t].hit # None => fix[t].hit \in weak[fix[t].lib]
    /\ cur[t].core # None => cur[t].core \in weak[fix[t].lib]

FixQuiet ==
  \A t \in Thread :
    /\ fix[t].lib # None => cur[t].deps = None /\ dying[t] = None /\ drain[t] = <<>>
    /\ fix[t].lib = None => fix[t] = NoFix

\* Only dynamic images are bound lazily.
LazySliced == \A l \in Lib : l \in lazy \/ weak[l] # {} => Sliced(l)

\* Who owns images and slices.
OwnParts ==
  /\ HeldUsable /\ MappedOwned /\ OneDropper /\ DyingMapped /\ LoadedFirst
  /\ SlicesLoaded

\* The shapes of the handles in the places that own them.
ShapeParts ==
  /\ VarShapes /\ ScopeShapes /\ DepsShapes

\* What the thread inside a call works on.
JobParts ==
  /\ CallJob /\ MovingJob /\ OneJob /\ JobImage /\ BindQuiet
  /\ UnscopeShape /\ ScopeIdle

\* What images reach, and who keeps it.
CoverParts ==
  /\ Unique /\ RawUnbound /\ JobUnbound /\ ScopeCovers /\ SliceCovers
  /\ NoSliceYet /\ DrainFree /\ DrainOld

\* Drops and lazy bindings in progress.
DropParts ==
  /\ DropShape /\ DyingShape /\ FixJob /\ FixLibs /\ FixQuiet
  /\ LazySliced

\* The inductive invariant.
Parts == OwnParts /\ ShapeParts /\ JobParts /\ CoverParts /\ DropParts

-----------------------------------------------------------------------------
(* Type correctness *)

\* A thread inside a call works on a variable and an image, and a value of
\* the program owns an image.
Owners ==
  /\ \A t \in Thread : job[t].op # "none" => job[t].v \in Var /\ job[t].lib \in Lib
  /\ \A v \in Var : var[v].kind \in {"raw", "core", "loaded"} => var[v].core \in Lib
  /\ \A t \in Thread : Cores(scope[t]) \subseteq Lib

TypeInv == TypeOK /\ Owners

\* The initial state is well typed.
LEMMA TypeInit == Init => TypeInv
  BY ConstantsAssumption DEF Init, TypeInv, TypeOK, Owners, NoHandle, NoJob, NoFix,
     Handle, Kind, Cores, Job, Fix

\* Every step keeps the types, whatever the program does with ElfCores.
LEMMA TypeStep == TypeInv /\ [Next]_vars => TypeInv'
  <1> SUFFICES ASSUME TypeInv, [Next]_vars PROVE TypeInv'
    OBVIOUS
  <1>a. /\ deps \in [Lib -> SUBSET Handle] /\ var \in [Var -> Handle]
        /\ scope \in [Thread -> SUBSET Handle] /\ cur \in [Thread -> Handle]
    BY DEF TypeInv, TypeOK
  <1>b. finis \in [Lib -> Nat]
    BY DEF TypeInv, TypeOK
  <1>c. dying \in [Thread -> Lib \cup {None}]
    BY DEF TypeInv, TypeOK
  <1>d. drain \in [Thread -> Seq(Lib)]
    BY DEF TypeInv, TypeOK
  <1>e. fix \in [Thread -> Fix]
    BY DEF TypeInv, TypeOK
  <1>f. Owners
    BY DEF TypeInv
  <1>1. ASSUME NEW v \in Var, NEW l \in Lib, Load(v, l) PROVE TypeInv'
    BY ConstantsAssumption, <1>1 DEF Load, image, Handle, Kind, NoHandle, TypeInv, TypeOK, Owners, Job, Fix
  <1>2. ASSUME NEW v \in Var, NEW w \in Var, Clone(v, w) PROVE TypeInv'
    BY ConstantsAssumption, <1>2 DEF Clone, image, TypeInv, TypeOK, Owners, Job, Fix
  <1>3. ASSUME NEW v \in Var, NEW w \in Var, CloneCore(v, w) PROVE TypeInv'
    BY ConstantsAssumption, <1>3 DEF CloneCore, image, As, Handle, Kind, NoHandle, TypeInv, TypeOK, Owners, Job, Fix
  <1>4. ASSUME NEW t \in Thread, NEW v \in Var, Call(t, v) PROVE TypeInv'
    BY ConstantsAssumption, <1>4 DEF Call, image, TypeInv, TypeOK, Owners, Job, Fix
  <1>5. ASSUME NEW t \in Thread, NEW v \in Var, Drop(t, v) PROVE TypeInv'
    BY ConstantsAssumption, <1>5 DEF Drop, image, Handle, Kind, NoHandle, TypeInv, TypeOK, Owners, Job, Fix
  <1>6. ASSUME NEW t \in Thread, NEW v \in Var, NEW ws \in SUBSET Var, NEW op \in {"bind", "unscope"}, StartRelocate(t, v, ws, op)
        PROVE TypeInv'
    <2>1. \A w \in ws : w \in Var
      OBVIOUS
    <2>2. {var[w] : w \in ws} \subseteq Handle /\ Cores({var[w] : w \in ws}) \subseteq Lib
      BY <1>6, <1>a, <1>f, <2>1 DEF StartRelocate, Cores, Owners
    <2>3. from_core(var[v].core) \in Handle /\ var[v].core \in Lib
      BY ConstantsAssumption, <1>6 DEF StartRelocate, from_core, Handle, Kind, TypeInv, TypeOK, Owners, Job, Fix
    <2>4. var' \in [Var -> Handle] /\ var'[v] = from_core(var[v].core)
      BY ConstantsAssumption, <1>6, <2>3 DEF StartRelocate, TypeInv, TypeOK, Owners, Job, Fix
    <2>5. scope' \in [Thread -> SUBSET Handle]
          /\ \A u \in Thread : Cores(scope'[u]) \subseteq Lib
      BY ConstantsAssumption, <1>6, <2>2 DEF StartRelocate, TypeInv, TypeOK, Owners, Job, Fix
    <2>6. \A u \in Var : var'[u].kind \in {"raw", "core", "loaded"} => var'[u].core \in Lib
      BY ConstantsAssumption, <1>6, <2>3 DEF StartRelocate, from_core, TypeInv, TypeOK, Owners, Job, Fix
    <2> QED
      BY ConstantsAssumption, <1>6, <2>3, <2>4, <2>5, <2>6 DEF StartRelocate, image, TypeInv, TypeOK, Owners, Job, Fix
  <1>7. ASSUME NEW t \in Thread, Return(t) PROVE TypeInv'
    BY ConstantsAssumption, <1>7 DEF Return, image, NoJob, TypeInv, TypeOK, Owners, Job, Fix
  <1>8. ASSUME NEW t \in Thread, Fixup(t) PROVE TypeInv'
    BY ConstantsAssumption, <1>8 DEF Fixup, image, TypeInv, TypeOK, Owners, Job, Fix
  <1>9. ASSUME NEW t \in Thread, NEW l \in Lib, NEW B \in SUBSET Cores(scope[t]), NEW W \in SUBSET Cores(scope[t]), job[t].op = "bind", lazy' \subseteq Lib, BindAs(t, l, B, W)
        PROVE TypeInv'
    <2>1. bound' \in [Lib -> SUBSET Lib] /\ weak' \in [Lib -> SUBSET Lib]
      BY ConstantsAssumption, <1>9 DEF BindAs, TypeInv, TypeOK, Owners, Job, Fix
    <2>2. isInit' \subseteq Lib /\ flags' \in [Thread -> SUBSET Lib]
      BY ConstantsAssumption, <1>9 DEF BindAs, TypeInv, TypeOK, Owners, Job, Fix
    <2> QED
      BY ConstantsAssumption, <1>9, <2>1, <2>2 DEF BindAs, Stage, TypeInv, TypeOK, Owners, Job, Fix
  <1>10. ASSUME NEW t \in Thread, BindFails(t) PROVE TypeInv'
    <2>1. var[job[t].v] \in Handle /\ Moved \in Handle
      BY ConstantsAssumption, <1>10 DEF BindFails, Moved, Handle, Kind, TypeInv, TypeOK, Owners, Job, Fix
    <2> QED
      BY ConstantsAssumption, <1>10, <2>1 DEF BindFails, DroppedOnError, Stage, image, Moved, TypeInv, TypeOK, Owners, Job, Fix
  <1>11. ASSUME NEW t \in Thread, Collect(t) PROVE TypeInv'
    <2>1. job[t].lib \in Lib /\ job[t].v \in Var
      BY ConstantsAssumption, <1>11 DEF Collect, TypeInv, TypeOK, Owners, Job, Fix
    <2>2. from_core(job[t].lib) \in Handle /\ from_core_deps(job[t].lib) \in Handle
      BY ConstantsAssumption, <2>1 DEF from_core, from_core_deps, Handle, Kind, TypeInv, TypeOK, Owners, Job, Fix
    <2>3. CollectedDeps(t, job[t].lib) \in SUBSET Handle
      BY <1>a DEF CollectedDeps
    <2>4. \A u \in Var : var'[u].kind \in {"raw", "core", "loaded"} => var'[u].core \in Lib
      BY <1>11, <1>a, <1>f, <2>1 DEF Collect, from_core, from_core_deps, Owners
    <2>5. deps' \in [Lib -> SUBSET Handle]
      BY <1>11, <1>a, <2>3 DEF Collect
    <2>6. var' \in [Var -> Handle]
      BY <1>11, <1>a, <2>2 DEF Collect
    <2> QED
      BY ConstantsAssumption, <1>11, <2>1, <2>4, <2>5, <2>6 DEF Collect, Stage, image, TypeInv, TypeOK, Owners, Job, Fix
  <1>12. ASSUME NEW t \in Thread, Unscope(t) PROVE TypeInv'
    BY ConstantsAssumption, <1>12 DEF Unscope, Cores, image, TypeInv, TypeOK, Owners, Job, Fix
  <1>13. ASSUME NEW t \in Thread, Relocated(t) PROVE TypeInv'
    <2>1. As(var[job[t].v], "loaded") \in Handle /\ NoHandle \in Handle
      BY ConstantsAssumption, <1>13 DEF Relocated, As, NoHandle, Handle, Kind, TypeInv, TypeOK, Owners, Job, Fix
    <2>2. \A u \in Var : var'[u].kind \in {"raw", "core", "loaded"} => var'[u].core \in Lib
      BY ConstantsAssumption, <1>13 DEF Relocated, As, NoHandle, Handle, TypeInv, TypeOK, Owners, Job, Fix
    <2> QED
      BY ConstantsAssumption, <1>13, <2>1, <2>2 DEF Relocated, NoJob, image, TypeInv, TypeOK, Owners, Job, Fix
  <1>14. ASSUME NEW t \in Thread, FixupLookup(t) PROVE TypeInv'
    <2>1. \A a \in Lib : from_core(a) \in Handle
      BY DEF from_core, Handle, Kind
    <2>2. cur' \in [Thread -> Handle]
      BY <1>14, <1>a, <1>e, <2>1 DEF FixupLookup, Fix
    <2>3. fix' \in [Thread -> Fix]
      BY <1>14, <1>e DEF FixupLookup, Fix
    <2> QED
      BY ConstantsAssumption, <1>14, <2>2, <2>3 DEF FixupLookup, image, TypeInv, TypeOK, Owners, Job, Fix
  <1>15. ASSUME NEW t \in Thread, FixupWrite(t) PROVE TypeInv'
    <2>1. fix' \in [Thread -> Fix]
      BY <1>15, <1>e DEF FixupWrite, NoFix, Fix
    <2>2. bound' \in [Lib -> SUBSET Lib]
      BY ZenonT(60), <1>15, <1>e DEF FixupWrite, Fix, TypeInv, TypeOK
    <2> QED
      BY SMTT(30), ConstantsAssumption, <1>15, <2>1, <2>2 DEF FixupWrite, TypeInv, TypeOK, Owners, Job, Fix
  <1>16. ASSUME NEW t \in Thread, FixupAbort(t) PROVE TypeInv'
    BY ConstantsAssumption, <1>16 DEF FixupAbort, image, TypeInv, TypeOK, Owners, Job, Fix
  <1>17. ASSUME NEW t \in Thread, ReleaseCore(t) PROVE TypeInv'
    <2>1. cur[t].core \in Lib /\ FiniRuns(cur[t].core) \in Nat
      BY ConstantsAssumption, <1>17 DEF ReleaseCore, FiniRuns, Handle, TypeInv, TypeOK, Owners, Job, Fix
    <2>2. OnlyDeps(cur[t]) \in Handle
      BY <1>a DEF OnlyDeps, Handle, Kind
    <2>3. finis' \in [Lib -> Nat]
      BY SMTT(30), <1>17, <1>b, <2>1 DEF ReleaseCore
    <2>4. dying' \in [Thread -> Lib \cup {None}]
      BY <1>17, <1>c, <2>1 DEF ReleaseCore
    <2>5. cur' \in [Thread -> Handle]
      BY <1>17, <1>a, <2>2 DEF ReleaseCore
    <2> QED
      BY ConstantsAssumption, <1>17, <2>3, <2>4, <2>5 DEF ReleaseCore, TypeInv, TypeOK, Owners, Job, Fix
  <1>18. ASSUME NEW t \in Thread, Unmap(t) PROVE TypeInv'
    BY ConstantsAssumption, <1>18 DEF Unmap, TypeInv, TypeOK, Owners, Job, Fix
  <1>19. ASSUME NEW t \in Thread, ReleaseDeps(t) PROVE TypeInv'
    <2>1. cur[t].deps \in Lib /\ NoHandle \in Handle
      BY ConstantsAssumption, <1>19 DEF ReleaseDeps, NoHandle, Handle, Kind, TypeInv, TypeOK, Owners, Job, Fix
    <2>2. <<cur[t].deps>> \o drain[t] \in Seq(Lib)
      BY SMTT(30), <1>d, <2>1
    <2>3. drain' \in [Thread -> Seq(Lib)]
      BY <1>19, <1>d, <2>2 DEF ReleaseDeps
    <2>4. cur' \in [Thread -> Handle]
      BY <1>19, <1>a, <2>1 DEF ReleaseDeps
    <2> QED
      BY ConstantsAssumption, <1>19, <2>3, <2>4 DEF ReleaseDeps, image, TypeInv, TypeOK, Owners, Job, Fix
  <1>20. ASSUME NEW t \in Thread, DrainDeps(t) PROVE TypeInv'
    BY ConstantsAssumption, <1>20 DEF DrainDeps, image, TypeInv, TypeOK, Owners, Job, Fix
  <1>21. ASSUME NEW t \in Thread, FreeSlice(t) PROVE TypeInv'
    BY ConstantsAssumption, <1>21 DEF FreeSlice, LeaveSlice, image, TypeInv, TypeOK, Owners, Job, Fix
  <1>22. CASE UNCHANGED vars
    BY ConstantsAssumption, <1>22 DEF vars, Cores, TypeInv, TypeOK, Owners, Job, Fix
  <1>23. ASSUME NEW t \in Thread, BindNow(t) \/ BindLazy(t) PROVE TypeInv'
    <2>1. job[t].lib \in Lib
      BY ConstantsAssumption, <1>23 DEF BindNow, BindLazy, TypeInv, TypeOK, Owners, Job, Fix
    <2>2. CASE BindNow(t)
      <3>1. PICK B \in SUBSET Cores(scope[t]) : BindAs(t, job[t].lib, B, {})
        BY ConstantsAssumption, <2>2 DEF BindNow, TypeInv, TypeOK, Owners, Job, Fix
      <3>2. lazy' \subseteq Lib /\ job[t].op = "bind"
        BY <2>2 DEF BindNow, TypeInv, TypeOK
      <3>3. {} \in SUBSET Cores(scope[t])
        OBVIOUS
      <3> QED
        BY <1>9, <2>1, <3>1, <3>2, <3>3
    <2>3. CASE BindLazy(t)
      <3> DEFINE W == Cores(scope[t]) \cap Needed[job[t].lib]
      <3>1. PICK B \in SUBSET Cores(scope[t]) : BindAs(t, job[t].lib, B, W)
        BY ConstantsAssumption, <2>3 DEF BindLazy, TypeInv, TypeOK, Owners, Job, Fix
      <3>2. lazy' \subseteq Lib /\ job[t].op = "bind"
        BY <2>1, <2>3 DEF BindLazy, TypeInv, TypeOK
      <3>3. W \in SUBSET Cores(scope[t])
        OBVIOUS
      <3> HIDE DEF W
      <3> QED
        BY <1>9, <2>1, <3>1, <3>2, <3>3
    <2> QED
      BY <1>23, <2>2, <2>3
  <1> QED
    BY <1>1, <1>2, <1>3, <1>4, <1>5, <1>6, <1>7, <1>8, <1>10, <1>11, <1>12, <1>13, <1>14, <1>15, <1>16, <1>17, <1>18, <1>19, <1>20, <1>21, <1>22, <1>23
    DEF Next, Internal, Relocate, RelocateEmpty

\* TypeOK holds in every reachable state, for any set of images, variables
\* and threads.
THEOREM TypeCorrect == Spec => []TypeOK
  <1>1. TypeInv => TypeOK
    BY DEF TypeInv
  <1> QED
    BY TypeInit, TypeStep, <1>1, PTL DEF Spec

-----------------------------------------------------------------------------
(* What the steps of the safety proofs share *)

Slices == Seq(Lib)

\* The types the steps below rely on, with the sets of records closed.
PlaceTypes ==
  /\ var \in [Var -> Handle] /\ cur \in [Thread -> Handle]
  /\ scope \in [Thread -> SUBSET Handle] /\ deps \in [Lib -> SUBSET Handle]

JobTypes ==
  /\ job \in [Thread -> Job]
  /\ \A t \in Thread : job[t].op # "none" => job[t].v \in Var /\ job[t].lib \in Lib

DropTypes ==
  /\ fix \in [Thread -> Fix]
  /\ dying \in [Thread -> Lib \cup {None}] /\ drain \in [Thread -> Slices]

ImageTypes ==
  /\ bound \in [Lib -> SUBSET Lib] /\ weak \in [Lib -> SUBSET Lib]
  /\ flags \in [Thread -> SUBSET Lib] /\ mapped \subseteq Lib /\ loaded \subseteq Lib

EmptyValues ==
  /\ None \notin Lib /\ NoJob.op = "none" /\ NoFix.lib = None /\ NoFix.hit = None
  /\ NoHandle.core = None /\ NoHandle.deps = None /\ NoHandle.kind = "empty"
  /\ Moved.core = None /\ Moved.deps = None /\ Moved.kind = "moving"

Types == PlaceTypes /\ JobTypes /\ DropTypes /\ ImageTypes /\ EmptyValues

\* Reachable states have these types.
LEMMA TypesHold == TypeInv => Types
  BY ConstantsAssumption
  DEF TypeInv, TypeOK, Types, PlaceTypes, JobTypes, DropTypes, ImageTypes,
      EmptyValues, Owners, Slices, NoHandle, NoJob, NoFix, Moved

\* The places that own references, before and after a step.
LEMMA HandlePlaces ==
  /\ \A h : h \in Handles <=> \/ \E v \in Var : h = var[v]
                              \/ \E t \in Thread : h = cur[t]
                              \/ \E t \in Thread : h \in scope[t]
                              \/ \E l \in Lib : h \in deps[l]
  /\ \A h : h \in Handles' <=> \/ \E v \in Var : h = var'[v]
                               \/ \E t \in Thread : h = cur'[t]
                               \/ \E t \in Thread : h \in scope'[t]
                               \/ \E l \in Lib : h \in deps'[l]
  BY Zenon DEF Handles

\* Who keeps image c alive.
CoreAt(c) ==
  \/ \E v \in Var : var[v].core = c
  \/ \E t \in Thread : cur[t].core = c
  \/ \E t \in Thread : \E h \in scope[t] : h.core = c
  \/ \E l \in Lib : \E h \in deps[l] : h.core = c

\* Who keeps the deps slice of image c alive.
SliceAt(c) ==
  \/ \E v \in Var : var[v].deps = c
  \/ \E t \in Thread : cur[t].deps = c
  \/ \E t \in Thread : \E h \in scope[t] : h.deps = c
  \/ \E l \in Lib : \E h \in deps[l] : h.deps = c

\* An image is alive while one of these places owns it.
LEMMA CoreOwners ==
  /\ \A c : CoreHeld(c) <=> CoreAt(c)
  /\ \A c : CoreHeld(c)' <=> CoreAt(c)'
  <1>1. ASSUME NEW c, CoreHeld(c) PROVE CoreAt(c)
    <2>1. PICK h \in Handles : h.core = c
      BY Zenon, <1>1 DEF CoreHeld
    <2> QED
      BY Zenon, <2>1, HandlePlaces DEF CoreAt
  <1>2. ASSUME NEW c, CoreAt(c) PROVE CoreHeld(c)
    BY Zenon, <1>2, HandlePlaces DEF CoreHeld, CoreAt
  <1>3. ASSUME NEW c, CoreHeld(c)' PROVE CoreAt(c)'
    <2>1. PICK h \in Handles' : h.core = c
      BY Zenon, <1>3 DEF CoreHeld
    <2> QED
      BY Zenon, <2>1, HandlePlaces DEF CoreAt
  <1>4. ASSUME NEW c, CoreAt(c)' PROVE CoreHeld(c)'
    BY Zenon, <1>4, HandlePlaces DEF CoreHeld, CoreAt
  <1> QED
    BY Zenon, <1>1, <1>2, <1>3, <1>4

\* So is a deps slice.
LEMMA SliceOwners ==
  /\ \A c : SliceHeld(c) <=> SliceAt(c)
  /\ \A c : SliceHeld(c)' <=> SliceAt(c)'
  <1>1. ASSUME NEW c, SliceHeld(c) PROVE SliceAt(c)
    <2>1. PICK h \in Handles : h.deps = c
      BY Zenon, <1>1 DEF SliceHeld
    <2> QED
      BY Zenon, <2>1, HandlePlaces DEF SliceAt
  <1>2. ASSUME NEW c, SliceAt(c) PROVE SliceHeld(c)
    BY Zenon, <1>2, HandlePlaces DEF SliceHeld, SliceAt
  <1>3. ASSUME NEW c, SliceHeld(c)' PROVE SliceAt(c)'
    <2>1. PICK h \in Handles' : h.deps = c
      BY Zenon, <1>3 DEF SliceHeld
    <2> QED
      BY Zenon, <2>1, HandlePlaces DEF SliceAt
  <1>4. ASSUME NEW c, SliceAt(c)' PROVE SliceHeld(c)'
    BY Zenon, <1>4, HandlePlaces DEF SliceHeld, SliceAt
  <1> QED
    BY Zenon, <1>1, <1>2, <1>3, <1>4

\* Every place that owns a reference is counted.
LEMMA Places ==
  /\ \A v \in Var : CoreHeld(var[v].core) /\ SliceHeld(var[v].deps)
  /\ \A t \in Thread : CoreHeld(cur[t].core) /\ SliceHeld(cur[t].deps)
  /\ \A t \in Thread : \A h \in scope[t] : CoreHeld(h.core) /\ SliceHeld(h.deps)
  /\ \A l \in Lib : \A h \in deps[l] : CoreHeld(h.core) /\ SliceHeld(h.deps)
  BY ZenonT(60), HandlePlaces DEF CoreHeld, SliceHeld

\* What an image in dl_fixup can find is owned by its scope or its slice.
LEMMA Covered ==
  ASSUME Parts, Types, NEW t \in Thread, fix[t].lib # None,
         NEW a \in weak[fix[t].lib]
  PROVE  /\ fix[t].lib \in Lib /\ a \in Lib
         /\ (\E h \in scope[t] : h.core = a) \/ (\E h \in deps[fix[t].lib] : h.core = a)
  <1>g. OwnParts /\ ShapeParts /\ JobParts /\ CoverParts /\ DropParts
    BY DEF Parts
  <1> DEFINE x == fix[t].lib
  <1>1. x \in Lib /\ Sliced(x) /\ x = job[t].lib /\ job[t].op \in {"call", "init"}
    BY <1>g DEF FixJob, Sliced, DropParts
  <1>2. a \in Reach(x) /\ a \in Lib
    BY <1>1 DEF Reach, Types, ImageTypes
  <1>3. CASE job[t].op = "call"
    <2>1. Full(var[job[t].v]) /\ var[job[t].v].core = x /\ job[t].v \in Var
      BY <1>1, <1>3, <1>g
         DEF CallJob, VarShapes, Types, JobTypes, EmptyValues, Raw, JobParts, ShapeParts
    <2>2. var[job[t].v].deps = x
      BY <1>1, <2>1 DEF Full
    <2>3. SliceHeld(x)
      BY <2>1, <2>2, Places
    <2> QED
      BY <1>1, <1>2, <2>3, <1>g DEF SliceCovers, Cores, CoverParts
  <1>4. CASE job[t].op = "init"
    BY <1>1, <1>2, <1>4, <1>g DEF ScopeCovers, Cores, CoverParts
  <1> QED
    BY <1>1, <1>2, <1>3, <1>4

\* The elements of a stack of slices with one more on top.
LEMMA Pushed ==
  ASSUME NEW s \in Lib, NEW q \in Seq(Lib), NEW i \in DOMAIN (<<s>> \o q)
  PROVE  (<<s>> \o q)[i] = s \/ \E j \in DOMAIN q : (<<s>> \o q)[i] = q[j]
  <1>1. <<s>> \in Seq(Lib) /\ Len(<<s>>) = 1 /\ <<s>>[1] = s
    OBVIOUS
  <1>2. DOMAIN (<<s>> \o q) = 1..(1 + Len(q)) /\ DOMAIN q = 1..Len(q) /\ Len(q) \in Nat
    BY <1>1
  <1>3. CASE i = 1
    BY <1>1, <1>2, <1>3
  <1>4. CASE i # 1
    <2>1. i \in Nat /\ 1 < i /\ i <= 1 + Len(q) /\ i - 1 \in DOMAIN q
      BY <1>2, <1>4
    <2>2. (<<s>> \o q)[i] = q[i - 1]
      BY <1>1, <1>2, <2>1
    <2> QED
      BY <2>1, <2>2
  <1> QED
    BY <1>3, <1>4

\* A step that leaves the variables a conjunct reads alone preserves it.
LEMMA Frame ==
  ASSUME Parts
  PROVE  /\ UNCHANGED <<var, cur, scope, deps, mapped, dying>> => HeldUsable'
         /\ UNCHANGED <<var, cur, scope, deps, mapped, dying>> => MappedOwned'
         /\ UNCHANGED <<dying>> => OneDropper'
         /\ UNCHANGED <<var, cur, scope, deps, dying, mapped>> => DyingMapped'
         /\ UNCHANGED <<mapped, loaded, bound, weak>> => LoadedFirst'
         /\ UNCHANGED <<var, cur, scope, deps, loaded>> => SlicesLoaded'
         /\ UNCHANGED <<var>> => VarShapes'
         /\ UNCHANGED <<scope>> => ScopeShapes'
         /\ UNCHANGED <<deps>> => DepsShapes'
         /\ UNCHANGED <<job, var>> => CallJob'
         /\ UNCHANGED <<job, var>> => MovingJob'
         /\ UNCHANGED <<job>> => OneJob'
         /\ UNCHANGED <<job, var>> => JobImage'
         /\ UNCHANGED <<job, cur, drain, dying>> => BindQuiet'
         /\ UNCHANGED <<job, var>> => UnscopeShape'
         /\ UNCHANGED <<job, scope>> => ScopeIdle'
         /\ UNCHANGED <<var, cur, scope, deps>> => Unique'
         /\ UNCHANGED <<var, bound, weak>> => RawUnbound'
         /\ UNCHANGED <<job, bound, weak>> => JobUnbound'
         /\ UNCHANGED <<job, bound, weak, scope, flags>> => ScopeCovers'
         /\ UNCHANGED <<var, cur, scope, deps, bound, weak>> => SliceCovers'
         /\ UNCHANGED <<var, cur, scope, deps, loaded>> => NoSliceYet'
         /\ UNCHANGED <<var, cur, scope, deps, drain, loaded>> => DrainFree'
         /\ UNCHANGED <<drain, var>> => DrainOld'
         /\ UNCHANGED <<fix, cur, bound, weak>> => DropShape'
         /\ UNCHANGED <<dying, bound, weak, cur>> => DyingShape'
         /\ UNCHANGED <<fix, job>> => FixJob'
         /\ UNCHANGED <<fix, weak, cur>> => FixLibs'
         /\ UNCHANGED <<fix, cur, dying, drain>> => FixQuiet'
         /\ UNCHANGED <<lazy, weak>> => LazySliced'
  <1> USE Zenon
  <1>g. OwnParts /\ ShapeParts /\ JobParts /\ CoverParts /\ DropParts
    BY DEF Parts
  <1>s. ASSUME UNCHANGED <<var, cur, scope, deps>>
        PROVE  \A c : (SliceHeld(c)' <=> SliceHeld(c)) /\ (CoreHeld(c)' <=> CoreHeld(c))
    <2>1. Handles' = Handles
      BY <1>s DEF Handles
    <2> QED
      BY <2>1 DEF SliceHeld, CoreHeld
  <1>1. ASSUME UNCHANGED <<var, cur, scope, deps, mapped, dying>> PROVE HeldUsable'
    BY <1>g, <1>1, <1>s DEF OwnParts, HeldUsable, Usable
  <1>2. ASSUME UNCHANGED <<var, cur, scope, deps, mapped, dying>> PROVE MappedOwned'
    BY <1>g, <1>2, <1>s DEF OwnParts, MappedOwned
  <1>3. ASSUME UNCHANGED <<dying>> PROVE OneDropper'
    BY <1>g, <1>3 DEF OwnParts, OneDropper
  <1>4. ASSUME UNCHANGED <<var, cur, scope, deps, dying, mapped>> PROVE DyingMapped'
    BY <1>g, <1>4, <1>s DEF OwnParts, DyingMapped
  <1>5. ASSUME UNCHANGED <<mapped, loaded, bound, weak>> PROVE LoadedFirst'
    BY <1>g, <1>5 DEF OwnParts, LoadedFirst, Isolated, Reach
  <1>6. ASSUME UNCHANGED <<var, cur, scope, deps, loaded>> PROVE SlicesLoaded'
    BY <1>g, <1>6, <1>s DEF OwnParts, SlicesLoaded
  <1>7. ASSUME UNCHANGED <<var>> PROVE VarShapes'
    BY <1>g, <1>7 DEF ShapeParts, VarShapes
  <1>8. ASSUME UNCHANGED <<scope>> PROVE ScopeShapes'
    BY <1>g, <1>8 DEF ShapeParts, ScopeShapes
  <1>9. ASSUME UNCHANGED <<deps>> PROVE DepsShapes'
    BY <1>g, <1>9 DEF ShapeParts, DepsShapes
  <1>10. ASSUME UNCHANGED <<job, var>> PROVE CallJob'
    BY <1>g, <1>10 DEF JobParts, CallJob
  <1>11. ASSUME UNCHANGED <<job, var>> PROVE MovingJob'
    BY <1>g, <1>11 DEF JobParts, MovingJob, InRelocate
  <1>12. ASSUME UNCHANGED <<job>> PROVE OneJob'
    BY <1>g, <1>12 DEF JobParts, OneJob, InRelocate
  <1>13. ASSUME UNCHANGED <<job, var>> PROVE JobImage'
    BY <1>g, <1>13 DEF JobParts, JobImage, Relocating
  <1>14. ASSUME UNCHANGED <<job, cur, drain, dying>> PROVE BindQuiet'
    BY <1>g, <1>14 DEF JobParts, BindQuiet, NotDropping
  <1>15. ASSUME UNCHANGED <<job, var>> PROVE UnscopeShape'
    BY <1>g, <1>15 DEF JobParts, UnscopeShape
  <1>16. ASSUME UNCHANGED <<job, scope>> PROVE ScopeIdle'
    BY <1>g, <1>16 DEF JobParts, ScopeIdle, InRelocate
  <1>17. ASSUME UNCHANGED <<var, cur, scope, deps>> PROVE Unique'
    BY <1>g, <1>17, <1>s DEF CoverParts, Unique, Fresh
  <1>18. ASSUME UNCHANGED <<var, bound, weak>> PROVE RawUnbound'
    BY <1>g, <1>18 DEF CoverParts, RawUnbound, Isolated, Reach
  <1>19. ASSUME UNCHANGED <<job, bound, weak>> PROVE JobUnbound'
    BY <1>g, <1>19 DEF CoverParts, JobUnbound, Isolated, Reach, Relocating
  <1>20. ASSUME UNCHANGED <<job, bound, weak, scope, flags>> PROVE ScopeCovers'
    BY <1>g, <1>20 DEF CoverParts, ScopeCovers, Isolated, Reach
  <1>21. ASSUME UNCHANGED <<var, cur, scope, deps, bound, weak>> PROVE SliceCovers'
    BY <1>g, <1>21, <1>s DEF CoverParts, SliceCovers, Isolated, Reach
  <1>22. ASSUME UNCHANGED <<var, cur, scope, deps, loaded>> PROVE NoSliceYet'
    BY <1>g, <1>22 DEF CoverParts, NoSliceYet, FreshLib, Fresh
  <1>23. ASSUME UNCHANGED <<var, cur, scope, deps, drain, loaded>> PROVE DrainFree'
    BY <1>g, <1>23, <1>s DEF CoverParts, DrainFree
  <1>24. ASSUME UNCHANGED <<drain, var>> PROVE DrainOld'
    BY <1>g, <1>24 DEF CoverParts, DrainOld, FreshLib, Fresh
  <1>25. ASSUME UNCHANGED <<fix, cur, bound, weak>> PROVE DropShape'
    BY <1>g, <1>25 DEF DropParts, DropShape, Isolated, Reach
  <1>26. ASSUME UNCHANGED <<dying, bound, weak, cur>> PROVE DyingShape'
    BY <1>g, <1>26 DEF DropParts, DyingShape, Isolated, Reach
  <1>27. ASSUME UNCHANGED <<fix, job>> PROVE FixJob'
    BY <1>g, <1>27 DEF DropParts, FixJob
  <1>28. ASSUME UNCHANGED <<fix, weak, cur>> PROVE FixLibs'
    BY <1>g, <1>28 DEF DropParts, FixLibs
  <1>29. ASSUME UNCHANGED <<fix, cur, dying, drain>> PROVE FixQuiet'
    BY <1>g, <1>29 DEF DropParts, FixQuiet
  <1>30. ASSUME UNCHANGED <<lazy, weak>> PROVE LazySliced'
    BY <1>g, <1>30 DEF DropParts, LazySliced
  <1> QED
    BY <1>1, <1>2, <1>3, <1>4, <1>5, <1>6, <1>7, <1>8, <1>9, <1>10, <1>11, <1>12,
       <1>13, <1>14, <1>15, <1>16, <1>17, <1>18, <1>19, <1>20, <1>21, <1>22, <1>23,
       <1>24, <1>25, <1>26, <1>27, <1>28, <1>29, <1>30

=============================================================================
