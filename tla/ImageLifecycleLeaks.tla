------------------------- MODULE ImageLifecycleLeaks ------------------------
(***************************************************************************)
(* NoLeak and FinalisedOnce are invariants of every program, the ones that *)
(* keep ElfCore clones included.  The invariant says of every reference    *)
(* who owns it: none is lost when a value is overwritten, and deps slices  *)
(* that keep one another alive do not form a cycle, because a slice is     *)
(* built when nobody can own it yet and only shrinks from then on.         *)
(***************************************************************************)
EXTENDS ImageLifecycleProofs

\* Variable v owns an image whose deps slice may still be built.
Unbuilt(v) ==
  \/ var[v].kind = "raw"
  \/ \E t \in Thread : Relocating(t) /\ job[t].v = v

\* The elements of the deps slice of l are being dropped.
Draining(l) == \E t \in Thread : \E i \in DOMAIN drain[t] : drain[t][i] = l

MappedLoaded == mapped \subseteq loaded

\* Finalisers have run if the image was initialised and is gone.
Finalised ==
  \A l \in Lib :
    finis[l] = IF l \in loaded /\ l \in isInit
                  /\ (l \notin mapped \/ \E t \in Thread : dying[t] = l) THEN 1 ELSE 0

\* A relocation works on the image of its variable, which has no slice.
JobOwns ==
  \A t \in Thread : Relocating(t) =>
    var[job[t].v].core = job[t].lib /\ var[job[t].v].deps = None

\* A raw image owns no slice, and neither does a value without an image.
NoSlice ==
  \A v \in Var :
    /\ var[v].kind = "raw" => var[v].core \in Lib
    /\ var[v].kind = "raw" \/ var[v].core = None => var[v].deps = None

\* One variable can build the slice of an image, and nobody has seen it.
UnbuiltOnce ==
  \A v \in Var : Unbuilt(v) =>
    /\ \A w \in Var : Unbuilt(w) /\ var[w].core = var[v].core => w = v
    /\ ~SliceHeld(var[v].core) /\ deps[var[v].core] = {} /\ ~Draining(var[v].core)

SliceLoaded ==
  \A l \in Lib : SliceHeld(l) \/ deps[l] # {} \/ Draining(l) => l \in loaded

\* A slice with elements is owned or, when nobody owns it, being dropped.
SliceOwned ==
  \A l \in Lib :
    /\ deps[l] # {} => SliceHeld(l) \/ Draining(l)
    /\ Draining(l) => ~SliceHeld(l)

\* Among any slices there is one that no element of theirs shares.
Acyclic ==
  \A S \in SUBSET Lib : S # {} =>
    \E l \in S : \A m \in S : \A h \in deps[m] : h.deps # l

ImageParts ==
  /\ HeldUsable /\ MappedOwned /\ OneDropper /\ DyingMapped /\ MappedLoaded
  /\ Finalised

CallParts ==
  MovingJob /\ OneJob /\ JobOwns /\ BindQuiet /\ ScopeIdle /\ NoSlice

SliceParts == UnbuiltOnce /\ SliceLoaded /\ SliceOwned /\ Acyclic

\* The inductive invariant.
Owned == ImageParts /\ CallParts /\ SliceParts

-----------------------------------------------------------------------------
(* What the steps share *)

USE ZenonT(60)

\* A step after which the same images are owned.
LEMMA SameImages ==
  ASSUME ImageParts, Types,
         \A c \in Lib : CoreHeld(c)' <=> CoreHeld(c),
         UNCHANGED <<mapped, dying, loaded, isInit, finis>>,
         \A t \in Thread : dying[t] # None => cur'[t].core = None
  PROVE  ImageParts'
  <1>1. HeldUsable' BY DEF ImageParts, HeldUsable, Usable
  <1>2. MappedOwned' BY DEF ImageParts, MappedOwned, Types, ImageTypes
  <1>3. OneDropper' BY DEF ImageParts, OneDropper
  <1>4. DyingMapped' BY DEF ImageParts, DyingMapped
  <1>5. MappedLoaded' BY DEF ImageParts, MappedLoaded
  <1>6. Finalised' BY DEF ImageParts, Finalised
  <1> QED
    BY <1>1, <1>2, <1>3, <1>4, <1>5, <1>6 DEF ImageParts

\* A step that changes no value of the program and enters no drop.
LEMMA SameCalls ==
  ASSUME CallParts, UNCHANGED <<var, job, scope>>,
         \A t \in Thread : job[t].op = "bind" => NotDropping(t)'
  PROVE  CallParts'
  <1>1. MovingJob' BY DEF CallParts, MovingJob, InRelocate
  <1>2. OneJob' BY DEF CallParts, OneJob, InRelocate
  <1>3. JobOwns' BY DEF CallParts, JobOwns, Relocating
  <1>4. BindQuiet' BY DEF BindQuiet
  <1>5. ScopeIdle' BY DEF CallParts, ScopeIdle, InRelocate
  <1>6. NoSlice' BY DEF CallParts, NoSlice
  <1> QED
    BY <1>1, <1>2, <1>3, <1>4, <1>5, <1>6 DEF CallParts

\* A step that gives one variable another value, outside of relocate().
LEMMA OtherValue ==
  ASSUME CallParts, Types, NEW w \in Var, UNCHANGED <<job, scope>>,
         \A u \in Var : u # w => var'[u] = var[u],
         var[w].kind # "moving", var'[w].kind # "moving",
         var'[w].kind = "raw" => var'[w].core \in Lib,
         var'[w].kind = "raw" \/ var'[w].core = None => var'[w].deps = None,
         \A t \in Thread : job[t].op = "bind" => NotDropping(t)'
  PROVE  CallParts'
  <1>1. \A t \in Thread : InRelocate(t) => job[t].v \in Var /\ job[t].v # w
    BY DEF CallParts, MovingJob, InRelocate, Types, JobTypes, EmptyValues
  <1>2. \A t \in Thread : (InRelocate(t)' <=> InRelocate(t)) /\ (Relocating(t)' <=> Relocating(t))
    BY DEF InRelocate, Relocating
  <1>3. \A t \in Thread : Relocating(t) => InRelocate(t)
    BY DEF InRelocate, Relocating
  <1>4. MovingJob' BY <1>1, <1>2 DEF CallParts, MovingJob
  <1>5. OneJob' BY <1>2 DEF CallParts, OneJob
  <1>6. JobOwns' BY <1>1, <1>2, <1>3 DEF CallParts, JobOwns
  <1>7. BindQuiet' BY DEF BindQuiet
  <1>8. ScopeIdle' BY <1>2 DEF CallParts, ScopeIdle
  <1>9. NoSlice' BY DEF CallParts, NoSlice
  <1> QED
    BY <1>4, <1>5, <1>6, <1>7, <1>8, <1>9 DEF CallParts

\* The image of a variable that may still build a slice.
LEMMA UnbuiltCore ==
  ASSUME CallParts, Types, NEW v \in Var, Unbuilt(v)
  PROVE  var[v].core \in Lib /\ var[v].deps = None
  BY DEF CallParts, Types, Unbuilt, NoSlice, JobOwns, Relocating, JobTypes

\* A step after which the same slices are owned and dropped.
LEMMA SameSlices ==
  ASSUME SliceParts, CallParts, Types,
         \A c \in Lib : SliceHeld(c)' <=> SliceHeld(c),
         \A c \in Lib : Draining(c)' <=> Draining(c),
         UNCHANGED <<deps, loaded>>,
         \A v \in Var : Unbuilt(v)' => Unbuilt(v) /\ var'[v].core = var[v].core
  PROVE  SliceParts'
  <1>1. \A v \in Var : Unbuilt(v) => var[v].core \in Lib
    BY UnbuiltCore
  <1>2. UnbuiltOnce' BY <1>1 DEF SliceParts, UnbuiltOnce
  <1>3. SliceLoaded' BY DEF SliceParts, SliceLoaded
  <1>4. SliceOwned' BY DEF SliceParts, SliceOwned
  <1>5. Acyclic' BY DEF SliceParts, Acyclic
  <1> QED
    BY <1>2, <1>3, <1>4, <1>5 DEF SliceParts

\* A stack of slices with one more on top keeps the others.
LEMMA PushedKeeps ==
  ASSUME NEW s \in Lib, NEW q \in Seq(Lib)
  PROVE  /\ 1 \in DOMAIN (<<s>> \o q) /\ (<<s>> \o q)[1] = s
         /\ \A j \in DOMAIN q : /\ j + 1 \in DOMAIN (<<s>> \o q)
                               /\ (<<s>> \o q)[j + 1] = q[j]
  <1>1. <<s>> \in Seq(Lib) /\ Len(<<s>>) = 1 /\ <<s>>[1] = s
    BY SMTT(30)
  <1>2. DOMAIN (<<s>> \o q) = 1..(1 + Len(q)) /\ DOMAIN q = 1..Len(q) /\ Len(q) \in Nat
    BY SMTT(30), <1>1
  <1>3. (<<s>> \o q)[1] = s
    BY SMTT(30), <1>1, <1>2
  <1>4. ASSUME NEW j \in DOMAIN q PROVE (<<s>> \o q)[j + 1] = q[j]
    <2>1. j \in Nat /\ 1 <= j /\ j <= Len(q)
      BY SMTT(30), <1>2
    <2> QED
      BY SMTT(30), <1>1, <1>2, <2>1
  <1> QED
    BY SMTT(30), <1>2, <1>3, <1>4

\* A step that owns the same references and drops the same slices.
LEMMA SameOwners ==
  ASSUME UNCHANGED <<var, cur, scope, deps, drain>>
  PROVE  /\ \A c \in Lib : CoreHeld(c)' <=> CoreHeld(c)
         /\ \A c \in Lib : SliceHeld(c)' <=> SliceHeld(c)
         /\ \A c \in Lib : Draining(c)' <=> Draining(c)
  BY DEF CoreHeld, SliceHeld, Handles, Draining

-----------------------------------------------------------------------------
(* Operations of the program *)

\* A new image: nobody owns it or its slice.
LEMMA LoadOwned ==
  ASSUME Owned, TypeInv, NEW v \in Var, NEW l \in Lib, Load(v, l)
  PROVE  Owned'
  <1>t. Types
    BY TypesHold
  <1>g. ImageParts /\ CallParts /\ SliceParts
    BY DEF Owned
  <1>w. \A u \in Var : var'[u] = IF u = v THEN [kind |-> "raw", core |-> l, deps |-> None]
                                  ELSE var[u]
    BY <1>t DEF Types, PlaceTypes, Load
  <1>i. /\ UNCHANGED <<isInit, finis, deps, job, scope, cur, drain, dying>>
        /\ l \notin loaded /\ var[v] = NoHandle
        /\ loaded' = loaded \cup {l} /\ mapped' = mapped \cup {l}
    BY DEF Load
  <1>h. \A c \in Lib : CoreHeld(c)' <=> CoreHeld(c) \/ c = l
    BY SMTT(30), <1>t DEF Types, CoreHeld, Handles, PlaceTypes, EmptyValues, Load
  <1>s. \A c \in Lib : SliceHeld(c)' <=> SliceHeld(c)
    BY SMTT(30), <1>t DEF Types, SliceHeld, Handles, EmptyValues, Load
  <1>d. \A c \in Lib : Draining(c)' <=> Draining(c)
    BY DEF Draining, Load
  <1>n. /\ ~CoreHeld(l) /\ ~SliceHeld(l) /\ deps[l] = {} /\ ~Draining(l)
        /\ \A t \in Thread : dying[t] # l
        /\ \A u \in Var : var[u].core # l
    BY <1>t, <1>i, <1>g, Places
       DEF ImageParts, HeldUsable, Usable, MappedLoaded, DyingMapped, SliceParts, SliceLoaded,
           Types, EmptyValues
  <1>b. \A u \in Var : Unbuilt(u)' =>
          IF u = v THEN var'[u].core = l ELSE Unbuilt(u) /\ var'[u].core = var[u].core
    BY SMTT(30), <1>i, <1>w DEF Unbuilt, Relocating
  <1>1. HeldUsable' BY <1>t, <1>i, <1>h, <1>n, <1>g DEF HeldUsable, Usable, ImageParts
  <1>2. MappedOwned' BY <1>t, <1>i, <1>h, <1>g DEF MappedOwned, ImageParts, Types, ImageTypes
  <1>3. OneDropper' BY <1>i, <1>g DEF OneDropper, ImageParts
  <1>4. DyingMapped' BY <1>i, <1>g DEF DyingMapped, ImageParts
  <1>5. MappedLoaded' BY <1>i, <1>g DEF MappedLoaded, ImageParts
  <1>6. Finalised' BY <1>i, <1>n, <1>g DEF Finalised, ImageParts
  <1>7. CallParts'
    BY SMTT(30), <1>t, <1>i, <1>w, <1>g, OtherValue
       DEF CallParts, BindQuiet, NotDropping, Types, EmptyValues
  <1>13. UnbuiltOnce'
    <2>1. \A u \in Var : Unbuilt(u) => var[u].core \in Lib
      BY <1>t, <1>g, UnbuiltCore
    <2> QED
      BY SMTT(30), <1>i, <1>b, <1>s, <1>d, <1>n, <2>1, <1>g DEF UnbuiltOnce, SliceParts
  <1>14. SliceLoaded' BY <1>i, <1>s, <1>d, <1>g DEF SliceLoaded, SliceParts
  <1>15. SliceOwned' BY <1>i, <1>s, <1>d, <1>g DEF SliceOwned, SliceParts
  <1>16. Acyclic' BY <1>i, <1>g DEF Acyclic, SliceParts
  <1> QED
    BY <1>1, <1>2, <1>3, <1>4, <1>5, <1>6, <1>7, <1>13, <1>14, <1>15, <1>16
       DEF Owned, ImageParts, SliceParts

\* A variable w that owned nothing gets references somebody owns: a clone
\* of a LoadedCore or an ElfCore.
LEMMA CloneOwned ==
  ASSUME Owned, TypeInv, NEW v \in Var, NEW w \in Var, Clone(v, w) \/ CloneCore(v, w)
  PROVE  Owned'
  <1>t. Types
    BY TypesHold
  <1>g. ImageParts /\ CallParts /\ SliceParts
    BY DEF Owned
  <1>i. /\ UNCHANGED <<loaded, mapped, isInit, finis, deps, job, scope, cur, drain, dying>>
        /\ var[w] = NoHandle /\ v # w
    BY <1>t DEF Clone, CloneCore, image, Types, EmptyValues
  <1>w. /\ \A u \in Var : u # w => var'[u] = var[u]
        /\ var'[w].kind \in {"loaded", "core"}
        /\ var'[w].core = var[v].core /\ var'[w].deps = var[v].deps
        /\ var[v].kind \in {"raw", "core", "loaded"}
    BY SMTT(30), <1>t DEF Clone, CloneCore, As, Types, PlaceTypes
  <1>o. var[v].core \in Lib
    BY <1>w DEF TypeInv, Owners
  <1>h. \A c \in Lib : CoreHeld(c)' <=> CoreHeld(c)
    BY SMTT(30), <1>t, <1>i, <1>w DEF Types, CoreHeld, Handles, EmptyValues
  <1>s. \A c \in Lib : SliceHeld(c)' <=> SliceHeld(c)
    BY SMTT(30), <1>t, <1>i, <1>w DEF Types, SliceHeld, Handles, EmptyValues
  <1>d. \A c \in Lib : Draining(c)' <=> Draining(c)
    BY <1>i DEF Draining
  <1>b. \A u \in Var : Unbuilt(u)' => Unbuilt(u) /\ var'[u].core = var[u].core
    BY SMTT(30), <1>t, <1>i, <1>w, <1>g
       DEF Unbuilt, Relocating, MovingJob, InRelocate, CallParts, Types, EmptyValues
  <1>1. ImageParts'
    BY <1>t, <1>i, <1>h, <1>g, SameImages DEF ImageParts, DyingMapped
  <1>2. CallParts'
    BY <1>t, <1>i, <1>w, <1>g, OtherValue
       DEF CallParts, NoSlice, BindQuiet, NotDropping, Types, EmptyValues
  <1>3. SliceParts'
    BY <1>t, <1>i, <1>s, <1>d, <1>b, <1>g, SameSlices
  <1> QED
    BY <1>1, <1>2, <1>3 DEF Owned

\* A variable is dropped: its references move to the dropping thread.
LEMMA DropOwned ==
  ASSUME Owned, TypeInv, NEW t \in Thread, NEW v \in Var, Drop(t, v)
  PROVE  Owned'
  <1>t. Types
    BY TypesHold
  <1>g. ImageParts /\ CallParts /\ SliceParts
    BY DEF Owned
  <1>i. /\ UNCHANGED <<loaded, mapped, isInit, finis, deps, job, scope, drain, dying>>
        /\ cur[t] = NoHandle /\ dying[t] = None /\ job[t].op = "none"
        /\ var[v].kind # "moving"
    BY <1>t DEF Drop, image, Idle, NotDropping, Types, EmptyValues
  <1>w. \A u \in Var : var'[u] = IF u = v THEN NoHandle ELSE var[u]
    BY <1>t DEF Drop, Types, PlaceTypes
  <1>c. \A u \in Thread : cur'[u] = IF u = t THEN var[v] ELSE cur[u]
    BY <1>t DEF Drop, Types, PlaceTypes
  <1>h. \A c \in Lib : CoreHeld(c)' <=> CoreHeld(c)
    BY SMTT(30), <1>i, <1>w, <1>c DEF CoreHeld, Handles
  <1>s. \A c \in Lib : SliceHeld(c)' <=> SliceHeld(c)
    BY SMTT(30), <1>i, <1>w, <1>c DEF SliceHeld, Handles
  <1>d. \A c \in Lib : Draining(c)' <=> Draining(c)
    BY <1>i DEF Draining
  <1>b. \A u \in Var : Unbuilt(u)' => Unbuilt(u) /\ var'[u].core = var[u].core
    BY SMTT(30), <1>t, <1>i, <1>w, <1>g
       DEF Unbuilt, Relocating, MovingJob, InRelocate, CallParts, Types, EmptyValues
  <1>1. ImageParts'
    BY <1>t, <1>i, <1>c, <1>h, <1>g, SameImages DEF ImageParts, DyingMapped
  <1>2. CallParts'
    BY <1>t, <1>i, <1>w, <1>c, <1>g, OtherValue
       DEF CallParts, BindQuiet, NotDropping, Types, EmptyValues
  <1>3. SliceParts'
    BY <1>t, <1>i, <1>s, <1>d, <1>b, <1>g, SameSlices
  <1> QED
    BY <1>1, <1>2, <1>3 DEF Owned

\* A call starts or returns, a lazy binding starts, is written or aborts:
\* nothing is owned by somebody else.
LEMMA CallOwned ==
  ASSUME Owned, TypeInv, UNCHANGED <<loaded, mapped, isInit, finis, deps, var, scope, cur,
                                     drain, dying>>,
         NEW t \in Thread, \A u \in Thread : u # t => job'[u] = job[u],
         job'[t] = job[t] \/ (~InRelocate(t) /\ job'[t].op \in {"none", "call"})
  PROVE  Owned'
  <1>t. Types
    BY TypesHold
  <1>g. ImageParts /\ CallParts /\ SliceParts
    BY DEF Owned
  <1>h. /\ \A c \in Lib : CoreHeld(c)' <=> CoreHeld(c)
        /\ \A c \in Lib : SliceHeld(c)' <=> SliceHeld(c)
        /\ \A c \in Lib : Draining(c)' <=> Draining(c)
    BY SameOwners
  <1>j. \A u \in Thread : /\ InRelocate(u)' <=> InRelocate(u)
                          /\ Relocating(u)' <=> Relocating(u)
                          /\ InRelocate(u) => job'[u] = job[u]
                          /\ Relocating(u) => InRelocate(u)
    BY DEF InRelocate, Relocating
  <1>1. ImageParts'
    BY <1>t, <1>h, <1>g, SameImages DEF ImageParts, DyingMapped
  <1>2. MovingJob' BY SMTT(30), <1>j, <1>g DEF CallParts, MovingJob
  <1>3. OneJob' BY <1>j, <1>g DEF CallParts, OneJob
  <1>4. JobOwns' BY <1>j, <1>g DEF CallParts, JobOwns
  <1>5. BindQuiet' BY <1>g DEF CallParts, BindQuiet, NotDropping
  <1>6. ScopeIdle' BY <1>j, <1>g DEF CallParts, ScopeIdle
  <1>7. NoSlice' BY <1>g DEF CallParts, NoSlice
  <1>b. \A u \in Var : Unbuilt(u)' => Unbuilt(u) /\ var'[u].core = var[u].core
    BY <1>j DEF Unbuilt
  <1>8. SliceParts'
    BY <1>t, <1>h, <1>b, <1>g, SameSlices
  <1> QED
    BY <1>1, <1>2, <1>3, <1>4, <1>5, <1>6, <1>7, <1>8 DEF Owned, CallParts

-----------------------------------------------------------------------------
(* Relocator::relocate *)

\* The scope clones LoadedCores, and the raw image moves into the call.
LEMMA StartRelocateOwned ==
  ASSUME Owned, TypeInv, NEW t \in Thread, NEW v \in Var, NEW ws \in SUBSET Var,
         NEW op \in {"bind", "unscope"}, StartRelocate(t, v, ws, op)
  PROVE  Owned'
  <1>t. Types
    BY TypesHold
  <1>g. ImageParts /\ CallParts /\ SliceParts
    BY DEF Owned
  <1>i. UNCHANGED <<loaded, mapped, isInit, finis, deps, cur, drain, dying>>
    BY DEF StartRelocate, image
  <1>q. /\ var[v].kind = "raw" /\ var[v].core \in Lib /\ var[v].deps = None
        /\ job[t].op = "none" /\ NotDropping(t) /\ scope[t] = {}
    BY <1>t, <1>g
       DEF StartRelocate, Idle, Types, CallParts, NoSlice, ScopeIdle, InRelocate, EmptyValues
  <1>w. /\ \A u \in Var : u # v => var'[u] = var[u]
        /\ var'[v].kind = "moving" /\ var'[v].core = var[v].core /\ var'[v].deps = var[v].deps
    BY <1>t, <1>q DEF StartRelocate, Types, from_core, PlaceTypes
  <1>c. /\ \A u \in Thread : u # t => scope'[u] = scope[u]
        /\ \A h \in scope'[t] : \E x \in Var : h = var[x]
    BY <1>t DEF StartRelocate, Types, PlaceTypes
  <1>j. /\ \A u \in Thread : u # t => job'[u] = job[u]
        /\ job'[t].op = op /\ job'[t].v = v /\ job'[t].lib = var[v].core
    BY <1>t DEF StartRelocate, Types, JobTypes
  <1>r. /\ \A u \in Thread : u # t => /\ InRelocate(u)' <=> InRelocate(u)
                                      /\ Relocating(u)' <=> Relocating(u)
                                      /\ InRelocate(u) => job[u].v \in Var /\ job[u].v # v
        /\ ~InRelocate(t) /\ InRelocate(t)' /\ ~Relocating(t)
        /\ \A u \in Thread : Relocating(u) => InRelocate(u)
    BY <1>t, <1>q, <1>j, <1>g DEF InRelocate, Relocating, CallParts, MovingJob, Types, JobTypes
  <1>h. \A c \in Lib : CoreHeld(c)' <=> CoreHeld(c)
    BY SMTT(30), <1>i, <1>q, <1>w, <1>c DEF CoreHeld, Handles
  <1>s. \A c \in Lib : SliceHeld(c)' <=> SliceHeld(c)
    BY SMTT(30), <1>i, <1>q, <1>w, <1>c DEF SliceHeld, Handles
  <1>d. \A c \in Lib : Draining(c)' <=> Draining(c)
    BY <1>i DEF Draining
  <1>b. \A u \in Var : Unbuilt(u)' => Unbuilt(u) /\ var'[u].core = var[u].core
    BY <1>q, <1>w, <1>j, <1>r DEF Unbuilt
  <1>1. ImageParts'
    BY <1>t, <1>i, <1>h, <1>g, SameImages DEF ImageParts, DyingMapped
  <1>2. MovingJob' BY SMTT(30), <1>w, <1>j, <1>r, <1>g DEF CallParts, MovingJob
  <1>3. OneJob' BY <1>j, <1>r, <1>g DEF CallParts, OneJob
  <1>4. JobOwns' BY SMTT(30), <1>q, <1>w, <1>j, <1>r, <1>g DEF CallParts, JobOwns
  <1>5. BindQuiet' BY <1>i, <1>q, <1>j, <1>g DEF CallParts, BindQuiet, NotDropping
  <1>6. ScopeIdle' BY <1>c, <1>r, <1>g DEF CallParts, ScopeIdle
  <1>7. NoSlice' BY <1>q, <1>w, <1>g DEF CallParts, NoSlice
  <1>8. SliceParts'
    BY <1>t, <1>i, <1>s, <1>d, <1>b, <1>g, SameSlices
  <1> QED
    BY <1>1, <1>2, <1>3, <1>4, <1>5, <1>6, <1>7, <1>8 DEF Owned, CallParts

\* Relocation sets is_init of an image the relocating thread owns.
LEMMA BindOwned ==
  ASSUME Owned, TypeInv, NEW t \in Thread, job[t].op = "bind",
         NEW B, NEW W, BindAs(t, job[t].lib, B, W)
  PROVE  Owned'
  <1>t. Types
    BY TypesHold
  <1>g. ImageParts /\ CallParts /\ SliceParts
    BY DEF Owned
  <1> DEFINE l == job[t].lib
  <1>i. /\ UNCHANGED <<loaded, mapped, finis, deps, var, scope, cur, drain, dying>>
        /\ isInit' = isInit \/ isInit' = isInit \cup {l}
    BY DEF BindAs
  <1>j. /\ \A u \in Thread : u # t => job'[u] = job[u]
        /\ job'[t].op = "init" /\ job'[t].v = job[t].v /\ job'[t].lib = job[t].lib
    BY <1>t DEF BindAs, Stage, Types, JobTypes
  <1>q. l \in Lib /\ Usable(l)
    <2>1. l \in Lib /\ job[t].v \in Var /\ var[job[t].v].core = l
      BY <1>t, <1>g DEF Types, CallParts, JobOwns, Relocating, JobTypes
    <2> QED
      BY <2>1, Places, <1>g DEF ImageParts, HeldUsable
  <1>h. /\ \A c \in Lib : CoreHeld(c)' <=> CoreHeld(c)
        /\ \A c \in Lib : SliceHeld(c)' <=> SliceHeld(c)
        /\ \A c \in Lib : Draining(c)' <=> Draining(c)
    BY <1>i, SameOwners
  <1>r. \A u \in Thread : /\ InRelocate(u)' <=> InRelocate(u)
                          /\ Relocating(u)' <=> Relocating(u)
                          /\ job'[u].v = job[u].v /\ job'[u].lib = job[u].lib
    BY <1>j DEF InRelocate, Relocating
  <1>b. \A u \in Var : Unbuilt(u)' => Unbuilt(u) /\ var'[u].core = var[u].core
    BY <1>i, <1>r DEF Unbuilt
  <1>1. HeldUsable' BY <1>i, <1>h, <1>g DEF ImageParts, HeldUsable, Usable
  <1>2. MappedOwned' BY <1>t, <1>i, <1>h, <1>g DEF ImageParts, MappedOwned, Types, ImageTypes
  <1>3. OneDropper' BY <1>i, <1>g DEF ImageParts, OneDropper
  <1>4. DyingMapped' BY <1>i, <1>g DEF ImageParts, DyingMapped
  <1>5. MappedLoaded' BY <1>i, <1>g DEF ImageParts, MappedLoaded
  <1>6. Finalised' BY <1>i, <1>q, <1>g DEF ImageParts, Finalised, Usable
  <1>7. MovingJob' BY SMTT(30), <1>i, <1>r, <1>g DEF CallParts, MovingJob
  <1>8. OneJob' BY <1>r, <1>g DEF CallParts, OneJob
  <1>9. JobOwns' BY <1>i, <1>r, <1>g DEF CallParts, JobOwns
  <1>10. BindQuiet' BY <1>i, <1>j, <1>g DEF CallParts, BindQuiet, NotDropping
  <1>11. ScopeIdle' BY <1>i, <1>r, <1>g DEF CallParts, ScopeIdle
  <1>12. NoSlice' BY <1>i, <1>g DEF CallParts, NoSlice
  <1>13. SliceParts'
    BY <1>t, <1>i, <1>h, <1>b, <1>g, SameSlices
  <1> QED
    BY <1>1, <1>2, <1>3, <1>4, <1>5, <1>6, <1>7, <1>8, <1>9, <1>10, <1>11, <1>12, <1>13
       DEF Owned, ImageParts, CallParts

\* relocate() has done its work on the image: the thread goes on to drop the
\* scope, with what is left of the value in its variable.
LEMMA StageUnscope ==
  ASSUME CallParts, Types, NEW t \in Thread, Relocating(t), UNCHANGED scope,
         \A u \in Thread : u # t => job'[u] = job[u],
         job'[t].op = "unscope", job'[t].v = job[t].v,
         \A u \in Var : u # job[t].v => var'[u] = var[u],
         var'[job[t].v].kind = "moving",
         var'[job[t].v].core = None => var'[job[t].v].deps = None,
         \A u \in Thread : u # t /\ job[u].op = "bind" => NotDropping(u)'
  PROVE  /\ CallParts'
         /\ \A u \in Var : Unbuilt(u)' =>
              Unbuilt(u) /\ var'[u].core = var[u].core /\ u # job[t].v
  <1>1. /\ \A u \in Thread : u # t => /\ InRelocate(u)' <=> InRelocate(u)
                                      /\ Relocating(u)' <=> Relocating(u)
                                      /\ InRelocate(u) => job[u].v # job[t].v
        /\ InRelocate(t) /\ InRelocate(t)' /\ ~Relocating(t)'
        /\ \A u \in Thread : Relocating(u) => InRelocate(u)
        /\ \A u \in Thread : InRelocate(u) => job[u].v \in Var
    BY DEF InRelocate, Relocating, CallParts, OneJob, Types, JobTypes
  <1>2. MovingJob' BY SMTT(30), <1>1 DEF CallParts, MovingJob
  <1>3. OneJob' BY <1>1 DEF CallParts, OneJob
  <1>4. JobOwns' BY SMTT(30), <1>1 DEF CallParts, JobOwns
  <1>5. BindQuiet' BY DEF CallParts, BindQuiet
  <1>6. ScopeIdle' BY <1>1 DEF CallParts, ScopeIdle
  <1>7. NoSlice' BY DEF CallParts, NoSlice
  <1>8. \A u \in Var : Unbuilt(u)' =>
          Unbuilt(u) /\ var'[u].core = var[u].core /\ u # job[t].v
    BY <1>1 DEF Unbuilt
  <1> QED
    BY <1>2, <1>3, <1>4, <1>5, <1>6, <1>7, <1>8 DEF CallParts

\* A relocation fails and drops its image.
LEMMA BindFailsOwned ==
  ASSUME Owned, TypeInv, NEW t \in Thread, BindFails(t)
  PROVE  Owned'
  <1>t. Types
    BY TypesHold
  <1>g. ImageParts /\ CallParts /\ SliceParts
    BY DEF Owned
  <1>i. /\ UNCHANGED <<loaded, mapped, isInit, finis, deps, scope, drain, dying>>
        /\ job[t].op = "bind" /\ Relocating(t)
    BY DEF BindFails, image, Relocating
  <1>q. job[t].v \in Var /\ NotDropping(t) /\ cur[t] = NoHandle /\ dying[t] = None
    BY <1>t, <1>i, <1>g DEF Types, CallParts, BindQuiet, NotDropping, JobTypes
  <1>w. \A u \in Var : var'[u] = IF u = job[t].v THEN Moved ELSE var[u]
    BY <1>t DEF BindFails, Types, PlaceTypes, JobTypes
  <1>c. \A u \in Thread : cur'[u] = IF u = t THEN var[job[t].v] ELSE cur[u]
    BY <1>t DEF BindFails, DroppedOnError, Types, PlaceTypes
  <1>j. /\ \A u \in Thread : u # t => job'[u] = job[u]
        /\ job'[t].op = "unscope" /\ job'[t].v = job[t].v
    BY <1>t DEF BindFails, Types, Stage, JobTypes
  <1>h. \A c \in Lib : CoreHeld(c)' <=> CoreHeld(c)
    BY SMTT(30), <1>t, <1>i, <1>q, <1>w, <1>c DEF Types, CoreHeld, Handles, EmptyValues
  <1>s. \A c \in Lib : SliceHeld(c)' <=> SliceHeld(c)
    BY SMTT(30), <1>t, <1>i, <1>q, <1>w, <1>c DEF Types, SliceHeld, Handles, EmptyValues
  <1>d. \A c \in Lib : Draining(c)' <=> Draining(c)
    BY <1>i DEF Draining
  <1>1. ImageParts'
    BY <1>t, <1>i, <1>q, <1>c, <1>h, <1>g, SameImages DEF ImageParts, DyingMapped
  <1>n. \A u \in Thread : u # t /\ job[u].op = "bind" => NotDropping(u)'
    BY <1>i, <1>c, <1>g DEF CallParts, BindQuiet, NotDropping
  <1>2. /\ CallParts'
        /\ \A u \in Var : Unbuilt(u)' => Unbuilt(u) /\ var'[u].core = var[u].core
    BY <1>t, <1>i, <1>q, <1>w, <1>j, <1>n, <1>g, StageUnscope DEF Types, EmptyValues
  <1>3. SliceParts'
    BY <1>t, <1>i, <1>s, <1>d, <1>2, <1>g, SameSlices
  <1> QED
    BY <1>1, <1>2, <1>3 DEF Owned

\* The deps slice is built from the scope.  Nobody shares it yet, so that it
\* closes no cycle, and it had no elements that would be lost.
LEMMA CollectOwned ==
  ASSUME Owned, TypeInv, NEW t \in Thread, Collect(t)
  PROVE  Owned'
  <1>t. Types
    BY TypesHold
  <1>g. ImageParts /\ CallParts /\ SliceParts
    BY DEF Owned
  <1>i. /\ UNCHANGED <<loaded, mapped, isInit, finis, scope, cur, drain, dying>>
        /\ job[t].op = "init" /\ Relocating(t) /\ NotDropping(t)
    BY DEF Collect, image, Relocating
  <1>l. PICK l \in Lib : l = job[t].lib
    BY <1>t, <1>i DEF Types, JobTypes
  <1>q. /\ job[t].v \in Var /\ var[job[t].v].core = l /\ var[job[t].v].deps = None
        /\ Unbuilt(job[t].v) /\ CoreHeld(l)
    <2>1. job[t].v \in Var /\ var[job[t].v].core = l /\ var[job[t].v].deps = None
      BY <1>t, <1>i, <1>l, <1>g DEF Types, CallParts, JobOwns, JobTypes
    <2> QED
      BY <1>i, <2>1, Places DEF Unbuilt
  <1>n. ~SliceHeld(l) /\ deps[l] = {} /\ ~Draining(l) /\ l \in loaded
    BY <1>q, <1>g DEF SliceParts, UnbuiltOnce, ImageParts, HeldUsable, Usable, MappedLoaded
  <1>j. /\ \A u \in Thread : u # t => job'[u] = job[u]
        /\ job'[t].op = "unscope" /\ job'[t].v = job[t].v
    BY <1>t DEF Collect, Types, Stage, JobTypes
  <1>w. /\ \A u \in Var : u # job[t].v => var'[u] = var[u]
        /\ var'[job[t].v].kind = "moving" /\ var'[job[t].v].core = l
        /\ var'[job[t].v].deps = IF l \in Object THEN None ELSE l
    BY SMTT(30), <1>t, <1>l, <1>q DEF Collect, Types, from_core, from_core_deps, PlaceTypes
  <1>e. /\ \A c \in Lib : c # l => deps'[c] = deps[c]
        /\ \A h \in deps'[l] : h \in scope[t]
        /\ l \in Object => deps' = deps
    <2>1. CASE l \in Object
      BY <1>l, <1>n, <2>1 DEF Collect
    <2>2. CASE l \notin Object
      BY SMTT(30), <1>t, <1>l, <2>2 DEF Collect, Types, CollectedDeps, PlaceTypes, JobTypes
    <2> QED
      BY <2>1, <2>2
  <1>h. \A c \in Lib : CoreHeld(c)' <=> CoreHeld(c)
    BY SMTT(30), <1>i, <1>q, <1>n, <1>w, <1>e DEF CoreHeld, Handles
  <1>s. \A c \in Lib : SliceHeld(c)' <=> SliceHeld(c) \/ (c = l /\ l \notin Object)
    BY SMTT(30), <1>t, <1>i, <1>q, <1>n, <1>w, <1>e DEF Types, SliceHeld, Handles, EmptyValues
  <1>d. \A c \in Lib : Draining(c)' <=> Draining(c)
    BY <1>i DEF Draining
  <1>1. ImageParts'
    BY <1>t, <1>i, <1>h, <1>g, SameImages DEF ImageParts, DyingMapped
  <1>2. /\ CallParts'
        /\ \A u \in Var : Unbuilt(u)' =>
             Unbuilt(u) /\ var'[u].core = var[u].core /\ u # job[t].v
    <2>1. \A u \in Thread : u # t /\ job[u].op = "bind" => NotDropping(u)'
      BY <1>i, <1>g DEF CallParts, BindQuiet, NotDropping
    <2> QED
      BY <1>t, <1>i, <1>w, <1>j, <1>g, <2>1, StageUnscope DEF Types
  <1>3. UnbuiltOnce'
    <2>1. \A u \in Var : Unbuilt(u) => var[u].core \in Lib
      BY <1>t, <1>g, UnbuiltCore
    <2>2. \A u \in Var : Unbuilt(u)' => var'[u].core # l
      BY <1>2, <1>q, <1>g DEF SliceParts, UnbuiltOnce
    <2> QED
      BY SMTT(30), <1>2, <1>s, <1>d, <1>e, <1>g, <2>1, <2>2 DEF SliceParts, UnbuiltOnce
  <1>4. SliceLoaded' BY <1>i, <1>n, <1>s, <1>d, <1>e, <1>g DEF SliceParts, SliceLoaded
  <1>5. SliceOwned' BY <1>n, <1>s, <1>d, <1>e, <1>g DEF SliceParts, SliceOwned
  <1>6. Acyclic'
    <2> SUFFICES ASSUME NEW S \in SUBSET Lib, S # {}
                 PROVE  \E c \in S : \A m \in S : \A h \in deps'[m] : h.deps # c
      BY DEF Acyclic
    <2>1. CASE l \in S
      <3>1. \A m \in Lib : \A h \in deps'[m] : h.deps # l
        BY <1>n, <1>e, Places
      <3> QED
        BY <2>1, <3>1
    <2>2. CASE l \notin S
      BY SMTT(30), <2>2, <1>e, <1>g DEF SliceParts, Acyclic
    <2> QED
      BY <2>1, <2>2
  <1> QED
    BY <1>1, <1>2, <1>3, <1>4, <1>5, <1>6 DEF Owned, SliceParts

\* An element of the scope is dropped.
LEMMA UnscopeOwned ==
  ASSUME Owned, TypeInv, NEW t \in Thread, Unscope(t)
  PROVE  Owned'
  <1>t. Types
    BY TypesHold
  <1>g. ImageParts /\ CallParts /\ SliceParts
    BY DEF Owned
  <1>i. /\ UNCHANGED <<loaded, mapped, isInit, finis, deps, var, job, drain, dying>>
        /\ job[t].op = "unscope" /\ cur[t] = NoHandle /\ dying[t] = None
    BY DEF Unscope, image, NotDropping
  <1>p. PICK g \in scope[t] : /\ scope' = [scope EXCEPT ![t] = @ \ {g}]
                              /\ cur' = [cur EXCEPT ![t] = g]
    BY DEF Unscope
  <1>c. /\ \A u \in Thread : cur'[u] = IF u = t THEN g ELSE cur[u]
        /\ \A u \in Thread : scope'[u] = IF u = t THEN scope[t] \ {g} ELSE scope[u]
    BY <1>t, <1>p DEF Types, PlaceTypes
  <1>h. \A c \in Lib : CoreHeld(c)' <=> CoreHeld(c)
    BY SMTT(30), <1>t, <1>i, <1>c DEF Types, CoreHeld, Handles, EmptyValues
  <1>s. \A c \in Lib : SliceHeld(c)' <=> SliceHeld(c)
    BY SMTT(30), <1>t, <1>i, <1>c DEF Types, SliceHeld, Handles, EmptyValues
  <1>d. \A c \in Lib : Draining(c)' <=> Draining(c)
    BY <1>i DEF Draining
  <1>1. ImageParts'
    BY <1>t, <1>i, <1>c, <1>h, <1>g, SameImages DEF ImageParts, DyingMapped
  <1>2. MovingJob' BY <1>i, <1>g DEF CallParts, MovingJob, InRelocate
  <1>3. OneJob' BY <1>i, <1>g DEF CallParts, OneJob, InRelocate
  <1>4. JobOwns' BY <1>i, <1>g DEF CallParts, JobOwns, Relocating
  <1>5. BindQuiet' BY <1>i, <1>c, <1>g DEF CallParts, BindQuiet, NotDropping
  <1>6. ScopeIdle' BY <1>i, <1>c, <1>g DEF CallParts, ScopeIdle, InRelocate
  <1>7. NoSlice' BY <1>i, <1>g DEF CallParts, NoSlice
  <1>b. \A u \in Var : Unbuilt(u)' => Unbuilt(u) /\ var'[u].core = var[u].core
    BY <1>i DEF Unbuilt, Relocating
  <1>8. SliceParts'
    BY <1>t, <1>i, <1>s, <1>d, <1>b, <1>g, SameSlices
  <1> QED
    BY <1>1, <1>2, <1>3, <1>4, <1>5, <1>6, <1>7, <1>8 DEF Owned, CallParts

\* relocate() returns the LoadedCore, or nothing after an error.
LEMMA RelocatedOwned ==
  ASSUME Owned, TypeInv, NEW t \in Thread, Relocated(t)
  PROVE  Owned'
  <1>t. Types
    BY TypesHold
  <1>g. ImageParts /\ CallParts /\ SliceParts
    BY DEF Owned
  <1>i. /\ UNCHANGED <<loaded, mapped, isInit, finis, deps, scope, cur, drain, dying>>
        /\ job[t].op = "unscope" /\ scope[t] = {} /\ job[t].v \in Var
    BY <1>t DEF Relocated, image, Types, JobTypes
  <1>w. /\ \A u \in Var : u # job[t].v => var'[u] = var[u]
        /\ var'[job[t].v].core = var[job[t].v].core /\ var'[job[t].v].deps = var[job[t].v].deps
        /\ var'[job[t].v].kind \in {"empty", "loaded"}
    <2>1. CASE var[job[t].v].core = None
      BY <1>t, <1>i, <2>1, <1>g
         DEF Relocated, Types, CallParts, NoSlice, PlaceTypes, EmptyValues
    <2>2. CASE var[job[t].v].core # None
      BY <1>t, <1>i, <2>2 DEF Relocated, As, Types, PlaceTypes
    <2> QED
      BY <2>1, <2>2
  <1>j. \A u \in Thread : job'[u] = IF u = t THEN NoJob ELSE job[u]
    BY <1>t DEF Relocated, Types, JobTypes
  <1>r. /\ \A u \in Thread : u # t => /\ InRelocate(u)' <=> InRelocate(u)
                                      /\ Relocating(u)' <=> Relocating(u)
                                      /\ InRelocate(u) => job[u].v \in Var /\ job[u].v # job[t].v
        /\ ~InRelocate(t)' /\ ~Relocating(t)'
        /\ \A u \in Thread : Relocating(u) => InRelocate(u)
    BY <1>t, <1>i, <1>j, <1>g
       DEF InRelocate, Relocating, CallParts, OneJob, Types, JobTypes, EmptyValues
  <1>h. \A c \in Lib : CoreHeld(c)' <=> CoreHeld(c)
    BY SMTT(30), <1>i, <1>w DEF CoreHeld, Handles
  <1>s. \A c \in Lib : SliceHeld(c)' <=> SliceHeld(c)
    BY SMTT(30), <1>i, <1>w DEF SliceHeld, Handles
  <1>d. \A c \in Lib : Draining(c)' <=> Draining(c)
    BY <1>i DEF Draining
  <1>1. ImageParts'
    BY <1>t, <1>i, <1>h, <1>g, SameImages DEF ImageParts, DyingMapped
  <1>2. MovingJob' BY SMTT(30), <1>w, <1>j, <1>r, <1>g DEF CallParts, MovingJob
  <1>3. OneJob' BY <1>j, <1>r, <1>g DEF CallParts, OneJob
  <1>4. JobOwns' BY SMTT(30), <1>w, <1>j, <1>r, <1>g DEF CallParts, JobOwns
  <1>5. BindQuiet'
    BY <1>t, <1>i, <1>j, <1>g DEF CallParts, BindQuiet, NotDropping, Types, EmptyValues
  <1>6. ScopeIdle' BY <1>i, <1>r, <1>g DEF CallParts, ScopeIdle
  <1>7. NoSlice' BY <1>w, <1>g DEF CallParts, NoSlice
  <1>b. \A u \in Var : Unbuilt(u)' => Unbuilt(u) /\ var'[u].core = var[u].core
    BY <1>i, <1>w, <1>j, <1>r DEF Unbuilt
  <1>8. SliceParts'
    BY <1>t, <1>i, <1>s, <1>d, <1>b, <1>g, SameSlices
  <1> QED
    BY <1>1, <1>2, <1>3, <1>4, <1>5, <1>6, <1>7, <1>8 DEF Owned, CallParts

-----------------------------------------------------------------------------
(* Lazy binding and drops *)

\* ElfCoreRef::upgrade adds a reference only to an image somebody owns.
LEMMA FixupLookupOwned ==
  ASSUME Owned, TypeInv, NEW t \in Thread, FixupLookup(t), job[t].op # "bind"
  PROVE  Owned'
  <1>t. Types
    BY TypesHold
  <1>g. ImageParts /\ CallParts /\ SliceParts
    BY DEF Owned
  <1>i. /\ UNCHANGED <<loaded, mapped, isInit, finis, deps, var, job, scope, drain, dying>>
        /\ cur[t] = NoHandle /\ dying[t] = None
    BY DEF FixupLookup, image, NotDropping
  <1>c. /\ \A u \in Thread : u # t => cur'[u] = cur[u]
        /\ cur'[t].deps = None
        /\ cur'[t].core # None => CoreHeld(cur'[t].core)
    <2>1. PICK a \in fix[t].cand : \/ CoreHeld(a) /\ cur' = [cur EXCEPT ![t] = from_core(a)]
                                   \/ UNCHANGED cur
      BY DEF FixupLookup
    <2> QED
      BY SMTT(30), <1>t, <1>i, <2>1 DEF Types, from_core, PlaceTypes, EmptyValues
  <1>h. \A c \in Lib : CoreHeld(c)' <=> CoreHeld(c)
    BY SMTT(30), <1>t, <1>i, <1>c DEF Types, CoreHeld, Handles, EmptyValues
  <1>s. \A c \in Lib : SliceHeld(c)' <=> SliceHeld(c)
    BY SMTT(30), <1>t, <1>i, <1>c DEF Types, SliceHeld, Handles, EmptyValues
  <1>d. \A c \in Lib : Draining(c)' <=> Draining(c)
    BY <1>i DEF Draining
  <1>1. ImageParts'
    BY <1>t, <1>i, <1>c, <1>h, <1>g, SameImages DEF ImageParts, DyingMapped
  <1>2. CallParts'
    BY <1>i, <1>c, <1>g, SameCalls DEF CallParts, BindQuiet, NotDropping
  <1>b. \A u \in Var : Unbuilt(u)' => Unbuilt(u) /\ var'[u].core = var[u].core
    BY <1>i DEF Unbuilt, Relocating
  <1>3. SliceParts'
    BY <1>t, <1>i, <1>s, <1>d, <1>b, <1>g, SameSlices
  <1> QED
    BY <1>1, <1>2, <1>3 DEF Owned

\* A core reference goes; the last one starts the end of the image.
LEMMA ReleaseCoreOwned ==
  ASSUME Owned, TypeInv, NEW t \in Thread, ReleaseCore(t)
  PROVE  Owned'
  <1>t. Types
    BY TypesHold
  <1>g. ImageParts /\ CallParts /\ SliceParts
    BY DEF Owned
  <1>f. finis \in [Lib -> Nat]
    BY DEF TypeInv, TypeOK
  <1>i. UNCHANGED <<loaded, mapped, isInit, deps, var, scope, job, drain>>
    BY DEF ReleaseCore
  <1>p. PICK l \in Lib : l = cur[t].core
    <2>1. cur[t] \in Handle /\ cur[t].core # None
      BY <1>t DEF ReleaseCore, Types, PlaceTypes
    <2> QED
      BY <2>1 DEF Handle
  <1>q. /\ l # None /\ cur[t] # NoHandle /\ dying[t] = None /\ CoreHeld(l)
        /\ l \in mapped /\ l \in loaded /\ \A u \in Thread : dying[u] # l
    <2>1. CoreHeld(l)
      BY <1>p, Places
    <2> QED
      BY <1>t, <1>p, <2>1, <1>g
         DEF Types, ImageParts, DyingMapped, HeldUsable, Usable, MappedLoaded, EmptyValues
  <1>k. /\ \A u \in Thread : u # t => cur'[u] = cur[u]
        /\ cur'[t].core = None /\ cur'[t].deps = cur[t].deps
    BY <1>t DEF ReleaseCore, Types, OnlyDeps, PlaceTypes
  <1>h. \A c \in Lib : c # l => (CoreHeld(c)' <=> CoreHeld(c))
    BY SMTT(30), <1>t, <1>p, <1>i, <1>k DEF Types, CoreHeld, Handles, EmptyValues
  <1>s. \A c \in Lib : SliceHeld(c)' <=> SliceHeld(c)
    BY SMTT(30), <1>t, <1>i, <1>k DEF Types, SliceHeld, Handles
  <1>d. \A c \in Lib : Draining(c)' <=> Draining(c)
    BY <1>i DEF Draining
  <1>1. ASSUME CoreHeld(l)', UNCHANGED <<dying, finis>>
        PROVE  ImageParts'
    <2>1. \A c \in Lib : CoreHeld(c)' <=> CoreHeld(c)
      BY <1>1, <1>q, <1>h
    <2> QED
      BY <1>t, <1>i, <1>k, <1>1, <2>1, <1>g, SameImages DEF ImageParts, DyingMapped
  <1>2. ASSUME ~CoreHeld(l)', dying' = [dying EXCEPT ![t] = l],
               finis' = [finis EXCEPT ![l] = @ + FiniRuns(l)]
        PROVE  ImageParts'
    <2>x. \A u \in Thread : dying'[u] = IF u = t THEN l ELSE dying[u]
      BY <1>t, <1>2 DEF Types, DropTypes
    <2>y. \A c \in Lib : finis'[c] = IF c = l THEN finis[l] + FiniRuns(l) ELSE finis[c]
      BY <1>f, <1>2
    <2>1. HeldUsable' BY <1>i, <1>h, <1>2, <2>x, <1>g DEF ImageParts, HeldUsable, Usable
    <2>2. MappedOwned'
      BY SMTT(30), <1>t, <1>i, <1>h, <1>q, <2>x, <1>g
         DEF ImageParts, MappedOwned, Types, ImageTypes, EmptyValues
    <2>3. OneDropper' BY <1>q, <2>x, <1>g DEF ImageParts, OneDropper
    <2>4. DyingMapped' BY <1>i, <1>k, <1>q, <2>x, <1>g DEF ImageParts, DyingMapped
    <2>5. MappedLoaded' BY <1>i, <1>g DEF ImageParts, MappedLoaded
    <2>6. Finalised'
      <3>1. finis[l] = 0
        BY <1>q, <1>g DEF ImageParts, Finalised
      <3>2. finis'[l] = IF l \in isInit THEN 1 ELSE 0
        BY SMTT(30), <2>y, <3>1 DEF FiniRuns
      <3>3. \A c \in Lib : c # l =>
              ((\E u \in Thread : dying'[u] = c) <=> (\E u \in Thread : dying[u] = c))
        BY <1>t, <1>q, <2>x DEF Types, EmptyValues
      <3>4. \E u \in Thread : dying'[u] = l
        BY <2>x
      <3> QED
        BY <1>i, <1>q, <2>y, <3>2, <3>3, <3>4, <1>g DEF ImageParts, Finalised
    <2> QED
      BY <2>1, <2>2, <2>3, <2>4, <2>5, <2>6 DEF ImageParts
  <1>3. ImageParts'
    <2>1. \/ CoreHeld(l)' /\ UNCHANGED <<dying, finis>>
          \/ /\ ~CoreHeld(l)' /\ dying' = [dying EXCEPT ![t] = l]
             /\ finis' = [finis EXCEPT ![l] = @ + FiniRuns(l)]
      BY <1>p DEF ReleaseCore, CoreHeld
    <2> QED
      BY <1>1, <1>2, <2>1
  <1>4. CallParts'
    <2>1. \A u \in Thread : job[u].op = "bind" => u # t /\ NotDropping(u)
      BY <1>q, <1>g DEF CallParts, BindQuiet, NotDropping
    <2>2. \A u \in Thread : u # t => dying'[u] = dying[u]
      BY <1>t DEF ReleaseCore, Types, DropTypes
    <2> QED
      BY <1>i, <1>k, <2>1, <2>2, <1>g, SameCalls DEF NotDropping
  <1>b. \A u \in Var : Unbuilt(u)' => Unbuilt(u) /\ var'[u].core = var[u].core
    BY <1>i DEF Unbuilt, Relocating
  <1>5. SliceParts'
    BY <1>t, <1>i, <1>s, <1>d, <1>b, <1>g, SameSlices
  <1> QED
    BY <1>3, <1>4, <1>5 DEF Owned

\* The memory of an image nobody owns goes away.
LEMMA UnmapOwned ==
  ASSUME Owned, TypeInv, NEW t \in Thread, Unmap(t)
  PROVE  Owned'
  <1>t. Types
    BY TypesHold
  <1>g. ImageParts /\ CallParts /\ SliceParts
    BY DEF Owned
  <1>i. UNCHANGED <<loaded, isInit, finis, deps, var, job, scope, cur, drain>>
    BY DEF Unmap
  <1>p. PICK l \in Lib : l = dying[t]
    BY <1>t DEF Unmap, Types, DropTypes
  <1>q. /\ l # None /\ l \in mapped /\ mapped' = mapped \ {l}
        /\ \A u \in Thread : dying'[u] = IF u = t THEN None ELSE dying[u]
        /\ \A u \in Thread : u # t => dying[u] # l
        /\ ~CoreHeld(l)
    BY <1>t, <1>p, <1>g
       DEF Unmap, Types, ImageParts, DyingMapped, OneDropper, HeldUsable, Usable, DropTypes
  <1>h. /\ \A c \in Lib : CoreHeld(c)' <=> CoreHeld(c)
        /\ \A c \in Lib : SliceHeld(c)' <=> SliceHeld(c)
        /\ \A c \in Lib : Draining(c)' <=> Draining(c)
    BY <1>i, SameOwners
  <1>1. HeldUsable'
    BY <1>t, <1>h, <1>q, <1>g DEF ImageParts, HeldUsable, Usable, Types, EmptyValues
  <1>2. MappedOwned'
    BY SMTT(30), <1>t, <1>h, <1>q, <1>g DEF ImageParts, MappedOwned, Types, ImageTypes
  <1>3. OneDropper' BY <1>q, <1>g DEF ImageParts, OneDropper
  <1>4. DyingMapped' BY <1>i, <1>q, <1>g DEF ImageParts, DyingMapped
  <1>5. MappedLoaded' BY <1>i, <1>q, <1>g DEF ImageParts, MappedLoaded
  <1>6. Finalised'
    <2>1. \A c \in Lib : c # l =>
            ((\E u \in Thread : dying'[u] = c) <=> (\E u \in Thread : dying[u] = c))
      BY <1>t, <1>p, <1>q DEF Types, EmptyValues
    <2> QED
      BY <1>i, <1>p, <1>q, <2>1, <1>g DEF ImageParts, Finalised
  <1>7. CallParts'
    <2>1. \A u \in Thread : job[u].op = "bind" => NotDropping(u)'
      BY <1>i, <1>q, <1>g DEF CallParts, BindQuiet, NotDropping
    <2> QED
      BY <1>i, <2>1, <1>g, SameCalls
  <1>b. \A u \in Var : Unbuilt(u)' => Unbuilt(u) /\ var'[u].core = var[u].core
    BY <1>i DEF Unbuilt, Relocating
  <1>8. SliceParts'
    BY <1>t, <1>i, <1>h, <1>b, <1>g, SameSlices
  <1> QED
    BY <1>1, <1>2, <1>3, <1>4, <1>5, <1>6, <1>7, <1>8 DEF Owned, ImageParts

\* A slice reference goes; the last one starts to drop the elements.
LEMMA ReleaseDepsOwned ==
  ASSUME Owned, TypeInv, NEW t \in Thread, ReleaseDeps(t)
  PROVE  Owned'
  <1>t. Types
    BY TypesHold
  <1>g. ImageParts /\ CallParts /\ SliceParts
    BY DEF Owned
  <1>i. /\ UNCHANGED <<loaded, mapped, isInit, finis, deps, var, scope, job, dying>>
        /\ dying[t] = None
    BY DEF ReleaseDeps, image
  <1>p. PICK s \in Lib : s = cur[t].deps
    <2>1. cur[t] \in Handle /\ cur[t].deps # None
      BY <1>t DEF ReleaseDeps, Types, PlaceTypes
    <2> QED
      BY <2>1 DEF Handle
  <1>q. /\ cur[t].core = None /\ s # None /\ cur[t] # NoHandle /\ SliceHeld(s)
        /\ ~Draining(s) /\ s \in loaded
    <2>1. SliceHeld(s)
      BY <1>p, Places
    <2> QED
      BY <1>t, <1>p, <2>1, <1>g
         DEF ReleaseDeps, Types, SliceParts, SliceOwned, SliceLoaded, EmptyValues
  <1>k. \A u \in Thread : cur'[u] = IF u = t THEN NoHandle ELSE cur[u]
    BY <1>t DEF ReleaseDeps, Types, PlaceTypes
  <1>h. \A c \in Lib : CoreHeld(c)' <=> CoreHeld(c)
    BY SMTT(30), <1>t, <1>i, <1>q, <1>k DEF Types, CoreHeld, Handles, EmptyValues
  <1>s. \A c \in Lib : c # s => (SliceHeld(c)' <=> SliceHeld(c))
    BY SMTT(30), <1>t, <1>p, <1>i, <1>k DEF Types, SliceHeld, Handles, EmptyValues
  <1>d. /\ \A c \in Lib : c # s => (Draining(c)' <=> Draining(c))
        /\ Draining(s)' <=> ~SliceHeld(s)'
        /\ \A u \in Thread : u # t => drain'[u] = drain[u]
    <2>1. drain \in [Thread -> Seq(Lib)] /\ drain[t] \in Seq(Lib)
      BY DEF TypeInv, TypeOK
    <2>2. CASE SliceHeld(s)' /\ drain' = drain
      BY <1>q, <2>2 DEF Draining
    <2>3. CASE ~SliceHeld(s)' /\ drain' = [drain EXCEPT ![t] = <<s>> \o drain[t]]
      <3>1. /\ drain'[t] = <<s>> \o drain[t]
            /\ \A u \in Thread : u # t => drain'[u] = drain[u]
        BY <2>1, <2>3
      <3>2. \A i \in DOMAIN drain'[t] :
              drain'[t][i] = s \/ \E j \in DOMAIN drain[t] : drain'[t][i] = drain[t][j]
        BY SMTT(30), <2>1, <3>1, Pushed
      <3>3. /\ 1 \in DOMAIN drain'[t] /\ drain'[t][1] = s
            /\ \A j \in DOMAIN drain[t] :
                 j + 1 \in DOMAIN drain'[t] /\ drain'[t][j + 1] = drain[t][j]
        BY SMTT(30), <2>1, <3>1, PushedKeeps
      <3>4. Draining(s)'
        BY <3>3 DEF Draining
      <3>5. ASSUME NEW c \in Lib, c # s, Draining(c) PROVE Draining(c)'
        <4>1. PICK u \in Thread : \E j \in DOMAIN drain[u] : drain[u][j] = c
          BY <3>5 DEF Draining
        <4> QED
          BY <3>1, <3>3, <4>1 DEF Draining
      <3>6. ASSUME NEW c \in Lib, c # s, Draining(c)' PROVE Draining(c)
        <4>1. PICK u \in Thread : \E j \in DOMAIN drain'[u] : drain'[u][j] = c
          BY <3>6 DEF Draining
        <4>2. PICK i \in DOMAIN drain'[u] : drain'[u][i] = c
          BY <4>1
        <4>3. CASE u = t
          BY <3>2, <3>6, <4>2, <4>3 DEF Draining
        <4>4. CASE u # t
          BY <3>1, <4>2, <4>4 DEF Draining
        <4> QED
          BY <4>3, <4>4
      <3> QED
        BY <2>3, <3>1, <3>4, <3>5, <3>6
    <2>4. \/ SliceHeld(s)' /\ drain' = drain
          \/ ~SliceHeld(s)' /\ drain' = [drain EXCEPT ![t] = <<s>> \o drain[t]]
      BY <1>p DEF ReleaseDeps, SliceHeld
    <2> QED
      BY <2>2, <2>3, <2>4
  <1>1. ImageParts'
    BY <1>t, <1>i, <1>k, <1>h, <1>g, SameImages DEF ImageParts, DyingMapped
  <1>2. CallParts'
    <2>1. \A u \in Thread : job[u].op = "bind" => u # t /\ NotDropping(u)
      BY <1>q, <1>g DEF CallParts, BindQuiet, NotDropping
    <2> QED
      BY <1>i, <1>k, <1>d, <2>1, <1>g, SameCalls DEF NotDropping
  <1>3. UnbuiltOnce'
    <2>1. \A u \in Var : Unbuilt(u)' => Unbuilt(u) /\ var'[u].core = var[u].core
      BY <1>i DEF Unbuilt, Relocating
    <2>2. \A u \in Var : Unbuilt(u) => var[u].core \in Lib /\ var[u].core # s
      BY <1>t, <1>q, <1>g, UnbuiltCore DEF SliceParts, UnbuiltOnce
    <2> QED
      BY <1>i, <1>s, <1>d, <2>1, <2>2, <1>g DEF SliceParts, UnbuiltOnce
  <1>4. SliceLoaded' BY <1>i, <1>q, <1>s, <1>d, <1>g DEF SliceParts, SliceLoaded
  <1>5. SliceOwned' BY <1>i, <1>s, <1>d, <1>g DEF SliceParts, SliceOwned
  <1>6. Acyclic' BY <1>i, <1>g DEF SliceParts, Acyclic
  <1> QED
    BY <1>1, <1>2, <1>3, <1>4, <1>5, <1>6 DEF Owned, SliceParts

\* An element of a slice nobody owns moves to the dropping thread.
LEMMA DrainDepsOwned ==
  ASSUME Owned, TypeInv, NEW t \in Thread, DrainDeps(t)
  PROVE  Owned'
  <1>t. Types
    BY TypesHold
  <1>g. ImageParts /\ CallParts /\ SliceParts
    BY DEF Owned
  <1>i. /\ UNCHANGED <<loaded, mapped, isInit, finis, var, scope, job, drain, dying>>
        /\ cur[t] = NoHandle /\ dying[t] = None /\ drain[t] # <<>>
    BY DEF DrainDeps, image
  <1>e. PICK s \in Lib : s = Head(drain[t])
    <2>1. drain[t] \in Seq(Lib)
      BY DEF TypeInv, TypeOK
    <2> QED
      BY SMTT(30), <1>i, <2>1
  <1>p. PICK g \in deps[s] : /\ deps' = [deps EXCEPT ![s] = @ \ {g}]
                             /\ cur' = [cur EXCEPT ![t] = g]
    BY <1>e DEF DrainDeps
  <1>k. /\ \A u \in Thread : cur'[u] = IF u = t THEN g ELSE cur[u]
        /\ \A c \in Lib : deps'[c] = IF c = s THEN deps[s] \ {g} ELSE deps[c]
    BY <1>t, <1>p DEF Types, PlaceTypes
  <1>h. \A c \in Lib : CoreHeld(c)' <=> CoreHeld(c)
    BY SMTT(30), <1>t, <1>i, <1>k DEF Types, CoreHeld, Handles, EmptyValues
  <1>s. \A c \in Lib : SliceHeld(c)' <=> SliceHeld(c)
    BY SMTT(30), <1>t, <1>i, <1>k DEF Types, SliceHeld, Handles, EmptyValues
  <1>d. \A c \in Lib : Draining(c)' <=> Draining(c)
    BY <1>i DEF Draining
  <1>x. \A c \in Lib : deps'[c] \subseteq deps[c]
    BY <1>k
  <1>1. ImageParts'
    BY <1>t, <1>i, <1>k, <1>h, <1>g, SameImages DEF ImageParts, DyingMapped
  <1>2. CallParts'
    <2>1. \A u \in Thread : job[u].op = "bind" => u # t /\ NotDropping(u)
      BY <1>i, <1>g DEF CallParts, BindQuiet, NotDropping
    <2> QED
      BY <1>i, <1>k, <2>1, <1>g, SameCalls DEF NotDropping
  <1>3. UnbuiltOnce'
    <2>1. \A u \in Var : Unbuilt(u)' => Unbuilt(u) /\ var'[u].core = var[u].core
      BY <1>i DEF Unbuilt, Relocating
    <2>2. \A u \in Var : Unbuilt(u) => var[u].core \in Lib
      BY <1>t, <1>g, UnbuiltCore
    <2> QED
      BY <1>s, <1>d, <1>x, <2>1, <2>2, <1>g DEF SliceParts, UnbuiltOnce
  <1>4. SliceLoaded' BY <1>i, <1>s, <1>d, <1>x, <1>g DEF SliceParts, SliceLoaded
  <1>5. SliceOwned' BY <1>s, <1>d, <1>x, <1>g DEF SliceParts, SliceOwned
  <1>6. Acyclic' BY <1>x, <1>g DEF SliceParts, Acyclic
  <1> QED
    BY <1>1, <1>2, <1>3, <1>4, <1>5, <1>6 DEF Owned, SliceParts

\* A slice without elements is freed.
LEMMA FreeSliceOwned ==
  ASSUME Owned, TypeInv, NEW t \in Thread, FreeSlice(t)
  PROVE  Owned'
  <1>t. Types
    BY TypesHold
  <1>g. ImageParts /\ CallParts /\ SliceParts
    BY DEF Owned
  <1>i. /\ UNCHANGED <<loaded, mapped, isInit, finis, deps, var, scope, job, cur, dying>>
        /\ drain[t] # <<>> /\ deps[Head(drain[t])] = {}
    BY DEF FreeSlice, image
  <1>h. /\ \A c \in Lib : CoreHeld(c)' <=> CoreHeld(c)
        /\ \A c \in Lib : SliceHeld(c)' <=> SliceHeld(c)
    BY <1>i DEF CoreHeld, SliceHeld, Handles
  <1>e. /\ \A u \in Thread : u # t => drain'[u] = drain[u]
        /\ \A i \in DOMAIN drain'[t] : i + 1 \in DOMAIN drain[t] /\ drain'[t][i] = drain[t][i + 1]
        /\ \A i \in DOMAIN drain[t] :
             drain[t][i] = Head(drain[t]) \/ \E j \in DOMAIN drain'[t] : drain'[t][j] = drain[t][i]
    <2>1. drain \in [Thread -> Seq(Lib)] /\ drain[t] \in Seq(Lib) /\ drain[t] # <<>>
      BY <1>i DEF TypeInv, TypeOK
    <2>2. drain'[t] = Tail(drain[t]) /\ \A u \in Thread : u # t => drain'[u] = drain[u]
      BY <2>1 DEF FreeSlice, LeaveSlice
    <2>3. ASSUME NEW i \in DOMAIN drain[t]
          PROVE  drain[t][i] = Head(drain[t])
                 \/ \E j \in DOMAIN drain'[t] : drain'[t][j] = drain[t][i]
      <3>1. CASE i = 1
        BY SMTT(30), <2>1, <3>1
      <3>2. CASE i # 1
        <4>1. i - 1 \in DOMAIN drain'[t] /\ drain'[t][i - 1] = drain[t][i]
          BY SMTT(30), <2>1, <2>2, <3>2
        <4> QED
          BY <4>1
      <3> QED
        BY <3>1, <3>2
    <2> QED
      BY SMTT(30), <2>1, <2>2, <2>3
  <1>d. /\ \A c \in Lib : Draining(c)' => Draining(c)
        /\ \A c \in Lib : Draining(c) /\ deps[c] # {} => Draining(c)'
    BY SMTT(30), <1>e, <1>i DEF Draining
  <1>1. ImageParts'
    BY <1>t, <1>i, <1>h, <1>g, SameImages DEF ImageParts, DyingMapped
  <1>2. CallParts'
    <2>1. \A u \in Thread : job[u].op = "bind" => u # t /\ NotDropping(u)
      BY <1>i, <1>g DEF CallParts, BindQuiet, NotDropping
    <2> QED
      BY <1>i, <1>e, <2>1, <1>g, SameCalls DEF NotDropping
  <1>3. UnbuiltOnce'
    <2>1. \A u \in Var : Unbuilt(u)' => Unbuilt(u) /\ var'[u].core = var[u].core
      BY <1>i DEF Unbuilt, Relocating
    <2>2. \A u \in Var : Unbuilt(u) => var[u].core \in Lib
      BY <1>t, <1>g, UnbuiltCore
    <2> QED
      BY <1>i, <1>h, <1>d, <2>1, <2>2, <1>g DEF SliceParts, UnbuiltOnce
  <1>4. SliceLoaded' BY <1>i, <1>h, <1>d, <1>g DEF SliceParts, SliceLoaded
  <1>5. SliceOwned' BY <1>i, <1>h, <1>d, <1>g DEF SliceParts, SliceOwned
  <1>6. Acyclic' BY SMTT(30), <1>i, <1>g DEF SliceParts, Acyclic
  <1> QED
    BY <1>1, <1>2, <1>3, <1>4, <1>5, <1>6 DEF Owned, SliceParts

-----------------------------------------------------------------------------
(* The theorems *)

\* dl_fixup runs inside a call or an initialiser.
FixCall == \A t \in Thread : fix[t].lib # None => job[t].op \in {"call", "init"}

\* A dl_fixup is part of a call or of an initialiser.
LEMMA FixCallStep == FixCall /\ TypeInv /\ [Next]_vars => FixCall'
  <1> SUFFICES ASSUME FixCall, TypeInv, [Next]_vars PROVE FixCall'
    OBVIOUS
  <1>t. Types
    BY TypesHold
  <1>1. ASSUME UNCHANGED <<job, fix>> PROVE FixCall'
    BY <1>1 DEF FixCall
  <1>2. ASSUME NEW t \in Thread, fix[t].lib = None, UNCHANGED fix,
               \A u \in Thread : u # t => job'[u] = job[u]
        PROVE  FixCall'
    BY <1>2 DEF FixCall
  <1>3. CASE UNCHANGED vars
    BY <1>1, <1>3 DEF vars
  <1>4. ASSUME NEW v \in Var, NEW l \in Lib, Load(v, l) PROVE FixCall'
    BY <1>1, <1>4 DEF Load
  <1>12. ASSUME NEW v \in Var, NEW w \in Var, Clone(v, w) \/ CloneCore(v, w) PROVE FixCall'
    BY <1>1, <1>12 DEF Clone, CloneCore
  <1>5. ASSUME NEW t \in Thread, NEW v \in Var, Call(t, v) \/ Drop(t, v) PROVE FixCall'
    BY <1>t, <1>2, <1>5 DEF Call, Drop, Idle, Types, JobTypes, EmptyValues
  <1>6. ASSUME NEW t \in Thread, NEW v \in Var, NEW ws \in SUBSET Var,
               Relocate(t, v, ws) \/ RelocateEmpty(t, v, ws)
        PROVE  FixCall'
    BY <1>t, <1>2, <1>6
       DEF Relocate, RelocateEmpty, StartRelocate, Idle, Types, JobTypes, EmptyValues
  <1>7. ASSUME NEW t \in Thread, Return(t) \/ Collect(t) PROVE FixCall'
    BY <1>t, <1>2, <1>7 DEF Return, Collect, Types, JobTypes, EmptyValues
  <1>8. ASSUME NEW t \in Thread, BindNow(t) \/ BindLazy(t) \/ BindFails(t) \/ Relocated(t)
        PROVE  FixCall'
    <2>1. fix[t].lib = None
      BY <1>8 DEF FixCall, BindNow, BindLazy, BindFails, Relocated
    <2> QED
      BY <1>t, <1>2, <1>8, <2>1
         DEF BindNow, BindLazy, BindAs, BindFails, Relocated, Types, JobTypes
  <1>9. ASSUME NEW t \in Thread, Fixup(t) PROVE FixCall'
    BY <1>t, <1>9 DEF FixCall, Fixup, Types, DropTypes
  <1>10. ASSUME NEW t \in Thread, FixupLookup(t) \/ FixupWrite(t) PROVE FixCall'
    <2>1. /\ UNCHANGED job /\ \A u \in Thread : u # t => fix'[u] = fix[u]
          /\ fix'[t].lib \in {fix[t].lib, None}
      BY SMTT(30), <1>t, <1>10 DEF FixupLookup, FixupWrite, Types, DropTypes, EmptyValues
    <2> QED
      BY <2>1 DEF FixCall
  <1>11. ASSUME NEW t \in Thread,
                \/ Unscope(t) \/ FixupAbort(t) \/ ReleaseCore(t) \/ Unmap(t)
                \/ ReleaseDeps(t) \/ DrainDeps(t) \/ FreeSlice(t)
         PROVE  FixCall'
    BY <1>1, <1>11
       DEF Unscope, FixupAbort, ReleaseCore, Unmap, ReleaseDeps, DrainDeps, FreeSlice
  <1> QED
    BY <1>3, <1>4, <1>5, <1>6, <1>7, <1>8, <1>9, <1>10, <1>11, <1>12 DEF Next, Internal

\* In the initial state nobody owns anything.
LEMMA OwnedInit == Init => Owned /\ FixCall
  <1> SUFFICES ASSUME Init PROVE Owned /\ FixCall
    OBVIOUS
  <1>t. Types
    BY TypeInit, TypesHold
  <1>1. /\ \A v \in Var : var[v] = NoHandle
        /\ \A t \in Thread : cur[t] = NoHandle /\ scope[t] = {} /\ dying[t] = None
                             /\ drain[t] = <<>> /\ fix[t] = NoFix /\ job[t] = NoJob
        /\ \A l \in Lib : deps[l] = {} /\ finis[l] = 0
        /\ mapped = {} /\ loaded = {}
    BY DEF Init
  <1>2. \A h \in Handles : h = NoHandle
    BY SMTT(30), <1>1 DEF Handles
  <1>3. \A l \in Lib : ~CoreHeld(l) /\ ~SliceHeld(l) /\ ~Draining(l)
    <2>1. \A l \in Lib : ~CoreHeld(l) /\ ~SliceHeld(l)
      BY <1>t, <1>2 DEF Types, CoreHeld, SliceHeld, EmptyValues
    <2>2. \A t \in Thread : DOMAIN drain[t] = {}
      BY SMTT(30), <1>1
    <2>3. \A l \in Lib : ~Draining(l)
      BY <2>2 DEF Draining
    <2> QED
      BY <2>1, <2>3
  <1>4. \A v \in Var : var[v].kind = "empty" /\ var[v].deps = None
    BY <1>t, <1>1 DEF Types, EmptyValues
  <1>5. \A t \in Thread : job[t].op = "none" /\ fix[t].lib = None
    BY <1>t, <1>1 DEF Types, EmptyValues
  <1>6. ImageParts
    BY <1>1, <1>3
       DEF ImageParts, HeldUsable, MappedOwned, OneDropper, DyingMapped, MappedLoaded,
           Finalised
  <1>7. CallParts
    BY <1>1, <1>4, <1>5
       DEF CallParts, MovingJob, OneJob, JobOwns, BindQuiet, ScopeIdle, NoSlice, InRelocate,
           Relocating
  <1>8. SliceParts
    BY <1>1, <1>3, <1>4, <1>5
       DEF SliceParts, UnbuiltOnce, SliceLoaded, SliceOwned, Acyclic, Unbuilt, Relocating
  <1> QED
    BY <1>5, <1>6, <1>7, <1>8 DEF Owned, FixCall

\* Every step of every program preserves the invariant.
LEMMA OwnedStep == Owned /\ FixCall /\ TypeInv /\ [Next]_vars => Owned'
  <1> SUFFICES ASSUME Owned, FixCall, TypeInv, [Next]_vars PROVE Owned'
    OBVIOUS
  <1>t. Types
    BY TypesHold
  <1>1. CASE UNCHANGED vars
    <2>g. ImageParts /\ CallParts /\ SliceParts
      BY DEF Owned
    <2>i. UNCHANGED <<loaded, mapped, isInit, finis, deps, var, job, scope, cur, drain, dying>>
      BY <1>1 DEF vars
    <2>1. ImageParts'
      BY <1>t, <2>i, <2>g, SameOwners, SameImages DEF ImageParts, DyingMapped
    <2>2. CallParts'
      BY <2>i, <2>g, SameCalls DEF CallParts, BindQuiet, NotDropping
    <2>3. \A u \in Var : Unbuilt(u)' => Unbuilt(u) /\ var'[u].core = var[u].core
      BY <2>i DEF Unbuilt, Relocating
    <2>4. SliceParts'
      BY <1>t, <2>i, <2>3, <2>g, SameOwners, SameSlices
    <2> QED
      BY <2>1, <2>2, <2>4 DEF Owned
  <1>2. ASSUME NEW t \in Thread, NEW v \in Var, Call(t, v) PROVE Owned'
    BY <1>t, <1>2, CallOwned DEF Call, image, Idle, InRelocate, Types, JobTypes, EmptyValues
  <1>3. ASSUME NEW t \in Thread, Return(t) PROVE Owned'
    BY <1>t, <1>3, CallOwned DEF Return, image, InRelocate, Types, JobTypes, EmptyValues
  <1>4. ASSUME NEW t \in Thread, Fixup(t) \/ FixupWrite(t) \/ FixupAbort(t) PROVE Owned'
    <2>1. /\ UNCHANGED <<loaded, mapped, isInit, finis, deps, var, scope, cur, drain, dying>>
          /\ \A u \in Thread : job'[u] = job[u]
      BY <1>4 DEF Fixup, FixupWrite, FixupAbort, image
    <2>2. job'[t] = job[t] \/ (~InRelocate(t) /\ job'[t].op \in {"none", "call"})
      BY <2>1
    <2> QED
      BY <2>1, <2>2, CallOwned
  <1>5. ASSUME NEW t \in Thread, NEW v \in Var, NEW ws \in SUBSET Var,
               Relocate(t, v, ws) \/ RelocateEmpty(t, v, ws)
        PROVE  Owned'
    BY <1>5, StartRelocateOwned DEF Relocate, RelocateEmpty
  <1>6. ASSUME NEW t \in Thread, BindNow(t) \/ BindLazy(t) PROVE Owned'
    BY <1>6, BindOwned DEF BindNow, BindLazy
  <1>7. ASSUME NEW t \in Thread, FixupLookup(t) PROVE Owned'
    <2>1. job[t].op # "bind"
      BY <1>7 DEF FixCall, FixupLookup
    <2> QED
      BY <1>7, <2>1, FixupLookupOwned
  <1> QED
    BY <1>1, <1>2, <1>3, <1>4, <1>5, <1>6, <1>7, LoadOwned, CloneOwned, DropOwned,
       BindFailsOwned, CollectOwned, UnscopeOwned, RelocatedOwned, ReleaseCoreOwned,
       UnmapOwned, ReleaseDepsOwned, DrainDepsOwned, FreeSliceOwned
       DEF Next, Internal

\* In every state of every program each image, pending call and slice of
\* libraries has an owner that will release it.
THEOREM OwnedHolds == Spec => []Owned
  <1>1. Init => TypeInv /\ Owned /\ FixCall
    BY TypeInit, OwnedInit
  <1>2. TypeInv /\ Owned /\ FixCall /\ [Next]_vars => (TypeInv /\ Owned /\ FixCall)'
    BY TypeStep, OwnedStep, FixCallStep
  <1> QED
    BY <1>1, <1>2, PTL DEF Spec

\* Once the program has dropped every value and no thread is inside the
\* library, every image is unmapped and every deps slice is freed: Arc
\* references never form a cycle and none is lost, not on the error path of
\* relocate_impl either.  For any program, ElfCore clones included.
THEOREM NothingLeaks == Spec => []NoLeak
  <1>1. Owned /\ TypeInv => NoLeak
    <2> SUFFICES ASSUME Owned, TypeInv, \A v \in Var : var[v] = NoHandle,
                        \A t \in Thread : Idle(t)
                 PROVE  mapped = {} /\ \A l \in Lib : deps[l] = {}
      BY DEF NoLeak
    <2>t. Types
      BY TypesHold
    <2>g. ImageParts /\ CallParts /\ SliceParts
      BY DEF Owned
    <2>1. \A t \in Thread : /\ cur[t] = NoHandle /\ drain[t] = <<>> /\ dying[t] = None
                            /\ job[t].op = "none"
      BY <2>t DEF Idle, NotDropping, Types, EmptyValues
    <2>2. \A t \in Thread : scope[t] = {}
      BY <2>1, <2>g DEF CallParts, ScopeIdle, InRelocate
    <2>3. \A l \in Lib : ~Draining(l)
      BY SMTT(30), <2>1 DEF Draining
    <2>4. \A h \in Handles : h # NoHandle => \E m \in Lib : h \in deps[m]
      BY SMTT(30), <2>1, <2>2 DEF Handles
    <2> DEFINE S == {l \in Lib : deps[l] # {}}
    <2>5. \A l \in S : \E m \in S : \E h \in deps[m] : h.deps = l
      <3> TAKE l \in S
      <3>1. SliceHeld(l)
        BY <2>3, <2>g DEF SliceParts, SliceOwned
      <3>2. PICK h \in Handles : h.deps = l
        BY <3>1 DEF SliceHeld
      <3>3. h # NoHandle
        BY <2>t, <3>2 DEF Types, EmptyValues
      <3> QED
        BY <2>4, <3>2, <3>3
    <2>6. S = {}
      <3> SUFFICES ASSUME S # {} PROVE FALSE
        OBVIOUS
      <3>1. S \in SUBSET Lib
        OBVIOUS
      <3>2. PICK l \in S : \A m \in S : \A h \in deps[m] : h.deps # l
        BY <3>1, <2>g DEF SliceParts, Acyclic
      <3> QED
        BY <2>5, <3>2
    <2>7. \A l \in Lib : deps[l] = {}
      BY <2>6
    <2>8. \A l \in Lib : ~CoreHeld(l)
      BY <2>t, <2>4, <2>7 DEF CoreHeld, Types, EmptyValues
    <2> QED
      BY SMTT(30), <2>t, <2>1, <2>7, <2>8, <2>g
         DEF ImageParts, MappedOwned, Types, ImageTypes, EmptyValues
  <1>2. Spec => []TypeInv
    BY TypeInit, TypeStep, PTL DEF Spec
  <1> QED
    BY <1>1, <1>2, OwnedHolds, PTL

\* Drop for CoreInner runs the finalisers of an image exactly once if finish()
\* had set is_init, when the last reference goes, and never otherwise.
THEOREM FinalisersRunOnce == Spec => []FinalisedOnce
  <1>1. Owned /\ TypeInv => FinalisedOnce
    BY DEF Owned, ImageParts, Finalised, FinalisedOnce, TypeInv, TypeOK
  <1>2. Spec => []TypeInv
    BY TypeInit, TypeStep, PTL DEF Spec
  <1> QED
    BY <1>1, <1>2, OwnedHolds, PTL

=============================================================================
