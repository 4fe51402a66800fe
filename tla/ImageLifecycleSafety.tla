------------------------ MODULE ImageLifecycleSafety ------------------------
(***************************************************************************)
(* NoDanglingBinding and RunningCodeMapped are invariants of every program *)
(* that keeps no ElfCore clones (CoreVar = {}): Parts, the conjunction of  *)
(* ImageLifecycleProofs, is inductive and implies both.                    *)
(*                                                                         *)
(* There is one lemma per action.  Step u of a lemma has the conjuncts     *)
(* whose variables the action leaves alone, and step n the n-th conjunct   *)
(* of Parts, in the order of its groups (g).  Before that a lemma says     *)
(* what the action does to the derived state the conjuncts are about: who  *)
(* owns images (h) and slices (s), what images reach (r) and which images  *)
(* wait for their slice (f).                                               *)
(***************************************************************************)
EXTENDS ImageLifecycleProofs

USE ZenonT(60)

-----------------------------------------------------------------------------
(* Loading, cloning and calling images, and the lazy bindings of dl_fixup *)

\* A new image has one owner, no slice and reaches nothing.
LEMMA LoadStep ==
  ASSUME Parts, TypeInv, TypeInv', NEW v \in Var, NEW l \in Lib, Load(v, l)
  PROVE Parts'
  <1>t. Types
    BY TypesHold
  <1>g. OwnParts /\ ShapeParts /\ JobParts /\ CoverParts /\ DropParts
    BY DEF Parts
  <1>v. UNCHANGED <<bound, lazy, weak, deps, job, scope, flags, fix, cur, drain,
                    dying>>
    BY DEF Load, image
  <1>u. /\ OneDropper' /\ ScopeShapes' /\ DepsShapes' /\ OneJob' /\ BindQuiet'
        /\ ScopeIdle' /\ JobUnbound' /\ ScopeCovers' /\ DropShape' /\ DyingShape'
        /\ FixJob' /\ FixLibs' /\ FixQuiet' /\ LazySliced'
    BY <1>v, Frame
  <1>h. \A c \in Lib : CoreHeld(c)' <=> CoreHeld(c) \/ c = l
    BY SMTT(30), <1>t DEF Types, CoreHeld, Handles, PlaceTypes, EmptyValues, Load
  <1>s. \A c \in Lib : SliceHeld(c)' <=> SliceHeld(c)
    BY SMTT(30), <1>t DEF Types, SliceHeld, Handles, EmptyValues, Load
  <1>r. \A c \in Lib : Reach(c)' = Reach(c) /\ (Isolated(c)' <=> Isolated(c))
    BY DEF Reach, Isolated, Load
  <1>w. \A u \in Var : var'[u] = IF u = v THEN [kind |-> "raw", core |-> l, deps |-> None]
                                  ELSE var[u]
    BY <1>t DEF Types, PlaceTypes, Load
  <1>f. \A c \in Lib : FreshLib(c)' => FreshLib(c) \/ c = l
    BY SMTT(30) DEF FreshLib, Fresh, Load
  <1>n. /\ ~CoreHeld(l) /\ ~SliceHeld(l)
        /\ \A u \in Var : var[u].core # l
        /\ \A t \in Thread : cur[t].core # l
        /\ \A t \in Thread : \A h \in scope[t] : h.core # l
        /\ \A c \in Lib : \A h \in deps[c] : h.core # l
    <2>1. ~CoreHeld(l) /\ ~SliceHeld(l)
      BY <1>g DEF HeldUsable, Usable, LoadedFirst, SlicesLoaded, OwnParts, Load
    <2> QED
      BY <2>1, Places
  <1>1. HeldUsable'
    BY <1>t, <1>h, <1>g
       DEF HeldUsable, Usable, Types, DyingMapped, LoadedFirst, OwnParts, EmptyValues, Load
  <1>2. MappedOwned' BY <1>t, <1>h, <1>g DEF MappedOwned, Types, OwnParts, ImageTypes, Load
  <1>4. DyingMapped' BY <1>g DEF DyingMapped, OwnParts, Load
  <1>5. LoadedFirst' BY <1>r, <1>g DEF LoadedFirst, OwnParts, Load
  <1>6. SlicesLoaded' BY <1>s, <1>g DEF SlicesLoaded, OwnParts, Load
  <1>7. VarShapes' BY <1>t, <1>g DEF VarShapes, Types, Raw, ShapeParts, PlaceTypes, Load
  <1>10. CallJob'
    BY <1>t, <1>g DEF CallJob, Types, JobParts, PlaceTypes, JobTypes, EmptyValues, Load
  <1>11. MovingJob'
    BY <1>t, <1>g
       DEF MovingJob, InRelocate, Types, JobParts, PlaceTypes, JobTypes, EmptyValues, Load
  <1>13. JobImage'
    BY <1>t, <1>g
       DEF JobImage, Relocating, Types, MovingJob, InRelocate, JobParts, PlaceTypes, JobTypes,
           EmptyValues, Load
  <1>15. UnscopeShape'
    BY <1>t, <1>g
       DEF UnscopeShape, Types, MovingJob, InRelocate, JobParts, PlaceTypes, JobTypes,
           EmptyValues, Load
  <1>17. Unique' BY SMTT(30), <1>s, <1>n, <1>g DEF Unique, Fresh, Sliced, CoverParts, Load
  <1>18. RawUnbound'
    BY <1>t, <1>r, <1>g
       DEF RawUnbound, Sliced, Types, LoadedFirst, CoverParts, OwnParts, PlaceTypes, Load
  <1>21. SliceCovers' BY <1>s, <1>r, <1>g DEF SliceCovers, CoverParts, Load
  <1>22. NoSliceYet' BY <1>f, <1>g DEF NoSliceYet, CoverParts, Load
  <1>23. DrainFree' BY <1>t, <1>s, <1>g DEF DrainFree, Types, CoverParts, ImageTypes, Load
  <1>24. DrainOld'
    <2>1. \A t \in Thread : \A i \in DOMAIN drain[t] :
            drain[t][i] \in Lib /\ drain[t][i] # l /\ ~FreshLib(drain[t][i])
      BY <1>t, <1>g DEF DrainFree, DrainOld, Types, CoverParts, ImageTypes, Load
    <2> QED
      BY <1>f, <2>1 DEF DrainOld, Load
  <1> QED
    BY <1>u, <1>1, <1>2, <1>4, <1>5, <1>6, <1>7, <1>10, <1>11, <1>13, <1>15, <1>17, <1>18,
       <1>21, <1>22, <1>23, <1>24
       DEF Parts, OwnParts, ShapeParts, JobParts, CoverParts, DropParts

\* LoadedCore::clone: the new owner shares core and slice.
LEMMA CloneStep ==
  ASSUME Parts, TypeInv, TypeInv', NEW v \in Var, NEW w \in Var, Clone(v, w)
  PROVE Parts'
  <1>t. Types
    BY TypesHold
  <1>g. OwnParts /\ ShapeParts /\ JobParts /\ CoverParts /\ DropParts
    BY DEF Parts
  <1>v. UNCHANGED <<loaded, mapped, bound, lazy, weak, deps, job, scope, flags, fix,
                    cur, drain, dying>>
    BY DEF Clone, image
  <1>u. /\ OneDropper' /\ LoadedFirst' /\ ScopeShapes' /\ DepsShapes' /\ OneJob'
        /\ BindQuiet' /\ ScopeIdle' /\ JobUnbound' /\ ScopeCovers' /\ DropShape'
        /\ DyingShape' /\ FixJob' /\ FixLibs' /\ FixQuiet' /\ LazySliced'
    BY <1>v, Frame
  <1>h. \A c \in Lib : CoreHeld(c)' <=> CoreHeld(c)
    BY SMTT(30), <1>t DEF Types, CoreHeld, Handles, EmptyValues, Clone
  <1>s. \A c \in Lib : SliceHeld(c)' <=> SliceHeld(c)
    BY SMTT(30), <1>t DEF Types, SliceHeld, Handles, EmptyValues, Clone
  <1>r. \A c \in Lib : Reach(c)' = Reach(c) /\ (Isolated(c)' <=> Isolated(c))
    BY DEF Reach, Isolated, Clone, image
  <1>w. \A u \in Var : var'[u] = IF u = w THEN var[v] ELSE var[u]
    BY <1>t DEF Types, PlaceTypes, Clone
  <1>f. \A c \in Lib : FreshLib(c)' => FreshLib(c)
    BY <1>w DEF FreshLib, Fresh
  <1>x. ~Fresh(v) /\ ~Fresh(w)
    BY <1>t, <1>g
       DEF Types, VarShapes, Full, Raw, Fresh, Sliced, ShapeParts, EmptyValues, Clone
  <1>1. HeldUsable' BY <1>h, <1>g DEF HeldUsable, Usable, OwnParts, Clone, image
  <1>2. MappedOwned'
    BY <1>t, <1>h, <1>g DEF MappedOwned, Types, OwnParts, ImageTypes, Clone, image
  <1>4. DyingMapped' BY <1>g DEF DyingMapped, OwnParts, Clone, image
  <1>6. SlicesLoaded' BY <1>s, <1>g DEF SlicesLoaded, OwnParts, Clone, image
  <1>7. VarShapes' BY <1>t, <1>g DEF VarShapes, Types, ShapeParts, PlaceTypes, Clone
  <1>10. CallJob'
    BY <1>t, <1>g DEF CallJob, Types, JobParts, PlaceTypes, JobTypes, EmptyValues, Clone
  <1>11. MovingJob'
    BY SMTT(30), <1>t, <1>g DEF MovingJob, InRelocate, Types, JobParts, EmptyValues, Clone
  <1>13. JobImage'
    BY SMTT(30), <1>t, <1>g DEF JobImage, Relocating, Types, JobParts, EmptyValues, Clone
  <1>15. UnscopeShape'
    BY <1>t, <1>g
       DEF UnscopeShape, Types, MovingJob, InRelocate, JobParts, PlaceTypes, JobTypes,
           EmptyValues, Clone
  <1>17. Unique' BY SMTT(30), <1>s, <1>x, <1>g DEF Unique, Fresh, Sliced, CoverParts, Clone
  <1>18. RawUnbound'
    BY <1>t, <1>r, <1>g DEF RawUnbound, Sliced, Types, CoverParts, PlaceTypes, Clone
  <1>21. SliceCovers' BY <1>s, <1>r, <1>g DEF SliceCovers, CoverParts, Clone
  <1>22. NoSliceYet' BY <1>f, <1>g DEF NoSliceYet, CoverParts, Clone, image
  <1>23. DrainFree'
    BY <1>t, <1>s, <1>g DEF DrainFree, Types, CoverParts, ImageTypes, Clone, image
  <1>24. DrainOld'
    BY <1>t, <1>f, <1>g DEF DrainOld, DrainFree, Types, CoverParts, ImageTypes, Clone
  <1> QED
    BY <1>u, <1>1, <1>2, <1>4, <1>6, <1>7, <1>10, <1>11, <1>13, <1>15, <1>17, <1>18, <1>21,
       <1>22, <1>23, <1>24
       DEF Parts, OwnParts, ShapeParts, JobParts, CoverParts, DropParts

\* A call of a symbol.
LEMMA CallStep ==
  ASSUME Parts, TypeInv, TypeInv', NEW t \in Thread, NEW v \in Var, Call(t, v)
  PROVE Parts'
  <1>t. Types
    BY TypesHold
  <1>g. OwnParts /\ ShapeParts /\ JobParts /\ CoverParts /\ DropParts
    BY DEF Parts
  <1>v. UNCHANGED <<loaded, mapped, bound, lazy, weak, deps, var, scope, flags, fix,
                    cur, drain, dying>>
    BY DEF Call, image
  <1>u. /\ HeldUsable' /\ MappedOwned' /\ OneDropper' /\ DyingMapped' /\ LoadedFirst'
        /\ SlicesLoaded' /\ VarShapes' /\ ScopeShapes' /\ DepsShapes' /\ Unique'
        /\ RawUnbound' /\ SliceCovers' /\ NoSliceYet' /\ DrainFree' /\ DrainOld'
        /\ DropShape' /\ DyingShape' /\ FixLibs' /\ FixQuiet' /\ LazySliced'
    BY <1>v, Frame
  <1>r. \A c \in Lib : Reach(c)' = Reach(c) /\ (Isolated(c)' <=> Isolated(c))
    BY DEF Reach, Isolated, Call, image, Idle
  <1>10. CallJob' BY <1>t, <1>g DEF CallJob, Types, JobParts, JobTypes, Call
  <1>11. MovingJob'
    BY <1>t, <1>g DEF MovingJob, InRelocate, Types, JobParts, JobTypes, EmptyValues, Call, Idle
  <1>12. OneJob' BY <1>t, <1>g DEF OneJob, InRelocate, Types, JobParts, JobTypes, Call
  <1>13. JobImage' BY <1>t, <1>g DEF JobImage, Relocating, Types, JobParts, JobTypes, Call
  <1>14. BindQuiet' BY <1>t, <1>g DEF BindQuiet, NotDropping, Types, JobParts, JobTypes, Call
  <1>15. UnscopeShape' BY <1>t, <1>g DEF UnscopeShape, Types, JobParts, JobTypes, Call
  <1>16. ScopeIdle'
    BY <1>t, <1>g DEF ScopeIdle, InRelocate, Types, JobParts, JobTypes, EmptyValues, Call, Idle
  <1>19. JobUnbound' BY <1>t, <1>r, <1>g DEF JobUnbound, Types, CoverParts, JobTypes, Call
  <1>20. ScopeCovers'
    BY <1>t, <1>r, <1>g DEF ScopeCovers, Types, CoverParts, PlaceTypes, JobTypes, Call
  <1>27. FixJob' BY <1>t, <1>g DEF FixJob, Types, DropParts, JobTypes, EmptyValues, Call, Idle
  <1> QED
    BY <1>u, <1>10, <1>11, <1>12, <1>13, <1>14, <1>15, <1>16, <1>19, <1>20, <1>27
       DEF Parts, OwnParts, ShapeParts, JobParts, CoverParts, DropParts

\* The return of a called symbol.
LEMMA ReturnStep ==
  ASSUME Parts, TypeInv, TypeInv', NEW t \in Thread, Return(t)
  PROVE Parts'
  <1>t. Types
    BY TypesHold
  <1>g. OwnParts /\ ShapeParts /\ JobParts /\ CoverParts /\ DropParts
    BY DEF Parts
  <1>v. UNCHANGED <<loaded, mapped, bound, lazy, weak, deps, var, scope, flags, fix,
                    cur, drain, dying>>
    BY DEF Return, image
  <1>u. /\ HeldUsable' /\ MappedOwned' /\ OneDropper' /\ DyingMapped' /\ LoadedFirst'
        /\ SlicesLoaded' /\ VarShapes' /\ ScopeShapes' /\ DepsShapes' /\ Unique'
        /\ RawUnbound' /\ SliceCovers' /\ NoSliceYet' /\ DrainFree' /\ DrainOld'
        /\ DropShape' /\ DyingShape' /\ FixLibs' /\ FixQuiet' /\ LazySliced'
    BY <1>v, Frame
  <1>r. \A c \in Lib : Reach(c)' = Reach(c) /\ (Isolated(c)' <=> Isolated(c))
    BY DEF Reach, Isolated, Return, image
  <1>10. CallJob' BY <1>t, <1>g DEF CallJob, Types, JobParts, JobTypes, EmptyValues, Return
  <1>11. MovingJob'
    BY <1>t, <1>g DEF MovingJob, InRelocate, Types, JobParts, JobTypes, EmptyValues, Return
  <1>12. OneJob'
    BY <1>t, <1>g DEF OneJob, InRelocate, Types, JobParts, JobTypes, EmptyValues, Return
  <1>13. JobImage'
    BY <1>t, <1>g DEF JobImage, Relocating, Types, JobParts, JobTypes, EmptyValues, Return
  <1>14. BindQuiet' BY <1>t, <1>g DEF BindQuiet, NotDropping, Types, JobParts, JobTypes, Return
  <1>15. UnscopeShape'
    BY <1>t, <1>g DEF UnscopeShape, Types, JobParts, JobTypes, EmptyValues, Return
  <1>16. ScopeIdle'
    BY <1>t, <1>g DEF ScopeIdle, InRelocate, Types, JobParts, PlaceTypes, JobTypes, Return
  <1>19. JobUnbound'
    BY <1>t, <1>r, <1>g DEF JobUnbound, Types, CoverParts, JobTypes, EmptyValues, Return
  <1>20. ScopeCovers'
    BY <1>t, <1>r, <1>g
       DEF ScopeCovers, Types, CoverParts, PlaceTypes, JobTypes, EmptyValues, Return
  <1>27. FixJob' BY <1>t, <1>g DEF FixJob, Types, DropParts, JobTypes, EmptyValues, Return
  <1> QED
    BY <1>u, <1>10, <1>11, <1>12, <1>13, <1>14, <1>15, <1>16, <1>19, <1>20, <1>27
       DEF Parts, OwnParts, ShapeParts, JobParts, CoverParts, DropParts

\* dl_fixup starts with the libraries of the lazy scope.
LEMMA FixupStep ==
  ASSUME Parts, TypeInv, TypeInv', NEW t \in Thread, Fixup(t)
  PROVE Parts'
  <1>t. Types
    BY TypesHold
  <1>g. OwnParts /\ ShapeParts /\ JobParts /\ CoverParts /\ DropParts
    BY DEF Parts
  <1>v. UNCHANGED <<loaded, mapped, bound, lazy, weak, deps, var, job, scope, flags,
                    cur, drain, dying>>
    BY DEF Fixup, image
  <1>u. /\ HeldUsable' /\ MappedOwned' /\ OneDropper' /\ DyingMapped' /\ LoadedFirst'
        /\ SlicesLoaded' /\ VarShapes' /\ ScopeShapes' /\ DepsShapes' /\ CallJob'
        /\ MovingJob' /\ OneJob' /\ JobImage' /\ BindQuiet' /\ UnscopeShape'
        /\ ScopeIdle' /\ Unique' /\ RawUnbound' /\ JobUnbound' /\ ScopeCovers'
        /\ SliceCovers' /\ NoSliceYet' /\ DrainFree' /\ DrainOld' /\ DyingShape'
        /\ LazySliced'
    BY <1>v, Frame
  <1>r. \A c \in Lib : Reach(c)' = Reach(c) /\ (Isolated(c)' <=> Isolated(c))
    BY DEF Reach, Isolated, Fixup, image
  <1>25. DropShape'
    BY <1>t, <1>r, <1>g
       DEF DropShape, Sliced, Types, NotDropping, DropParts, DropTypes, EmptyValues, Fixup
  <1>27. FixJob'
    BY <1>t, <1>g DEF FixJob, Types, LazySliced, DropParts, JobTypes, DropTypes, Fixup
  <1>28. FixLibs'
    BY <1>t, <1>g
       DEF FixLibs, Types, NotDropping, DropParts, DropTypes, EmptyValues, Fixup, image
  <1>29. FixQuiet'
    BY <1>t, <1>g
       DEF FixQuiet, Types, NotDropping, DropParts, JobTypes, DropTypes, EmptyValues, Fixup
  <1> QED
    BY <1>u, <1>25, <1>27, <1>28, <1>29
       DEF Parts, OwnParts, ShapeParts, JobParts, CoverParts, DropParts

\* LazyScope::lookup: the library is owned by the slice or the scope.
LEMMA FixupLookupStep ==
  ASSUME Parts, TypeInv, TypeInv', NEW t \in Thread, FixupLookup(t)
  PROVE Parts'
  <1>t. Types
    BY TypesHold
  <1>g. OwnParts /\ ShapeParts /\ JobParts /\ CoverParts /\ DropParts
    BY DEF Parts
  <1>w. UNCHANGED <<loaded, mapped, bound, lazy, weak, deps, var, job, scope, flags,
                    drain, dying>>
    BY DEF FixupLookup, image
  <1>u. /\ OneDropper' /\ LoadedFirst' /\ VarShapes' /\ ScopeShapes' /\ DepsShapes'
        /\ CallJob' /\ MovingJob' /\ OneJob' /\ JobImage' /\ UnscopeShape'
        /\ ScopeIdle' /\ RawUnbound' /\ JobUnbound' /\ ScopeCovers' /\ DrainOld'
        /\ LazySliced'
    BY <1>w, Frame
  <1>p. PICK a \in fix[t].cand, hit \in Lib \cup {None} :
          /\ fix' = [fix EXCEPT ![t] = [lib |-> fix[t].lib,
                                        cand |-> fix[t].cand \ {a}, hit |-> hit]]
          /\ \/ /\ CoreHeld(a) /\ hit \in {a, None}
                /\ cur' = [cur EXCEPT ![t] = from_core(a)]
             \/ /\ ~CoreHeld(a) /\ hit = None
                /\ UNCHANGED cur
    BY DEF FixupLookup
  <1>q. /\ fix[t].lib # None /\ cur[t] = NoHandle /\ dying[t] = None /\ drain[t] = <<>>
        /\ a \in weak[fix[t].lib]
    BY <1>g DEF FixupLookup, NotDropping, FixLibs, DropParts
  <1>v. /\ fix[t].lib \in Lib /\ a \in Lib
        /\ (\E h \in scope[t] : h.core = a) \/ (\E h \in deps[fix[t].lib] : h.core = a)
    BY <1>t, <1>q, Covered
  <1>x. /\ \A u \in Thread : u # t => fix'[u] = fix[u]
        /\ fix'[t].lib = fix[t].lib /\ fix'[t].cand \subseteq fix[t].cand
        /\ fix'[t].hit \in {a, None}
    BY <1>t, <1>p DEF Types, DropTypes
  <1>k. /\ \A u \in Thread : u # t => cur'[u] = cur[u]
        /\ cur'[t].core = a /\ cur'[t].deps = None
    <2>1. CoreHeld(a)
      BY <1>v, Places
    <2>2. cur' = [cur EXCEPT ![t] = from_core(a)]
      BY <1>p, <2>1
    <2> QED
      BY <1>t, <2>2 DEF Types, from_core, PlaceTypes
  <1>i. UNCHANGED <<image, deps, var, job, scope, flags, drain, dying>>
    BY DEF FixupLookup
  <1>h. \A c \in Lib : CoreHeld(c)' <=> CoreHeld(c)
    BY SMTT(30), <1>t, <1>q, <1>k, <1>v, <1>i DEF Types, CoreHeld, Handles, EmptyValues
  <1>s. \A c \in Lib : SliceHeld(c)' <=> SliceHeld(c)
    BY SMTT(30), <1>t, <1>q, <1>k, <1>i DEF Types, SliceHeld, Handles, EmptyValues
  <1>r. \A c \in Lib : Reach(c)' = Reach(c) /\ (Isolated(c)' <=> Isolated(c))
    BY <1>i DEF Reach, Isolated, image
  <1>f. \A c \in Lib : FreshLib(c)' => FreshLib(c)
    BY <1>t, <1>i DEF Types, FreshLib, Fresh
  <1>1. HeldUsable' BY <1>t, <1>h, <1>g, <1>i DEF HeldUsable, Usable, Types, OwnParts, image
  <1>2. MappedOwned'
    BY <1>t, <1>h, <1>g, <1>i DEF MappedOwned, Types, OwnParts, ImageTypes, image
  <1>4. DyingMapped' BY <1>q, <1>g, <1>k, <1>i DEF DyingMapped, OwnParts, image
  <1>6. SlicesLoaded' BY <1>t, <1>s, <1>g, <1>i DEF SlicesLoaded, Types, OwnParts, image
  <1>14. BindQuiet'
    BY <1>q, <1>g, <1>k, <1>i DEF BindQuiet, NotDropping, FixJob, JobParts, DropParts
  <1>17. Unique'
    <2> SUFFICES ASSUME NEW u \in Var, Fresh(u)
                 PROVE \A y \in Thread : cur'[y].core # var[u].core
      BY <1>s, <1>g, <1>i DEF Unique, Fresh, Sliced, CoverParts
    <2> QED
      BY SMTT(30), <1>k, <1>g, <1>v DEF Unique, CoverParts
  <1>21. SliceCovers' BY <1>t, <1>s, <1>r, <1>g, <1>i DEF SliceCovers, Types, CoverParts
  <1>22. NoSliceYet' BY <1>t, <1>f, <1>g, <1>i DEF NoSliceYet, Types, CoverParts, image
  <1>23. DrainFree'
    BY <1>t, <1>s, <1>g, <1>i DEF DrainFree, Types, CoverParts, ImageTypes, image
  <1>25. DropShape' BY <1>r, <1>q, <1>g, <1>x, <1>k DEF DropShape, Sliced, DropParts
  <1>26. DyingShape'
    BY <1>t, <1>r, <1>q, <1>g, <1>k, <1>i DEF DyingShape, Types, DropParts, DropTypes
  <1>27. FixJob' BY <1>g, <1>x, <1>i DEF FixJob, DropParts
  <1>28. FixLibs' BY SMTT(30), <1>g, <1>x, <1>k, <1>i DEF FixLibs, DropParts, image
  <1>29. FixQuiet' BY <1>q, <1>g, <1>x, <1>k, <1>i DEF FixQuiet, DropParts
  <1> QED
    BY <1>u, <1>1, <1>2, <1>4, <1>6, <1>14, <1>17, <1>21, <1>22, <1>23, <1>25, <1>26, <1>27,
       <1>28, <1>29
       DEF Parts, OwnParts, ShapeParts, JobParts, CoverParts, DropParts

\* dl_fixup writes an address of a library its lazy scope names.
LEMMA FixupWriteStep ==
  ASSUME Parts, TypeInv, TypeInv', NEW t \in Thread, FixupWrite(t)
  PROVE Parts'
  <1>t. Types
    BY TypesHold
  <1>g. OwnParts /\ ShapeParts /\ JobParts /\ CoverParts /\ DropParts
    BY DEF Parts
  <1>v. UNCHANGED <<loaded, mapped, lazy, weak, deps, var, job, scope, flags, cur,
                    drain, dying>>
    BY DEF FixupWrite, image
  <1>u. /\ HeldUsable' /\ MappedOwned' /\ OneDropper' /\ DyingMapped' /\ SlicesLoaded'
        /\ VarShapes' /\ ScopeShapes' /\ DepsShapes' /\ CallJob' /\ MovingJob'
        /\ OneJob' /\ JobImage' /\ BindQuiet' /\ UnscopeShape' /\ ScopeIdle'
        /\ Unique' /\ NoSliceYet' /\ DrainFree' /\ DrainOld' /\ LazySliced'
    BY <1>v, Frame
  <1>s. \A c \in Lib : SliceHeld(c)' <=> SliceHeld(c)
    BY <1>t DEF Types, SliceHeld, Handles, FixupWrite
  <1>r. \A c \in Lib : Reach(c)' = Reach(c) /\ (Isolated(c)' <=> Isolated(c))
    <2>1. fix[t].lib # None
      BY <1>t, <1>g DEF Types, FixQuiet, DropParts, EmptyValues, FixupWrite
    <2>2. fix[t].hit \in weak[fix[t].lib] /\ fix[t].lib \in Lib
      BY <1>t, <2>1, <1>g DEF Types, FixLibs, FixJob, Sliced, DropParts, FixupWrite
    <2> QED
      BY SMTT(30), <1>t, <2>2 DEF Reach, Isolated, Types, FixupWrite
  <1>5. LoadedFirst' BY <1>t, <1>r, <1>g DEF LoadedFirst, Types, OwnParts, FixupWrite
  <1>18. RawUnbound' BY <1>t, <1>r, <1>g DEF RawUnbound, Sliced, Types, CoverParts, FixupWrite
  <1>19. JobUnbound'
    BY <1>t, <1>r, <1>g DEF JobUnbound, Types, CoverParts, JobTypes, FixupWrite
  <1>20. ScopeCovers'
    BY <1>t, <1>r, <1>g DEF ScopeCovers, Types, CoverParts, PlaceTypes, JobTypes, FixupWrite
  <1>21. SliceCovers' BY <1>t, <1>s, <1>r, <1>g DEF SliceCovers, Types, CoverParts, FixupWrite
  <1>25. DropShape'
    BY <1>t, <1>r, <1>g
       DEF DropShape, Sliced, Types, NotDropping, DropParts, DropTypes, EmptyValues, FixupWrite
  <1>26. DyingShape'
    BY <1>t, <1>r, <1>g DEF DyingShape, Types, DropParts, DropTypes, FixupWrite
  <1>27. FixJob' BY <1>t, <1>g DEF FixJob, Types, DropParts, DropTypes, EmptyValues, FixupWrite
  <1>28. FixLibs'
    BY <1>t, <1>g DEF FixLibs, Types, DropParts, DropTypes, EmptyValues, FixupWrite
  <1>29. FixQuiet' BY <1>t, <1>g DEF FixQuiet, Types, DropParts, DropTypes, FixupWrite
  <1> QED
    BY <1>u, <1>5, <1>18, <1>19, <1>20, <1>21, <1>25, <1>26, <1>27, <1>28, <1>29
       DEF Parts, OwnParts, ShapeParts, JobParts, CoverParts, DropParts, FixupWrite

\* dl_fixup finds no definition.
LEMMA FixupAbortStep ==
  ASSUME Parts, TypeInv, TypeInv', NEW t \in Thread, FixupAbort(t)
  PROVE Parts'
  <1>t. Types
    BY TypesHold
  <1>g. OwnParts /\ ShapeParts /\ JobParts /\ CoverParts /\ DropParts
    BY DEF Parts
  <1>v. UNCHANGED <<loaded, mapped, bound, lazy, weak, deps, var, job, scope, flags,
                    fix, cur, drain, dying>>
    BY DEF FixupAbort, image
  <1>u. /\ HeldUsable' /\ MappedOwned' /\ OneDropper' /\ DyingMapped' /\ LoadedFirst'
        /\ SlicesLoaded' /\ VarShapes' /\ ScopeShapes' /\ DepsShapes' /\ CallJob'
        /\ MovingJob' /\ OneJob' /\ JobImage' /\ BindQuiet' /\ UnscopeShape'
        /\ ScopeIdle' /\ Unique' /\ RawUnbound' /\ JobUnbound' /\ ScopeCovers'
        /\ SliceCovers' /\ NoSliceYet' /\ DrainFree' /\ DrainOld' /\ DropShape'
        /\ DyingShape' /\ FixJob' /\ FixLibs' /\ FixQuiet' /\ LazySliced'
    BY <1>v, Frame
  <1> QED
    BY <1>u DEF Parts, OwnParts, ShapeParts, JobParts, CoverParts, DropParts

-----------------------------------------------------------------------------
(* relocate() up to its initialisers *)

\* relocate() starts: the scope is a copy of LoadedCores of the program.
LEMMA StartRelocateStep ==
  ASSUME Parts, TypeInv, TypeInv',
         NEW t \in Thread, NEW v \in Var, NEW ws \in SUBSET Var,
         NEW op \in {"bind", "unscope"},
         op = "bind" <=> var[v].core \notin Trivial,
         StartRelocate(t, v, ws, op)
  PROVE Parts'
  <1>t. Types
    BY TypesHold
  <1>g. OwnParts /\ ShapeParts /\ JobParts /\ CoverParts /\ DropParts
    BY DEF Parts
  <1>v. UNCHANGED <<loaded, mapped, bound, lazy, weak, deps, flags, fix, cur, drain,
                    dying>>
    BY DEF StartRelocate, image
  <1>u. /\ OneDropper' /\ LoadedFirst' /\ DepsShapes' /\ DropShape' /\ DyingShape'
        /\ FixLibs' /\ FixQuiet' /\ LazySliced'
    BY <1>v, Frame
  <1>q. /\ Raw(var[v]) /\ var[v].core \in Lib /\ var[v].deps = None /\ var[v].kind = "raw"
        /\ job[t].op = "none" /\ NotDropping(t)
        /\ cur[t] = NoHandle /\ dying[t] = None /\ fix[t].lib = None
        /\ scope[t] = {}
    <2>1. Raw(var[v]) /\ var[v].kind = "raw"
      BY <1>t, <1>g DEF StartRelocate, Types, VarShapes, Full, ShapeParts, EmptyValues
    <2>2. /\ job[t].op = "none" /\ NotDropping(t) /\ fix[t].lib = None
          /\ cur[t] = NoHandle /\ dying[t] = None
      BY <1>t DEF StartRelocate, Types, Idle, NotDropping, EmptyValues
    <2>3. scope[t] = {}
      BY <2>2, <1>g DEF ScopeIdle, InRelocate, JobParts
    <2> QED
      BY <2>1, <2>2, <2>3 DEF Raw
  <1>w. /\ \A u \in Var : u # v => var'[u] = var[u]
        /\ var'[v].kind = "moving" /\ var'[v].core = var[v].core /\ var'[v].deps = None
    BY <1>t DEF StartRelocate, Types, from_core, PlaceTypes
  <1>c. /\ \A u \in Thread : u # t => scope'[u] = scope[u]
        /\ \A h \in scope'[t] : \E x \in Var : x # v /\ h = var[x] /\ Full(h)
    <2>1. \A x \in ws : x \in Var /\ x # v /\ Full(var[x])
      BY <1>t, <1>q, <1>g DEF StartRelocate, Types, VarShapes, Raw, ShapeParts, EmptyValues
    <2>2. scope' = [scope EXCEPT ![t] = {var[x] : x \in ws}]
      BY DEF StartRelocate
    <2> QED
      BY <1>t, <2>1 DEF Types, PlaceTypes, StartRelocate
  <1>j. /\ \A u \in Thread : u # t => job'[u] = job[u]
        /\ job'[t].op = op /\ job'[t].v = v /\ job'[t].lib = var[v].core
    BY <1>t DEF StartRelocate, Types, JobTypes
  <1>i. UNCHANGED <<image, deps, flags, fix, cur, drain, dying>>
    BY DEF StartRelocate
  <1>a. op = "unscope" => Full(As(var'[v], "loaded"))
    BY <1>q, <1>w DEF Full, As, Sliced
  <1>h. \A c \in Lib : CoreHeld(c)' <=> CoreHeld(c)
    BY SMTT(30), <1>q, <1>w, <1>c, <1>i DEF CoreHeld, Handles
  <1>s. \A c \in Lib : SliceHeld(c)' <=> SliceHeld(c)
    BY SMTT(30), <1>q, <1>w, <1>c, <1>i DEF SliceHeld, Handles
  <1>r. \A c \in Lib : Reach(c)' = Reach(c) /\ (Isolated(c)' <=> Isolated(c))
    BY <1>i DEF Reach, Isolated, image
  <1>f. \A c \in Lib : FreshLib(c)' => FreshLib(c)
    BY <1>q, <1>w DEF FreshLib, Fresh
  <1>1. HeldUsable' BY <1>h, <1>g, <1>i DEF HeldUsable, Usable, OwnParts, image
  <1>2. MappedOwned'
    BY <1>t, <1>h, <1>g, <1>i DEF MappedOwned, Types, OwnParts, ImageTypes, image
  <1>4. DyingMapped' BY <1>t, <1>g, <1>i DEF DyingMapped, Types, OwnParts, image
  <1>6. SlicesLoaded' BY <1>t, <1>s, <1>g, <1>i DEF SlicesLoaded, Types, OwnParts, image
  <1>7. VarShapes' BY <1>g, <1>w DEF VarShapes, ShapeParts
  <1>8. ScopeShapes' BY <1>t, <1>g, <1>c DEF ScopeShapes, Types, ShapeParts
  <1>10. CallJob'
    BY SMTT(30), <1>t, <1>q, <1>g, <1>w, <1>j DEF CallJob, Types, JobParts, JobTypes
  <1>11. MovingJob'
    BY SMTT(30), <1>t, <1>q, <1>g, <1>w, <1>j
       DEF MovingJob, InRelocate, Types, JobParts, JobTypes
  <1>12. OneJob'
    BY SMTT(30), <1>q, <1>g, <1>c, <1>j DEF OneJob, InRelocate, MovingJob, JobParts
  <1>13. JobImage'
    BY SMTT(30), <1>t, <1>q, <1>g, <1>w, <1>j
       DEF JobImage, Relocating, Types, JobParts, JobTypes
  <1>14. BindQuiet' BY <1>q, <1>g, <1>j, <1>i DEF BindQuiet, NotDropping, JobParts
  <1>15. UnscopeShape'
    <2>1. \A u \in Thread : u # t /\ job[u].op = "unscope" => job[u].v \in Var /\ job[u].v # v
      BY <1>t, <1>q, <1>g DEF Types, MovingJob, InRelocate, JobParts, JobTypes
    <2>2. job'[t].op = "unscope" => Full(As(var'[job'[t].v], "loaded"))
      BY <1>a, <1>w, <1>c, <1>j, <1>i
    <2> QED
      BY SMTT(30), <2>1, <2>2, <1>g, <1>w, <1>j DEF UnscopeShape, JobParts
  <1>16. ScopeIdle' BY <1>t, <1>g, <1>c, <1>j DEF ScopeIdle, InRelocate, Types, JobParts
  <1>17. Unique'
    <2> SUFFICES ASSUME NEW u \in Var, Fresh(u)'
                 PROVE /\ \A x \in Var : var'[x].core = var'[u].core => x = u
                       /\ \A y \in Thread : cur'[y].core # var'[u].core
                       /\ \A y \in Thread : \A h \in scope'[y] : h.core # var'[u].core
                       /\ \A c \in Lib : \A h \in deps'[c] : h.core # var'[u].core
                       /\ ~SliceHeld(var[u].core)'
      BY DEF Unique
    <2>1. Fresh(u) /\ var'[u].core = var[u].core /\ var[u].core \in Lib
      BY <1>q, <1>w DEF Fresh, Sliced
    <2>2. \A x \in Var : Full(var[x]) => var[x].core # var[u].core
      BY <1>t, <2>1, <1>g DEF Types, Unique, Full, Fresh, CoverParts, EmptyValues
    <2>3. \A y \in Thread : \A h \in scope'[y] : h.core # var[u].core
      BY SMTT(30), <2>1, <2>2, <1>g, <1>c DEF Unique, CoverParts
    <2>4. ~SliceHeld(var[u].core)'
      BY <1>s, <2>1, <1>g DEF Unique, CoverParts
    <2> QED
      BY SMTT(30), <2>1, <2>3, <2>4, <1>g, <1>w, <1>i DEF Unique, CoverParts
  <1>18. RawUnbound' BY <1>r, <1>g, <1>w DEF RawUnbound, Sliced, CoverParts
  <1>19. JobUnbound'
    BY <1>t, <1>r, <1>q, <1>g, <1>j DEF JobUnbound, Types, RawUnbound, CoverParts, JobTypes
  <1>20. ScopeCovers'
    <2>1. \A u \in Thread : job'[u].op = "init" => u # t /\ job'[u] = job[u] /\ job[u].lib \in Lib
      BY <1>t, <1>j DEF Types, JobTypes
    <2> QED
      BY SMTT(30), <1>r, <2>1, <1>g, <1>c, <1>i DEF ScopeCovers, CoverParts
  <1>21. SliceCovers' BY <1>t, <1>s, <1>r, <1>g, <1>i DEF SliceCovers, Types, CoverParts
  <1>22. NoSliceYet' BY <1>t, <1>f, <1>g, <1>i DEF NoSliceYet, Types, CoverParts, image
  <1>23. DrainFree'
    BY <1>t, <1>s, <1>g, <1>i DEF DrainFree, Types, CoverParts, ImageTypes, image
  <1>24. DrainOld'
    BY <1>t, <1>f, <1>g, <1>i DEF DrainOld, DrainFree, Types, CoverParts, ImageTypes
  <1>27. FixJob' BY <1>q, <1>g, <1>j, <1>i DEF FixJob, DropParts
  <1> QED
    BY <1>u, <1>1, <1>2, <1>4, <1>6, <1>7, <1>8, <1>10, <1>11, <1>12, <1>13, <1>14, <1>15,
       <1>16, <1>17, <1>18, <1>19, <1>20, <1>21, <1>22, <1>23, <1>24, <1>27
       DEF Parts, OwnParts, ShapeParts, JobParts, CoverParts, DropParts

\* A failed relocation drops an image that reaches nothing.
LEMMA BindFailsStep ==
  ASSUME Parts, TypeInv, TypeInv', NEW t \in Thread, BindFails(t)
  PROVE Parts'
  <1>t. Types
    BY TypesHold
  <1>g. OwnParts /\ ShapeParts /\ JobParts /\ CoverParts /\ DropParts
    BY DEF Parts
  <1>v. UNCHANGED <<loaded, mapped, bound, lazy, weak, deps, scope, flags, fix,
                    drain, dying>>
    BY DEF BindFails, image
  <1>u. /\ OneDropper' /\ LoadedFirst' /\ ScopeShapes' /\ DepsShapes' /\ LazySliced'
    BY <1>v, Frame
  <1>q. /\ job[t].op = "bind" /\ cur[t] = NoHandle /\ dying[t] = None
        /\ job[t].v \in Var /\ job[t].lib \in Lib
    BY <1>t, <1>g DEF BindFails, Types, BindQuiet, NotDropping, JobParts, JobTypes
  <1>w. \A u \in Var : var'[u] = IF u = job[t].v THEN Moved ELSE var[u]
    BY <1>t DEF BindFails, Types, PlaceTypes
  <1>c. \A u \in Thread : cur'[u] = IF u = t THEN var[job[t].v] ELSE cur[u]
    BY <1>t DEF BindFails, DroppedOnError, Types, PlaceTypes
  <1>j. /\ \A u \in Thread : u # t => job'[u] = job[u]
        /\ job'[t].op = "unscope" /\ job'[t].v = job[t].v /\ job'[t].lib = job[t].lib
    BY <1>t DEF BindFails, Types, Stage, JobTypes
  <1>i. UNCHANGED <<image, deps, scope, flags, fix, drain, dying>>
    BY DEF BindFails
  <1>h. \A c \in Lib : CoreHeld(c)' <=> CoreHeld(c)
    BY SMTT(30), <1>t, <1>w, <1>c, <1>q, <1>i DEF Types, CoreHeld, Handles, EmptyValues
  <1>s. \A c \in Lib : SliceHeld(c)' <=> SliceHeld(c)
    BY SMTT(30), <1>t, <1>w, <1>c, <1>q, <1>i DEF Types, SliceHeld, Handles, EmptyValues
  <1>r. \A c \in Lib : Reach(c)' = Reach(c) /\ (Isolated(c)' <=> Isolated(c))
    BY <1>i DEF Reach, Isolated, image
  <1>f. \A c \in Lib : FreshLib(c)' => FreshLib(c)
    BY <1>t, <1>w DEF Types, FreshLib, Fresh, EmptyValues
  <1>1. HeldUsable' BY <1>t, <1>h, <1>g, <1>i DEF HeldUsable, Usable, Types, OwnParts, image
  <1>2. MappedOwned'
    BY <1>t, <1>h, <1>g, <1>i DEF MappedOwned, Types, OwnParts, ImageTypes, image
  <1>4. DyingMapped' BY <1>q, <1>c, <1>g, <1>i DEF DyingMapped, OwnParts, image
  <1>6. SlicesLoaded' BY <1>t, <1>s, <1>g, <1>i DEF SlicesLoaded, Types, OwnParts, image
  <1>7. VarShapes' BY <1>t, <1>w, <1>g DEF VarShapes, Types, ShapeParts, EmptyValues
  <1>10. CallJob'
    BY SMTT(30), <1>t, <1>w, <1>j, <1>g, <1>q
       DEF CallJob, Types, MovingJob, InRelocate, JobParts, JobTypes
  <1>11. MovingJob'
    BY SMTT(30), <1>t, <1>w, <1>j, <1>g, <1>q
       DEF MovingJob, InRelocate, Types, JobParts, JobTypes, EmptyValues
  <1>12. OneJob' BY SMTT(30), <1>j, <1>g, <1>q DEF OneJob, InRelocate, JobParts
  <1>13. JobImage'
    BY SMTT(30), <1>t, <1>w, <1>j, <1>g, <1>q
       DEF JobImage, Relocating, Types, InRelocate, OneJob, JobParts, JobTypes
  <1>14. BindQuiet' BY <1>j, <1>c, <1>g, <1>i DEF BindQuiet, NotDropping, JobParts
  <1>15. UnscopeShape'
    BY SMTT(30), <1>t, <1>w, <1>j, <1>g, <1>q DEF UnscopeShape, Types, JobParts, JobTypes
  <1>16. ScopeIdle' BY <1>t, <1>j, <1>g, <1>i DEF ScopeIdle, InRelocate, Types, JobParts
  <1>17. Unique'
    BY SMTT(30), <1>t, <1>s, <1>w, <1>c, <1>g, <1>q, <1>i
       DEF Unique, Fresh, Sliced, Types, CoverParts, EmptyValues
  <1>18. RawUnbound'
    BY <1>t, <1>r, <1>w, <1>g DEF RawUnbound, Sliced, Types, CoverParts, EmptyValues
  <1>19. JobUnbound' BY <1>t, <1>r, <1>j, <1>g DEF JobUnbound, Types, CoverParts, JobTypes
  <1>20. ScopeCovers'
    BY SMTT(30), <1>t, <1>r, <1>j, <1>g, <1>i
       DEF ScopeCovers, Types, CoverParts, PlaceTypes, JobTypes
  <1>21. SliceCovers' BY <1>t, <1>s, <1>r, <1>g, <1>i DEF SliceCovers, Types, CoverParts
  <1>22. NoSliceYet' BY <1>t, <1>f, <1>g, <1>i DEF NoSliceYet, Types, CoverParts, image
  <1>23. DrainFree'
    BY <1>t, <1>s, <1>g, <1>i DEF DrainFree, Types, CoverParts, ImageTypes, image
  <1>24. DrainOld'
    BY <1>t, <1>f, <1>g, <1>i DEF DrainOld, DrainFree, Types, CoverParts, ImageTypes
  <1>25. DropShape'
    BY <1>r, <1>c, <1>g, <1>q, <1>i
       DEF DropShape, Sliced, JobUnbound, JobImage, Relocating, DropParts, CoverParts, JobParts
  <1>26. DyingShape'
    BY <1>t, <1>r, <1>q, <1>c, <1>g, <1>i DEF DyingShape, Types, DropParts, DropTypes
  <1>27. FixJob' BY <1>j, <1>g, <1>q, <1>i DEF FixJob, DropParts
  <1>28. FixLibs'
    BY <1>t, <1>c, <1>g, <1>q, <1>i DEF FixLibs, Types, EmptyValues, FixJob, DropParts, image
  <1>29. FixQuiet'
    BY <1>t, <1>c, <1>g, <1>q, <1>i DEF FixQuiet, Types, EmptyValues, FixJob, DropParts
  <1> QED
    BY <1>u, <1>1, <1>2, <1>4, <1>6, <1>7, <1>10, <1>11, <1>12, <1>13, <1>14, <1>15, <1>16,
       <1>17, <1>18, <1>19, <1>20, <1>21, <1>22, <1>23, <1>24, <1>25, <1>26, <1>27, <1>28,
       <1>29
       DEF Parts, OwnParts, ShapeParts, JobParts, CoverParts, DropParts

\* Relocation binds an image to images of the scope.
LEMMA BindAsStep ==
  ASSUME Parts, TypeInv, TypeInv',
         NEW t \in Thread, job[t].op = "bind", NEW l \in Lib, l = job[t].lib,
         NEW B \in SUBSET Cores(scope[t]),
         NEW W \in SUBSET (Cores(scope[t]) \cap Needed[l]),
         lazy' \subseteq lazy \cup {l},
         l \in Object => W = {} /\ lazy' = lazy,
         BindAs(t, l, B, W)
  PROVE Parts'
  <1>t. Types
    BY TypesHold DEF BindAs
  <1>g. OwnParts /\ ShapeParts /\ JobParts /\ CoverParts /\ DropParts
    BY DEF Parts
  <1>v. UNCHANGED <<loaded, mapped, deps, var, scope, fix, cur, drain, dying>>
    BY DEF BindAs
  <1>u. /\ HeldUsable' /\ MappedOwned' /\ OneDropper' /\ DyingMapped' /\ SlicesLoaded'
        /\ VarShapes' /\ ScopeShapes' /\ DepsShapes' /\ Unique' /\ NoSliceYet'
        /\ DrainFree' /\ DrainOld' /\ FixQuiet'
    BY Frame DEF BindAs
  <1>q. /\ job[t].v \in Var /\ l \notin Trivial /\ l \in loaded
        /\ var[job[t].v].core = l /\ var[job[t].v].deps = None
        /\ var[job[t].v].kind = "moving" /\ CoreHeld(l)
    <2>1. /\ job[t].v \in Var /\ l \notin Trivial
          /\ var[job[t].v].core = l /\ var[job[t].v].deps = None
          /\ var[job[t].v].kind = "moving"
      BY <1>t, <1>g
         DEF Types, JobImage, Relocating, MovingJob, InRelocate, JobParts, PlaceTypes,
             JobTypes, DropTypes, ImageTypes
    <2>2. CoreHeld(l)
      BY <2>1, Places
    <2> QED
      BY <2>1, <2>2, <1>g DEF HeldUsable, Usable, LoadedFirst, OwnParts, BindAs
  <1>j. /\ \A u \in Thread : u # t => job'[u] = job[u]
        /\ job'[t].op = "init" /\ job'[t].v = job[t].v /\ job'[t].lib = l
    BY <1>t DEF BindAs, Types, Stage, JobTypes
  <1>b. /\ \A c \in Lib : bound'[c] = IF c = l THEN B ELSE bound[c]
        /\ \A c \in Lib : weak'[c] = IF c = l THEN W ELSE weak[c]
        /\ \A u \in Thread : u # t => flags'[u] = flags[u]
        /\ l \notin Object => flags'[t] = B \ {l}
    BY <1>t DEF BindAs, Types, ImageTypes
  <1>i. UNCHANGED <<loaded, mapped, finis, deps, var, scope, fix, cur, drain, dying>>
    BY DEF BindAs
  <1>y. lazy' \subseteq lazy \cup {l} /\ (l \in Object => W = {} /\ lazy' = lazy)
    OBVIOUS
  <1>x. /\ \A u \in Thread : dying[u] # l
        /\ ~SliceHeld(l)
        /\ Sliced(l) =>
             /\ \A u \in Thread : cur[u].core # l
             /\ \A h \in scope[t] : h.core # l
             /\ \A u \in Var : var[u].core = l => u = job[t].v
             /\ \A u \in Thread : Relocating(u) /\ job[u].lib = l => u = t
             /\ \A u \in Thread : job[u].op = "call" => job[u].lib # l
    <2>1. \A u \in Thread : dying[u] # l
      BY <1>q, <1>g DEF HeldUsable, Usable, OwnParts
    <2>2. CASE Sliced(l)
      <3>1. Fresh(job[t].v)
        BY <1>q, <2>2 DEF Fresh
      <3>2. /\ \A u \in Var : var[u].core = l => u = job[t].v
            /\ \A u \in Thread : cur[u].core # l
            /\ \A h \in scope[t] : h.core # l
            /\ ~SliceHeld(l)
        BY <1>q, <3>1, <1>g DEF Unique, CoverParts
      <3>3. \A u \in Thread : Relocating(u) /\ job[u].lib = l => u = t
        BY <1>t, <3>2, <1>g
           DEF JobImage, Relocating, OneJob, InRelocate, Types, JobParts, JobTypes
      <3>4. \A u \in Thread : job[u].op = "call" => job[u].lib # l
        BY <1>t, <1>q, <3>2, <1>g DEF CallJob, Types, JobParts, JobTypes
      <3> QED
        BY <2>1, <3>2, <3>3, <3>4
    <2> QED
      BY <2>1, <2>2, <1>g DEF SlicesLoaded, OwnParts
  <1>s. \A c \in Lib : SliceHeld(c)' <=> SliceHeld(c)
    BY SMTT(30), <1>i DEF SliceHeld, Handles
  <1>r. \A c \in Lib : c # l => Reach(c)' = Reach(c) /\ (Isolated(c)' <=> Isolated(c))
    BY <1>b DEF Reach, Isolated
  <1>z. /\ Reach(l)' \subseteq Cores(scope[t])
        /\ Sliced(l) => Reach(l)' \subseteq flags'[t] \cup Needed[l]
    <2>1. Reach(l)' = B \cup W
      BY <1>b DEF Reach
    <2>2. Sliced(l) => l \notin B
      BY <1>x DEF Cores
    <2> QED
      BY <2>1, <2>2, <1>j, <1>b DEF Sliced
  <1>5. LoadedFirst' BY <1>r, <1>q, <1>g, <1>i DEF LoadedFirst, OwnParts
  <1>10. CallJob' BY <1>g, <1>j, <1>i DEF CallJob, JobParts
  <1>11. MovingJob' BY SMTT(30), <1>g, <1>j, <1>i DEF MovingJob, InRelocate, JobParts
  <1>12. OneJob' BY SMTT(30), <1>g, <1>j DEF OneJob, InRelocate, JobParts
  <1>13. JobImage' BY SMTT(30), <1>g, <1>j, <1>b, <1>i DEF JobImage, Relocating, JobParts
  <1>14. BindQuiet' BY <1>g, <1>j, <1>i DEF BindQuiet, NotDropping, JobParts
  <1>15. UnscopeShape' BY <1>g, <1>j, <1>i DEF UnscopeShape, JobParts
  <1>16. ScopeIdle' BY <1>g, <1>j, <1>i DEF ScopeIdle, InRelocate, JobParts
  <1>18. RawUnbound'
    BY <1>t, <1>r, <1>q, <1>x, <1>g, <1>i
       DEF RawUnbound, Sliced, Types, CoverParts, EmptyValues
  <1>19. JobUnbound'
    BY <1>t, <1>r, <1>x, <1>g, <1>j
       DEF JobUnbound, Types, Relocating, CoverParts, JobTypes, EmptyValues
  <1>20. ScopeCovers'
    BY SMTT(30), <1>t, <1>r, <1>x, <1>z, <1>g, <1>j, <1>b, <1>i
       DEF ScopeCovers, Types, Relocating, CoverParts, PlaceTypes, JobTypes
  <1>21. SliceCovers' BY <1>s, <1>r, <1>x, <1>g, <1>i DEF SliceCovers, CoverParts
  <1>25. DropShape' BY <1>r, <1>x, <1>g, <1>i DEF DropShape, Sliced, DropParts
  <1>26. DyingShape'
    BY <1>t, <1>r, <1>x, <1>g, <1>i DEF DyingShape, Types, DropParts, DropTypes, EmptyValues
  <1>27. FixJob' BY <1>g, <1>j, <1>i DEF FixJob, DropParts
  <1>28. FixLibs'
    <2>1. \A u \in Thread : fix[u].lib # None => fix[u].lib # l /\ fix[u].lib \in Lib
      BY <1>x, <1>g DEF FixJob, Relocating, Sliced, DropParts
    <2> QED
      BY <2>1, <1>g, <1>b, <1>i DEF FixLibs, DropParts
  <1>30. LazySliced'
    BY <1>t, <1>q, <1>g, <1>j, <1>b DEF LazySliced, Types, Sliced, DropParts, EmptyValues
  <1> QED
    BY <1>u, <1>5, <1>10, <1>11, <1>12, <1>13, <1>14, <1>15, <1>16, <1>18, <1>19, <1>20, <1>21,
       <1>25, <1>26, <1>27, <1>28, <1>30
       DEF Parts, OwnParts, ShapeParts, JobParts, CoverParts, DropParts

-----------------------------------------------------------------------------
(* The end of relocate(): the deps slice, the scope, the result *)

\* The deps slice is built: it covers what the image reaches.
LEMMA CollectStep ==
  ASSUME Parts, TypeInv, TypeInv', NEW t \in Thread, Collect(t)
  PROVE Parts'
  <1>t. Types
    BY TypesHold
  <1>g. OwnParts /\ ShapeParts /\ JobParts /\ CoverParts /\ DropParts
    BY DEF Parts
  <1>v. UNCHANGED <<loaded, mapped, bound, lazy, weak, scope, fix, cur, drain,
                    dying>>
    BY DEF Collect, image
  <1>u. /\ OneDropper' /\ LoadedFirst' /\ ScopeShapes' /\ DropShape' /\ DyingShape'
        /\ FixLibs' /\ FixQuiet' /\ LazySliced'
    BY <1>v, Frame
  <1>0. job[t].lib \in Lib /\ job[t].op = "init"
    BY <1>t DEF Collect, Types, JobTypes
  <1>l. PICK l \in Lib : l = job[t].lib
    BY <1>0
  <1>q. /\ job[t].op = "init" /\ job[t].lib = l /\ fix[t].lib = None
        /\ job[t].v \in Var /\ l \in Lib /\ l \notin Trivial /\ l \in loaded
        /\ var[job[t].v].core = l /\ var[job[t].v].deps = None
        /\ var[job[t].v].kind = "moving"
    <2>1. job[t].op = "init" /\ fix[t].lib = None
      BY <1>t DEF Collect, Types, EmptyValues
    <2>2. /\ job[t].v \in Var /\ l \in Lib /\ l \notin Trivial
          /\ var[job[t].v].core = l /\ var[job[t].v].deps = None
          /\ var[job[t].v].kind = "moving"
      BY <1>t, <1>l, <2>1, <1>g
         DEF Types, JobImage, Relocating, MovingJob, InRelocate, JobParts, JobTypes
    <2>3. CoreHeld(l)
      BY <2>2, Places
    <2> QED
      BY <1>l, <2>1, <2>2, <2>3, <1>g DEF HeldUsable, Usable, LoadedFirst, OwnParts
  <1>w. /\ \A u \in Var : u # job[t].v => var'[u] = var[u]
        /\ var'[job[t].v].kind = "moving" /\ var'[job[t].v].core = l
        /\ l \in Object => var'[job[t].v].deps = None
        /\ l \notin Object => var'[job[t].v].deps = l
    BY SMTT(30), <1>t, <1>q DEF Collect, Types, PlaceTypes, from_core, from_core_deps
  <1>j. /\ \A u \in Thread : u # t => job'[u] = job[u]
        /\ job'[t].op = "unscope" /\ job'[t].v = job[t].v /\ job'[t].lib = l
    BY <1>t, <1>l DEF Collect, Types, JobTypes, Stage
  <1>d. deps'[l] = IF l \in Object THEN deps[l]
                   ELSE {h \in scope[t] : h.core \in flags[t] \cup Needed[l]}
    BY <1>t, <1>q DEF Collect, Types, CollectedDeps, PlaceTypes
  <1>e. /\ \A c \in Lib : c # l => deps'[c] = deps[c]
        /\ \A h \in deps'[l] : h \in deps[l] \/ h \in scope[t]
        /\ l \in Object => deps'[l] = deps[l]
        /\ l \notin Object => \A h \in deps[l] : FALSE
    <2>1. l \notin Object => Fresh(job[t].v)
      BY <1>q DEF Fresh, Sliced
    <2>2. l \notin Object => \A h \in deps[l] : FALSE
      BY <1>q, <2>1, <1>g DEF NoSliceYet, FreshLib, CoverParts
    <2>3. \A c \in Lib : c # l => deps'[c] = deps[c]
      BY <1>t, <1>q DEF Collect, Types, PlaceTypes
    <2> QED
      BY <1>d, <2>2, <2>3
  <1>o. \A u \in Thread : u # t => flags'[u] = flags[u]
    BY <1>t DEF Collect, Types, ImageTypes
  <1>i. UNCHANGED <<image, scope, fix, cur, drain, dying>>
    BY DEF Collect
  <1>a. Full(As(var'[job[t].v], "loaded"))
    BY <1>q, <1>w DEF Full, As, Sliced
  <1>n. l \notin Object => FreshLib(l)
    BY <1>q DEF FreshLib, Fresh, Sliced
  <1>h. \A c \in Lib : CoreHeld(c)' <=> CoreHeld(c)
    BY SMTT(30), <1>q, <1>w, <1>e, <1>i DEF CoreHeld, Handles
  <1>s. \A c \in Lib : SliceHeld(c)' <=> SliceHeld(c) \/ (c = l /\ l \notin Object)
    BY SMTT(30), <1>t, <1>q, <1>w, <1>e, <1>i DEF Types, SliceHeld, Handles, EmptyValues
  <1>r. \A c \in Lib : Reach(c)' = Reach(c) /\ (Isolated(c)' <=> Isolated(c))
    BY <1>i DEF Reach, Isolated, image
  <1>f. /\ \A c \in Lib : FreshLib(c)' => FreshLib(c)
        /\ ~FreshLib(l)'
    BY SMTT(30), <1>t, <1>q, <1>g, <1>w
       DEF Types, FreshLib, Fresh, Sliced, Unique, CoverParts, EmptyValues
  <1>1. HeldUsable' BY <1>h, <1>g, <1>i DEF HeldUsable, Usable, OwnParts, image
  <1>2. MappedOwned'
    BY <1>t, <1>h, <1>g, <1>i DEF MappedOwned, Types, OwnParts, ImageTypes, image
  <1>4. DyingMapped' BY <1>t, <1>g, <1>i DEF DyingMapped, Types, OwnParts, image
  <1>6. SlicesLoaded' BY <1>s, <1>q, <1>g, <1>i DEF SlicesLoaded, Sliced, OwnParts, image
  <1>7. VarShapes' BY <1>g, <1>w DEF VarShapes, ShapeParts
  <1>9. DepsShapes' BY <1>t, <1>g, <1>e DEF DepsShapes, Types, ScopeShapes, ShapeParts
  <1>10. CallJob'
    BY SMTT(30), <1>t, <1>q, <1>g, <1>w, <1>j DEF CallJob, Types, JobParts, JobTypes
  <1>11. MovingJob'
    BY SMTT(30), <1>t, <1>g, <1>w, <1>j DEF MovingJob, InRelocate, Types, JobParts, JobTypes
  <1>12. OneJob' BY SMTT(30), <1>q, <1>g, <1>j DEF OneJob, InRelocate, JobParts
  <1>13. JobImage'
    <2>1. \A u \in Thread : Relocating(u)' => u # t /\ Relocating(u) /\ job'[u] = job[u]
      BY <1>j DEF Relocating
    <2>2. \A u \in Thread : Relocating(u) /\ u # t => job[u].v \in Var /\ job[u].v # job[t].v
      BY <1>t, <1>q, <1>g DEF Types, Relocating, InRelocate, OneJob, JobParts, JobTypes
    <2> QED
      BY SMTT(30), <2>1, <2>2, <1>g, <1>w DEF JobImage, JobParts
  <1>14. BindQuiet' BY <1>g, <1>j, <1>i DEF BindQuiet, NotDropping, JobParts
  <1>15. UnscopeShape'
    <2>1. \A u \in Thread : u # t /\ job[u].op = "unscope" => job[u].v \in Var /\ job[u].v # job[t].v
      BY <1>t, <1>q, <1>g DEF Types, InRelocate, OneJob, JobParts, JobTypes
    <2> QED
      BY SMTT(30), <1>a, <2>1, <1>g, <1>w, <1>j DEF UnscopeShape, JobParts
  <1>16. ScopeIdle' BY <1>t, <1>g, <1>j, <1>i DEF ScopeIdle, InRelocate, Types, JobParts
  <1>17. Unique'
    <2> SUFFICES ASSUME NEW u \in Var, Fresh(u)'
                 PROVE /\ \A x \in Var : var'[x].core = var'[u].core => x = u
                       /\ \A y \in Thread : cur'[y].core # var'[u].core
                       /\ \A y \in Thread : \A h \in scope'[y] : h.core # var'[u].core
                       /\ \A c \in Lib : \A h \in deps'[c] : h.core # var'[u].core
                       /\ ~SliceHeld(var[u].core)'
      BY DEF Unique
    <2>1. Fresh(u) /\ u # job[t].v /\ var'[u] = var[u] /\ var[u].core \in Lib
      BY <1>t, <1>w DEF Fresh, Sliced, Types, EmptyValues
    <2>2. var[u].core # l
      BY <1>q, <2>1, <1>g DEF Unique, CoverParts
    <2>3. ~SliceHeld(var[u].core)'
      BY <1>s, <2>1, <2>2, <1>g DEF Unique, CoverParts
    <2>4. \A c \in Lib : \A h \in deps'[c] : h.core # var[u].core
      <3>1. /\ \A c \in Lib : \A h \in deps[c] : h.core # var[u].core
            /\ \A h \in scope[t] : h.core # var[u].core
        BY <2>1, <1>g DEF Unique, CoverParts
      <3> QED
        BY <3>1, <1>e
    <2> QED
      <3>1. \A x \in Var : var'[x].core = var[x].core
        BY <1>q, <1>w
      <3>2. /\ \A x \in Var : var[x].core = var[u].core => x = u
            /\ \A y \in Thread : cur[y].core # var[u].core
            /\ \A y \in Thread : \A h \in scope[y] : h.core # var[u].core
        BY <2>1, <1>g DEF Unique, CoverParts
      <3> QED
        BY <2>3, <2>4, <3>1, <3>2, <1>i
  <1>18. RawUnbound' BY <1>r, <1>g, <1>w DEF RawUnbound, Sliced, CoverParts
  <1>19. JobUnbound' BY <1>t, <1>r, <1>g, <1>j DEF JobUnbound, Types, CoverParts, JobTypes
  <1>20. ScopeCovers'
    <2>1. \A u \in Thread : job'[u].op = "init" => u # t /\ job'[u] = job[u] /\ job[u].lib \in Lib
      BY <1>t, <1>j DEF Types, JobTypes
    <2> QED
      BY SMTT(30), <1>r, <2>1, <1>g, <1>o, <1>i DEF ScopeCovers, CoverParts
  <1>21. SliceCovers'
    <2>1. Reach(l) \subseteq Cores(deps'[l]) \/ l \in Object
      <3> SUFFICES ASSUME l \notin Object PROVE Reach(l) \subseteq Cores(deps'[l])
        OBVIOUS
      <3>1. /\ Reach(l) \subseteq Cores(scope[t])
            /\ Reach(l) \subseteq flags[t] \cup Needed[l]
        BY <1>q, <1>g DEF ScopeCovers, Sliced, CoverParts
      <3>2. deps'[l] = {h \in scope[t] : h.core \in flags[t] \cup Needed[l]}
        BY <1>d
      <3> QED
        BY <3>1, <3>2 DEF Cores
    <2>2. l \in Object => ~SliceHeld(l)
      BY <1>g DEF SlicesLoaded, Sliced, OwnParts
    <2> QED
      BY <1>s, <1>r, <2>1, <1>g, <1>e DEF SliceCovers, CoverParts
  <1>22. NoSliceYet' BY <1>f, <1>q, <1>g, <1>e, <1>i DEF NoSliceYet, CoverParts, image
  <1>23. DrainFree'
    <2>1. \A u \in Thread : \A i \in DOMAIN drain[u] :
            drain[u][i] \in Lib /\ ~FreshLib(drain[u][i])
      BY <1>t, <1>g DEF DrainFree, DrainOld, Types, CoverParts, ImageTypes
    <2>2. \A c \in Lib : ~FreshLib(c) /\ ~SliceHeld(c) => ~SliceHeld(c)'
      BY <1>n, <1>s
    <2> QED
      BY <2>1, <2>2, <1>g, <1>i DEF DrainFree, CoverParts, image
  <1>24. DrainOld'
    BY <1>t, <1>f, <1>g, <1>i DEF DrainOld, DrainFree, Types, CoverParts, ImageTypes
  <1>27. FixJob' BY <1>q, <1>g, <1>j, <1>i DEF FixJob, DropParts
  <1> QED
    BY <1>u, <1>1, <1>2, <1>4, <1>6, <1>7, <1>9, <1>10, <1>11, <1>12, <1>13, <1>14, <1>15,
       <1>16, <1>17, <1>18, <1>19, <1>20, <1>21, <1>22, <1>23, <1>24, <1>27
       DEF Parts, OwnParts, ShapeParts, JobParts, CoverParts, DropParts

\* The Relocator drops an element of its scope.
LEMMA UnscopeStep ==
  ASSUME Parts, TypeInv, TypeInv', NEW t \in Thread, Unscope(t)
  PROVE Parts'
  <1>t. Types
    BY TypesHold
  <1>g. OwnParts /\ ShapeParts /\ JobParts /\ CoverParts /\ DropParts
    BY DEF Parts
  <1>v. UNCHANGED <<loaded, mapped, bound, lazy, weak, deps, var, job, flags, fix,
                    drain, dying>>
    BY DEF Unscope, image
  <1>u. /\ OneDropper' /\ LoadedFirst' /\ VarShapes' /\ DepsShapes' /\ CallJob'
        /\ MovingJob' /\ OneJob' /\ JobImage' /\ UnscopeShape' /\ RawUnbound'
        /\ JobUnbound' /\ DrainOld' /\ FixJob' /\ LazySliced'
    BY <1>v, Frame
  <1>h. \A c \in Lib : CoreHeld(c)' <=> CoreHeld(c)
    BY SMTT(30), <1>t
       DEF Types, CoreHeld, Handles, NotDropping, PlaceTypes, EmptyValues, Unscope
  <1>s. \A c \in Lib : SliceHeld(c)' <=> SliceHeld(c)
    BY SMTT(30), <1>t
       DEF Types, SliceHeld, Handles, NotDropping, PlaceTypes, EmptyValues, Unscope
  <1>r. \A c \in Lib : Reach(c)' = Reach(c) /\ (Isolated(c)' <=> Isolated(c))
    BY DEF Reach, Isolated, Unscope, image
  <1>f. \A c \in Lib : FreshLib(c)' => FreshLib(c)
    BY <1>t DEF Types, FreshLib, Fresh, Unscope
  <1>1. HeldUsable' BY <1>t, <1>h, <1>g DEF HeldUsable, Usable, Types, OwnParts, Unscope, image
  <1>2. MappedOwned'
    BY <1>t, <1>h, <1>g DEF MappedOwned, Types, OwnParts, ImageTypes, Unscope, image
  <1>4. DyingMapped'
    BY <1>t, <1>g DEF DyingMapped, Types, NotDropping, OwnParts, PlaceTypes, Unscope, image
  <1>6. SlicesLoaded' BY <1>t, <1>s, <1>g DEF SlicesLoaded, Types, OwnParts, Unscope, image
  <1>8. ScopeShapes' BY SMTT(30), <1>t, <1>g DEF ScopeShapes, Types, ShapeParts, Unscope
  <1>14. BindQuiet'
    BY <1>t, <1>g DEF BindQuiet, NotDropping, Types, JobParts, PlaceTypes, ImageTypes, Unscope
  <1>16. ScopeIdle'
    BY <1>t, <1>g DEF ScopeIdle, InRelocate, Types, JobParts, PlaceTypes, Unscope
  <1>17. Unique' BY SMTT(30), <1>s, <1>g DEF Unique, Fresh, Sliced, CoverParts, Unscope
  <1>20. ScopeCovers'
    BY SMTT(30), <1>t, <1>r, <1>g
       DEF ScopeCovers, Types, CoverParts, PlaceTypes, JobTypes, Unscope
  <1>21. SliceCovers' BY <1>s, <1>r, <1>g DEF SliceCovers, CoverParts, Unscope
  <1>22. NoSliceYet' BY <1>t, <1>f, <1>g DEF NoSliceYet, Types, CoverParts, Unscope, image
  <1>23. DrainFree'
    BY <1>t, <1>s, <1>g
       DEF DrainFree, Types, CoverParts, ImageTypes, EmptyValues, Unscope, image
  <1>25. DropShape'
    BY SMTT(30), <1>r, <1>g
       DEF DropShape, Sliced, ScopeShapes, Full, DropParts, ShapeParts, Unscope
  <1>26. DyingShape'
    BY <1>t, <1>r, <1>g
       DEF DyingShape, Types, NotDropping, DropParts, PlaceTypes, DropTypes, Unscope
  <1>28. FixLibs'
    BY <1>t, <1>g DEF FixLibs, Types, FixJob, DropParts, PlaceTypes, Unscope, image
  <1>29. FixQuiet' BY SMTT(30), <1>g DEF FixQuiet, FixJob, DropParts, Unscope
  <1> QED
    BY <1>u, <1>1, <1>2, <1>4, <1>6, <1>8, <1>14, <1>16, <1>17, <1>20, <1>21, <1>22, <1>23,
       <1>25, <1>26, <1>28, <1>29
       DEF Parts, OwnParts, ShapeParts, JobParts, CoverParts, DropParts

\* relocate() returns its result.
LEMMA RelocatedStep ==
  ASSUME Parts, TypeInv, TypeInv', NEW t \in Thread, Relocated(t)
  PROVE Parts'
  <1>t. Types
    BY TypesHold
  <1>g. OwnParts /\ ShapeParts /\ JobParts /\ CoverParts /\ DropParts
    BY DEF Parts
  <1>v. UNCHANGED <<loaded, mapped, bound, lazy, weak, deps, scope, flags, fix, cur,
                    drain, dying>>
    BY DEF Relocated, image
  <1>u. /\ OneDropper' /\ LoadedFirst' /\ ScopeShapes' /\ DepsShapes' /\ DropShape'
        /\ DyingShape' /\ FixLibs' /\ FixQuiet' /\ LazySliced'
    BY <1>v, Frame
  <1>q. job[t].op = "unscope" /\ job[t].v \in Var /\ \A h \in scope[t] : FALSE
    BY <1>t DEF Relocated, Types, JobTypes
  <1>w. /\ \A u \in Var : u # job[t].v => var'[u] = var[u]
        /\ var'[job[t].v].core = var[job[t].v].core /\ var'[job[t].v].deps = var[job[t].v].deps
        /\ var'[job[t].v] = NoHandle \/ Full(var'[job[t].v])
    <2>1. var[job[t].v] = Moved \/ Full(As(var[job[t].v], "loaded"))
      BY <1>q, <1>g DEF UnscopeShape, JobParts
    <2>2. var' = [var EXCEPT ![job[t].v] = IF @.core = None THEN NoHandle
                                           ELSE As(@, "loaded")]
      BY DEF Relocated
    <2>3. CASE var[job[t].v] = Moved
      BY <1>t, <2>3 DEF Types, PlaceTypes, JobTypes, EmptyValues, Relocated
    <2>4. CASE Full(As(var[job[t].v], "loaded"))
      <3>1. var[job[t].v].core # None
        BY <1>t, <2>4 DEF Types, Full, As, EmptyValues
      <3> QED
        BY <1>t, <1>q, <2>4, <3>1 DEF Types, As, PlaceTypes, Relocated
    <2> QED
      BY <2>1, <2>3, <2>4
  <1>j. \A u \in Thread : job'[u] = IF u = t THEN NoJob ELSE job[u]
    BY <1>t DEF Relocated, Types, JobTypes
  <1>i. UNCHANGED <<image, deps, scope, flags, fix, cur, drain, dying>>
    BY DEF Relocated
  <1>h. \A c \in Lib : CoreHeld(c)' <=> CoreHeld(c)
    BY SMTT(30), <1>w, <1>i DEF CoreHeld, Handles
  <1>s. \A c \in Lib : SliceHeld(c)' <=> SliceHeld(c)
    BY SMTT(30), <1>w, <1>i DEF SliceHeld, Handles
  <1>r. \A c \in Lib : Reach(c)' = Reach(c) /\ (Isolated(c)' <=> Isolated(c))
    BY <1>i DEF Reach, Isolated, image
  <1>f. \A c \in Lib : FreshLib(c)' => FreshLib(c)
    BY <1>w DEF FreshLib, Fresh
  <1>1. HeldUsable' BY <1>t, <1>h, <1>g, <1>i DEF HeldUsable, Usable, Types, OwnParts, image
  <1>2. MappedOwned'
    BY <1>t, <1>h, <1>g, <1>i DEF MappedOwned, Types, OwnParts, ImageTypes, image
  <1>4. DyingMapped' BY <1>t, <1>g, <1>i DEF DyingMapped, Types, OwnParts, image
  <1>6. SlicesLoaded' BY <1>t, <1>s, <1>g, <1>i DEF SlicesLoaded, Types, OwnParts, image
  <1>7. VarShapes' BY <1>w, <1>g DEF VarShapes, ShapeParts
  <1>10. CallJob'
    BY SMTT(30), <1>t, <1>w, <1>j, <1>g, <1>q
       DEF CallJob, Types, MovingJob, InRelocate, JobParts, JobTypes, EmptyValues
  <1>11. MovingJob'
    <2>1. \A u \in Thread : InRelocate(u)' => u # t /\ InRelocate(u) /\ job'[u].v = job[u].v
      BY <1>t, <1>j DEF InRelocate, Types, EmptyValues
    <2>2. \A u \in Thread : InRelocate(u) /\ u # t => InRelocate(u)'
      BY <1>j DEF InRelocate
    <2>3. \A u \in Thread : InRelocate(u) /\ u # t => job[u].v # job[t].v /\ job[u].v \in Var
      BY <1>t, <1>g, <1>q DEF OneJob, InRelocate, Types, JobParts, JobTypes
    <2>4. var'[job[t].v].kind # "moving"
      BY <1>t, <1>w DEF Full, Types, EmptyValues
    <2> QED
      BY SMTT(30), <1>w, <2>1, <2>2, <2>3, <2>4, <1>g DEF MovingJob, JobParts
  <1>12. OneJob'
    BY SMTT(30), <1>t, <1>j, <1>g DEF OneJob, InRelocate, Types, JobParts, EmptyValues
  <1>13. JobImage'
    BY SMTT(30), <1>t, <1>w, <1>j, <1>g
       DEF JobImage, Relocating, Types, JobParts, JobTypes, EmptyValues
  <1>14. BindQuiet'
    BY <1>t, <1>j, <1>g, <1>i DEF BindQuiet, NotDropping, Types, JobParts, EmptyValues
  <1>15. UnscopeShape'
    BY SMTT(30), <1>t, <1>w, <1>j, <1>g, <1>q
       DEF UnscopeShape, Types, OneJob, InRelocate, JobParts, JobTypes, EmptyValues
  <1>16. ScopeIdle' BY <1>t, <1>j, <1>g, <1>q, <1>i DEF ScopeIdle, InRelocate, Types, JobParts
  <1>17. Unique' BY SMTT(30), <1>s, <1>w, <1>g, <1>i DEF Unique, Fresh, Sliced, CoverParts
  <1>18. RawUnbound'
    BY <1>t, <1>r, <1>w, <1>g DEF RawUnbound, Sliced, Types, Full, CoverParts, EmptyValues
  <1>19. JobUnbound'
    BY <1>t, <1>r, <1>j, <1>g DEF JobUnbound, Types, CoverParts, JobTypes, EmptyValues
  <1>20. ScopeCovers'
    BY SMTT(30), <1>t, <1>r, <1>j, <1>g, <1>i
       DEF ScopeCovers, Types, CoverParts, PlaceTypes, JobTypes, EmptyValues
  <1>21. SliceCovers' BY <1>t, <1>s, <1>r, <1>g, <1>i DEF SliceCovers, Types, CoverParts
  <1>22. NoSliceYet' BY <1>t, <1>f, <1>g, <1>i DEF NoSliceYet, Types, CoverParts, image
  <1>23. DrainFree'
    BY <1>t, <1>s, <1>g, <1>i DEF DrainFree, Types, CoverParts, ImageTypes, image
  <1>24. DrainOld'
    BY <1>t, <1>f, <1>g, <1>i DEF DrainOld, DrainFree, Types, CoverParts, ImageTypes
  <1>27. FixJob' BY <1>t, <1>j, <1>g, <1>q, <1>i DEF FixJob, Types, DropParts
  <1> QED
    BY <1>u, <1>1, <1>2, <1>4, <1>6, <1>7, <1>10, <1>11, <1>12, <1>13, <1>14, <1>15, <1>16,
       <1>17, <1>18, <1>19, <1>20, <1>21, <1>22, <1>23, <1>24, <1>27
       DEF Parts, OwnParts, ShapeParts, JobParts, CoverParts, DropParts

-----------------------------------------------------------------------------
(* Drops *)

\* A value moves from its variable to the drop.
LEMMA DropStep ==
  ASSUME Parts, TypeInv, TypeInv', NEW t \in Thread, NEW v \in Var, Drop(t, v)
  PROVE Parts'
  <1>t. Types
    BY TypesHold
  <1>g. OwnParts /\ ShapeParts /\ JobParts /\ CoverParts /\ DropParts
    BY DEF Parts
  <1>v. UNCHANGED <<loaded, mapped, bound, lazy, weak, deps, job, scope, flags, fix,
                    drain, dying>>
    BY DEF Drop, image
  <1>u. /\ OneDropper' /\ LoadedFirst' /\ ScopeShapes' /\ DepsShapes' /\ OneJob'
        /\ ScopeIdle' /\ JobUnbound' /\ ScopeCovers' /\ FixJob' /\ LazySliced'
    BY <1>v, Frame
  <1>h. \A c \in Lib : CoreHeld(c)' <=> CoreHeld(c)
    BY SMTT(30), <1>t DEF Types, CoreHeld, Handles, NotDropping, PlaceTypes, Drop, Idle
  <1>s. \A c \in Lib : SliceHeld(c)' <=> SliceHeld(c)
    BY SMTT(30), <1>t DEF Types, SliceHeld, Handles, NotDropping, PlaceTypes, Drop, Idle
  <1>r. \A c \in Lib : Reach(c)' = Reach(c) /\ (Isolated(c)' <=> Isolated(c))
    BY DEF Reach, Isolated, Drop, image, Idle
  <1>w. \A u \in Var : var'[u] = IF u = v THEN NoHandle ELSE var[u]
    BY <1>t DEF Types, PlaceTypes, Drop
  <1>f. \A c \in Lib : FreshLib(c)' => FreshLib(c)
    BY <1>t, <1>w DEF FreshLib, Fresh, Sliced, Types, PlaceTypes, EmptyValues
  <1>1. HeldUsable' BY <1>t, <1>h, <1>g DEF HeldUsable, Usable, Types, OwnParts, Drop, image
  <1>2. MappedOwned'
    BY <1>t, <1>h, <1>g DEF MappedOwned, Types, OwnParts, ImageTypes, Drop, image
  <1>4. DyingMapped'
    BY <1>t, <1>g DEF DyingMapped, Types, NotDropping, OwnParts, PlaceTypes, Drop, image, Idle
  <1>6. SlicesLoaded' BY <1>t, <1>s, <1>g DEF SlicesLoaded, Types, OwnParts, Drop, image
  <1>7. VarShapes' BY <1>t, <1>g DEF VarShapes, Types, ShapeParts, PlaceTypes, Drop
  <1>10. CallJob'
    BY <1>t, <1>g DEF CallJob, Types, Borrowed, JobParts, PlaceTypes, JobTypes, Drop
  <1>11. MovingJob'
    BY SMTT(30), <1>t, <1>g DEF MovingJob, InRelocate, Types, JobParts, EmptyValues, Drop
  <1>13. JobImage'
    BY <1>t, <1>g
       DEF JobImage, Relocating, Types, MovingJob, InRelocate, JobParts, PlaceTypes, JobTypes,
           EmptyValues, Drop
  <1>14. BindQuiet'
    BY <1>t, <1>g
       DEF BindQuiet, NotDropping, Types, JobParts, PlaceTypes, EmptyValues, Drop, Idle
  <1>15. UnscopeShape'
    BY <1>t, <1>g
       DEF UnscopeShape, Types, MovingJob, InRelocate, JobParts, PlaceTypes, JobTypes,
           EmptyValues, Drop
  <1>17. Unique'
    BY SMTT(30), <1>t, <1>s, <1>w, <1>g
       DEF Unique, Fresh, Sliced, Types, CoverParts, EmptyValues, Drop
  <1>18. RawUnbound'
    BY <1>t, <1>r, <1>g
       DEF RawUnbound, Sliced, Types, CoverParts, PlaceTypes, EmptyValues, Drop
  <1>21. SliceCovers' BY <1>t, <1>s, <1>r, <1>g DEF SliceCovers, Types, CoverParts, Drop
  <1>22. NoSliceYet' BY <1>t, <1>f, <1>g DEF NoSliceYet, Types, CoverParts, Drop, image
  <1>23. DrainFree'
    BY <1>t, <1>s, <1>g DEF DrainFree, Types, CoverParts, ImageTypes, Drop, image
  <1>24. DrainOld'
    BY <1>t, <1>f, <1>g DEF DrainOld, DrainFree, Types, CoverParts, ImageTypes, Drop
  <1>25. DropShape'
    BY <1>t, <1>r, <1>g
       DEF DropShape, Sliced, Types, VarShapes, Full, Raw, RawUnbound, DropParts, ShapeParts,
           CoverParts, PlaceTypes, EmptyValues, Drop
  <1>26. DyingShape'
    BY <1>t, <1>r, <1>g
       DEF DyingShape, Types, NotDropping, DropParts, PlaceTypes, DropTypes, Drop, Idle
  <1>28. FixLibs'
    BY <1>t, <1>g DEF FixLibs, Types, DropParts, PlaceTypes, EmptyValues, Drop, image, Idle
  <1>29. FixQuiet'
    BY <1>t, <1>g DEF FixQuiet, Types, DropParts, PlaceTypes, EmptyValues, Drop, Idle
  <1> QED
    BY <1>u, <1>1, <1>2, <1>4, <1>6, <1>7, <1>10, <1>11, <1>13, <1>14, <1>15, <1>17, <1>18,
       <1>21, <1>22, <1>23, <1>24, <1>25, <1>26, <1>28, <1>29
       DEF Parts, OwnParts, ShapeParts, JobParts, CoverParts, DropParts

\* A core reference goes, maybe the last.
LEMMA ReleaseCoreStep ==
  ASSUME Parts, TypeInv, TypeInv', NEW t \in Thread, ReleaseCore(t)
  PROVE Parts'
  <1>t. Types
    BY TypesHold
  <1>g. OwnParts /\ ShapeParts /\ JobParts /\ CoverParts /\ DropParts
    BY DEF Parts
  <1>v. UNCHANGED <<loaded, mapped, bound, lazy, weak, deps, var, job, scope, flags,
                    fix, drain>>
    BY DEF ReleaseCore, image
  <1>u. /\ LoadedFirst' /\ VarShapes' /\ ScopeShapes' /\ DepsShapes' /\ CallJob'
        /\ MovingJob' /\ OneJob' /\ JobImage' /\ UnscopeShape' /\ ScopeIdle'
        /\ RawUnbound' /\ JobUnbound' /\ ScopeCovers' /\ DrainOld' /\ FixJob'
        /\ LazySliced'
    BY <1>v, Frame
  <1>p. PICK l \in Lib : l = cur[t].core
    <2>1. cur[t] \in Handle /\ cur[t].core # None
      BY <1>t DEF ReleaseCore, Types, PlaceTypes
    <2> QED
      BY <2>1 DEF Handle
  <1>q. /\ cur[t].core # None /\ cur[t].core = l /\ cur[t] # NoHandle
        /\ dying[t] = None /\ CoreHeld(l)
    <2>1. cur[t].core # None
      BY DEF ReleaseCore
    <2>2. CoreHeld(l)
      BY <1>p, Places
    <2> QED
      BY <1>t, <1>p, <2>1, <2>2, <1>g DEF Types, DyingMapped, OwnParts, EmptyValues
  <1>k. /\ \A u \in Thread : u # t => cur'[u] = cur[u]
        /\ cur'[t].core = None /\ cur'[t].deps = cur[t].deps
    BY <1>t DEF ReleaseCore, Types, OnlyDeps, PlaceTypes
  <1>i. UNCHANGED <<loaded, mapped, isInit, bound, lazy, weak, deps, var, scope, job,
                    flags, fix, drain>>
    BY DEF ReleaseCore
  <1>d. \/ CoreHeld(l)' /\ dying' = dying
        \/ ~CoreHeld(l)' /\ dying' = [dying EXCEPT ![t] = l]
    BY <1>p DEF ReleaseCore, CoreHeld
  <1>x. /\ \A u \in Thread : u # t => dying'[u] = dying[u]
        /\ CoreHeld(l)' => dying'[t] = None
        /\ ~CoreHeld(l)' => dying'[t] = l
    BY <1>t, <1>d, <1>q DEF Types, DropTypes
  <1>y. fix[t].lib # None => CoreHeld(l)'
    <2> SUFFICES ASSUME fix[t].lib # None
                 PROVE CoreHeld(l)'
      OBVIOUS
    <2>1. l \in weak[fix[t].lib]
      BY <1>g, <1>q DEF FixLibs, DropParts
    <2>2. \/ \E h \in scope[t] : h.core = l
          \/ fix[t].lib \in Lib /\ \E h \in deps[fix[t].lib] : h.core = l
      BY <1>t, <2>1, Covered
    <2>3. \E h \in Handles' : h.core = l
      BY <2>2, <1>p, <1>q, <1>k, <1>i DEF Handles
    <2> QED
      BY <2>3 DEF CoreHeld
  <1>h. /\ \A c \in Lib : c # l => (CoreHeld(c)' <=> CoreHeld(c))
        /\ CoreHeld(l)
    BY SMTT(30), <1>t, <1>p, <1>k, <1>i DEF Types, CoreHeld, Handles, ImageTypes, EmptyValues
  <1>s. \A c \in Lib : SliceHeld(c)' <=> SliceHeld(c)
    BY SMTT(30), <1>k, <1>i DEF SliceHeld, Handles
  <1>r. \A c \in Lib : Reach(c)' = Reach(c) /\ (Isolated(c)' <=> Isolated(c))
    BY <1>p, <1>q, <1>k, <1>i DEF Reach, Isolated
  <1>f. \A c \in Lib : FreshLib(c)' => FreshLib(c)
    BY <1>t, <1>i DEF Types, FreshLib, Fresh
  <1>1. HeldUsable'
    BY SMTT(30), <1>t, <1>h, <1>x, <1>g, <1>i
       DEF HeldUsable, Usable, Types, OwnParts, EmptyValues
  <1>2. MappedOwned'
    BY SMTT(30), <1>t, <1>h, <1>x, <1>g, <1>q, <1>i
       DEF MappedOwned, Types, OwnParts, ImageTypes, EmptyValues
  <1>3. OneDropper' BY SMTT(30), <1>x, <1>g, <1>q DEF OneDropper, HeldUsable, Usable, OwnParts
  <1>4. DyingMapped'
    BY <1>x, <1>g, <1>q, <1>k, <1>i DEF DyingMapped, HeldUsable, Usable, OwnParts
  <1>6. SlicesLoaded' BY <1>t, <1>s, <1>g, <1>i DEF SlicesLoaded, Types, OwnParts
  <1>14. BindQuiet'
    BY <1>t, <1>x, <1>g, <1>q, <1>k, <1>i DEF BindQuiet, NotDropping, Types, JobParts
  <1>17. Unique'
    <2> SUFFICES ASSUME NEW u \in Var, Fresh(u)
                 PROVE \A y \in Thread : cur'[y].core # var[u].core
      BY <1>s, <1>g, <1>i DEF Unique, Fresh, Sliced, CoverParts
    <2> QED
      BY SMTT(30), <1>t, <1>g, <1>k DEF Unique, Fresh, Sliced, Types, CoverParts, EmptyValues
  <1>21. SliceCovers' BY <1>t, <1>s, <1>r, <1>g, <1>i DEF SliceCovers, Types, CoverParts
  <1>22. NoSliceYet' BY <1>t, <1>f, <1>g, <1>i DEF NoSliceYet, Types, CoverParts
  <1>23. DrainFree' BY <1>t, <1>s, <1>g, <1>i DEF DrainFree, Types, CoverParts, ImageTypes
  <1>25. DropShape'
    BY <1>t, <1>r, <1>g, <1>k, <1>i DEF DropShape, Sliced, Types, DropParts, EmptyValues
  <1>26. DyingShape'
    BY <1>t, <1>r, <1>x, <1>y, <1>q, <1>g, <1>k
       DEF DyingShape, Types, DropShape, DropParts, DropTypes
  <1>28. FixLibs' BY <1>g, <1>k, <1>i DEF FixLibs, DropParts
  <1>29. FixQuiet' BY <1>x, <1>y, <1>g, <1>q, <1>k, <1>i DEF FixQuiet, DropParts
  <1> QED
    BY <1>u, <1>1, <1>2, <1>3, <1>4, <1>6, <1>14, <1>17, <1>21, <1>22, <1>23, <1>25, <1>26,
       <1>28, <1>29
       DEF Parts, OwnParts, ShapeParts, JobParts, CoverParts, DropParts

\* An image nobody owns is unmapped.
LEMMA UnmapStep ==
  ASSUME Parts, TypeInv, TypeInv', NEW t \in Thread, Unmap(t)
  PROVE Parts'
  <1>t. Types
    BY TypesHold
  <1>g. OwnParts /\ ShapeParts /\ JobParts /\ CoverParts /\ DropParts
    BY DEF Parts
  <1>v. UNCHANGED <<loaded, bound, lazy, deps, var, job, scope, flags, fix, cur,
                    drain>>
    BY DEF Unmap, image
  <1>w. /\ SlicesLoaded' /\ VarShapes' /\ ScopeShapes' /\ DepsShapes' /\ CallJob'
        /\ MovingJob' /\ OneJob' /\ JobImage' /\ UnscopeShape' /\ ScopeIdle'
        /\ Unique' /\ NoSliceYet' /\ DrainFree' /\ DrainOld' /\ FixJob'
    BY <1>v, Frame
  <1>h. \A c \in Lib : CoreHeld(c)' <=> CoreHeld(c)
    BY <1>t DEF Types, CoreHeld, Handles, Unmap
  <1>s. \A c \in Lib : SliceHeld(c)' <=> SliceHeld(c)
    BY <1>t DEF Types, SliceHeld, Handles, Unmap
  <1>r. \A c \in Lib : Reach(c)' \subseteq Reach(c) /\ (Isolated(c) => Isolated(c)')
    BY <1>t DEF Reach, Isolated, Types, ImageTypes, Unmap
  <1>u. \A u \in Thread : fix[u].lib # None => fix[u].lib # dying[t]
    <2> SUFFICES ASSUME NEW u \in Thread, fix[u].lib # None, fix[u].lib = dying[t]
                 PROVE FALSE
      OBVIOUS
    <2>1. CoreHeld(fix[u].lib) /\ fix[u].lib \in Lib
      BY <1>t, Places, <1>g
         DEF Types, FixJob, CallJob, JobImage, Relocating, DropParts, JobParts, JobTypes
    <2> QED
      BY <2>1, <1>g DEF HeldUsable, Usable, OwnParts
  <1>1. HeldUsable'
    BY <1>t, <1>h, <1>g DEF HeldUsable, Usable, Types, OwnParts, DropTypes, EmptyValues, Unmap
  <1>2. MappedOwned'
    BY <1>t, <1>h, <1>g
       DEF MappedOwned, Types, OneDropper, OwnParts, DropTypes, ImageTypes, Unmap
  <1>3. OneDropper' BY <1>t, <1>g DEF OneDropper, Types, OwnParts, DropTypes, Unmap
  <1>4. DyingMapped'
    BY <1>t, <1>g DEF DyingMapped, Types, OneDropper, OwnParts, DropTypes, Unmap
  <1>5. LoadedFirst' BY <1>t, <1>r, <1>g DEF LoadedFirst, Types, OwnParts, Unmap
  <1>14. BindQuiet' BY <1>t, <1>g DEF BindQuiet, NotDropping, Types, JobParts, DropTypes, Unmap
  <1>18. RawUnbound' BY <1>t, <1>r, <1>g DEF RawUnbound, Sliced, Types, CoverParts, Unmap
  <1>19. JobUnbound' BY <1>t, <1>r, <1>g DEF JobUnbound, Types, CoverParts, JobTypes, Unmap
  <1>20. ScopeCovers' BY <1>t, <1>r, <1>g DEF ScopeCovers, Types, CoverParts, JobTypes, Unmap
  <1>21. SliceCovers' BY <1>t, <1>s, <1>r, <1>g DEF SliceCovers, Types, CoverParts, Unmap
  <1>25. DropShape' BY <1>t, <1>r, <1>g DEF DropShape, Sliced, Types, DropParts, Unmap
  <1>26. DyingShape' BY <1>t, <1>r, <1>g DEF DyingShape, Types, DropParts, DropTypes, Unmap
  <1>28. FixLibs'
    BY <1>t, <1>u, <1>g DEF FixLibs, Types, FixJob, Sliced, DropParts, ImageTypes, Unmap
  <1>29. FixQuiet' BY <1>t, <1>g DEF FixQuiet, Types, DropParts, DropTypes, Unmap
  <1>30. LazySliced' BY <1>t, <1>g DEF LazySliced, Types, DropParts, ImageTypes, Unmap
  <1> QED
    BY <1>w, <1>1, <1>2, <1>3, <1>4, <1>5, <1>14, <1>18, <1>19, <1>20, <1>21, <1>25, <1>26,
       <1>28, <1>29, <1>30
       DEF Parts, OwnParts, ShapeParts, JobParts, CoverParts, DropParts

\* A slice reference goes, maybe the last.
LEMMA ReleaseDepsStep ==
  ASSUME Parts, TypeInv, TypeInv', NEW t \in Thread, ReleaseDeps(t)
  PROVE Parts'
  <1>t. Types
    BY TypesHold
  <1>g. OwnParts /\ ShapeParts /\ JobParts /\ CoverParts /\ DropParts
    BY DEF Parts
  <1>v. UNCHANGED <<loaded, mapped, bound, lazy, weak, deps, var, job, scope, flags,
                    fix, dying>>
    BY DEF ReleaseDeps, image
  <1>u. /\ OneDropper' /\ LoadedFirst' /\ VarShapes' /\ ScopeShapes' /\ DepsShapes'
        /\ CallJob' /\ MovingJob' /\ OneJob' /\ JobImage' /\ UnscopeShape'
        /\ ScopeIdle' /\ RawUnbound' /\ JobUnbound' /\ ScopeCovers' /\ FixJob'
        /\ LazySliced'
    BY <1>v, Frame
  <1>p. PICK s \in Lib : s = cur[t].deps
    <2>1. cur[t] \in Handle /\ cur[t].deps # None
      BY <1>t DEF ReleaseDeps, Types, PlaceTypes
    <2> QED
      BY <2>1 DEF Handle
  <1>q. /\ cur[t].core = None /\ cur[t].deps = s /\ dying[t] = None
        /\ s # None /\ SliceHeld(s) /\ cur[t] # NoHandle
    <2>1. SliceHeld(s)
      BY <1>p, Places
    <2> QED
      BY <1>t, <1>p, <2>1 DEF ReleaseDeps, Types, EmptyValues
  <1>k. \A u \in Thread : cur'[u] = IF u = t THEN NoHandle ELSE cur[u]
    BY <1>t DEF ReleaseDeps, Types, PlaceTypes
  <1>i. UNCHANGED <<image, deps, var, scope, job, flags, fix, dying>>
    BY DEF ReleaseDeps
  <1>d. \/ SliceHeld(s)' /\ drain' = drain
        \/ ~SliceHeld(s)' /\ drain' = [drain EXCEPT ![t] = <<s>> \o drain[t]]
    BY <1>p DEF ReleaseDeps, SliceHeld
  <1>e. /\ \A u \in Thread : u # t => drain'[u] = drain[u]
        /\ \A i \in DOMAIN drain'[t] :
             \/ drain'[t][i] = s /\ ~SliceHeld(s)'
             \/ \E j \in DOMAIN drain[t] : drain'[t][i] = drain[t][j]
    <2>1. drain \in [Thread -> Seq(Lib)] /\ drain[t] \in Seq(Lib)
      BY DEF TypeInv, TypeOK
    <2>2. CASE drain' = drain
      BY <2>2
    <2>3. CASE ~SliceHeld(s)' /\ drain' = [drain EXCEPT ![t] = <<s>> \o drain[t]]
      <3>1. drain'[t] = <<s>> \o drain[t]
        BY <2>1, <2>3
      <3> QED
        BY SMTT(30), <2>3
    <2> QED
      BY <1>d, <2>2, <2>3
  <1>n. ~FreshLib(s)
    BY <1>q, <1>g DEF Unique, FreshLib, CoverParts
  <1>h. \A c \in Lib : CoreHeld(c)' <=> CoreHeld(c)
    BY SMTT(30), <1>t, <1>q, <1>k, <1>i DEF Types, CoreHeld, Handles, EmptyValues
  <1>s. /\ \A c \in Lib : c # s => (SliceHeld(c)' <=> SliceHeld(c))
        /\ SliceHeld(s)
    BY SMTT(30), <1>t, <1>q, <1>k, <1>i DEF Types, SliceHeld, Handles, EmptyValues
  <1>r. \A c \in Lib : Reach(c)' = Reach(c) /\ (Isolated(c)' <=> Isolated(c))
    BY <1>i DEF Reach, Isolated, image
  <1>f. \A c \in Lib : FreshLib(c)' => FreshLib(c)
    BY <1>t, <1>i DEF Types, FreshLib, Fresh
  <1>1. HeldUsable' BY <1>t, <1>h, <1>g, <1>i DEF HeldUsable, Usable, Types, OwnParts, image
  <1>2. MappedOwned'
    BY <1>t, <1>h, <1>g, <1>i DEF MappedOwned, Types, OwnParts, ImageTypes, image
  <1>4. DyingMapped' BY <1>g, <1>q, <1>k, <1>i DEF DyingMapped, OwnParts, image
  <1>6. SlicesLoaded' BY <1>s, <1>g, <1>i DEF SlicesLoaded, OwnParts, image
  <1>14. BindQuiet' BY <1>e, <1>g, <1>q, <1>k, <1>i DEF BindQuiet, NotDropping, JobParts
  <1>17. Unique'
    BY SMTT(30), <1>t, <1>s, <1>g, <1>q, <1>k, <1>i
       DEF Unique, Fresh, Sliced, Types, CoverParts, EmptyValues, image
  <1>21. SliceCovers' BY <1>t, <1>s, <1>r, <1>g, <1>i DEF SliceCovers, Types, CoverParts
  <1>22. NoSliceYet' BY <1>t, <1>f, <1>g, <1>i DEF NoSliceYet, Types, CoverParts, image
  <1>23. DrainFree'
    <2>1. \A c \in Lib : SliceHeld(c)' => SliceHeld(c)
      BY <1>s
    <2>2. s \in loaded
      BY <1>g, <1>q, <1>k, <1>i DEF SlicesLoaded, OwnParts
    <2>3. \A u \in Thread : \A i \in DOMAIN drain[u] :
            \E c \in loaded : drain[u][i] = c /\ ~SliceHeld(c)'
      BY <1>t, <2>1, <1>g DEF DrainFree, Types, CoverParts, ImageTypes
    <2>4. \A u \in Thread : \A i \in DOMAIN drain'[u] :
            \E c \in loaded : drain'[u][i] = c /\ ~SliceHeld(c)'
      BY SMTT(30), <1>e, <2>2, <2>3
    <2> QED
      BY <2>4, <1>i DEF DrainFree, image
  <1>24. DrainOld'
    <2>1. \A u \in Thread : \A i \in DOMAIN drain[u] :
            \E c \in Lib : drain[u][i] = c /\ ~FreshLib(c)'
      BY <1>t, <1>f, <1>g DEF DrainFree, DrainOld, Types, CoverParts, ImageTypes
    <2>2. ~FreshLib(s)'
      BY <1>f, <1>n
    <2>3. \A u \in Thread : \A i \in DOMAIN drain'[u] :
            \E c \in Lib : drain'[u][i] = c /\ ~FreshLib(c)'
      BY SMTT(30), <1>e, <2>1, <2>2
    <2> QED
      BY <2>3 DEF DrainOld
  <1>25. DropShape'
    BY <1>t, <1>r, <1>g, <1>k, <1>i DEF DropShape, Sliced, Types, DropParts, EmptyValues
  <1>26. DyingShape'
    BY <1>t, <1>r, <1>g, <1>q, <1>k, <1>i DEF DyingShape, Types, DropParts, JobTypes, DropTypes
  <1>28. FixLibs' BY <1>t, <1>g, <1>k, <1>i DEF FixLibs, Types, DropParts, EmptyValues, image
  <1>29. FixQuiet'
    BY <1>t, <1>d, <1>g, <1>q, <1>k, <1>i DEF FixQuiet, Types, DropParts, DropTypes
  <1> QED
    BY <1>u, <1>1, <1>2, <1>4, <1>6, <1>14, <1>17, <1>21, <1>22, <1>23, <1>24, <1>25, <1>26,
       <1>28, <1>29
       DEF Parts, OwnParts, ShapeParts, JobParts, CoverParts, DropParts

\* An element of a slice nobody owns is dropped.
LEMMA DrainDepsStep ==
  ASSUME Parts, TypeInv, TypeInv', NEW t \in Thread, DrainDeps(t)
  PROVE Parts'
  <1>t. Types
    BY TypesHold
  <1>g. OwnParts /\ ShapeParts /\ JobParts /\ CoverParts /\ DropParts
    BY DEF Parts
  <1>v. UNCHANGED <<loaded, mapped, bound, lazy, weak, var, job, scope, flags, fix,
                    drain, dying>>
    BY DEF DrainDeps, image
  <1>u. /\ OneDropper' /\ LoadedFirst' /\ VarShapes' /\ ScopeShapes' /\ CallJob'
        /\ MovingJob' /\ OneJob' /\ JobImage' /\ UnscopeShape' /\ ScopeIdle'
        /\ RawUnbound' /\ JobUnbound' /\ ScopeCovers' /\ DrainOld' /\ FixJob'
        /\ LazySliced'
    BY <1>v, Frame
  <1>e. /\ ~SliceHeld(Head(drain[t])) /\ Head(drain[t]) \in Lib
        /\ cur[t] = NoHandle /\ dying[t] = None /\ drain[t] # <<>>
    <2>1. drain[t] \in Seq(Lib) /\ drain[t] # <<>>
      BY DEF DrainDeps, TypeInv, TypeOK
    <2>2. 1 \in DOMAIN drain[t] /\ Head(drain[t]) = drain[t][1] /\ drain[t][1] \in Lib
      BY SMTT(30), <2>1
    <2> QED
      BY SMTT(30), <2>2, <1>g DEF DrainDeps, DrainFree, CoverParts
  <1> DEFINE s == Head(drain[t])
  <1>p. PICK g \in deps[s] : /\ deps' = [deps EXCEPT ![s] = @ \ {g}]
                             /\ cur' = [cur EXCEPT ![t] = g]
    BY DEF DrainDeps
  <1>i. UNCHANGED <<image, var, job, scope, flags, fix, drain, dying>>
    BY DEF DrainDeps
  <1>y. s \in Lib /\ ~SliceHeld(s)
    BY <1>e
  <1> HIDE DEF DrainDeps, s
  <1>d. /\ \A u \in Thread : cur'[u] = IF u = t THEN g ELSE cur[u]
        /\ \A c \in Lib : deps'[c] = IF c = s THEN deps[s] \ {g} ELSE deps[c]
    BY <1>t, <1>p, <1>y DEF Types, PlaceTypes
  <1>h. \A c \in Lib : CoreHeld(c)' <=> CoreHeld(c)
    BY SMTT(30), <1>t, <1>e, <1>d, <1>i, <1>y DEF Types, CoreHeld, Handles, EmptyValues
  <1>s. \A c \in Lib : SliceHeld(c)' <=> SliceHeld(c)
    BY SMTT(30), <1>t, <1>e, <1>d, <1>i, <1>y DEF Types, SliceHeld, Handles, EmptyValues
  <1>r. \A c \in Lib : Reach(c)' = Reach(c) /\ (Isolated(c)' <=> Isolated(c))
    BY <1>i DEF Reach, Isolated, image
  <1>f. \A c \in Lib : FreshLib(c)' => FreshLib(c)
    BY <1>t, <1>i DEF Types, FreshLib, Fresh
  <1>1. HeldUsable' BY <1>t, <1>h, <1>g, <1>i DEF HeldUsable, Usable, Types, OwnParts, image
  <1>2. MappedOwned'
    BY <1>t, <1>h, <1>g, <1>i DEF MappedOwned, Types, OwnParts, ImageTypes, image
  <1>4. DyingMapped' BY <1>e, <1>g, <1>d, <1>i DEF DyingMapped, OwnParts, image
  <1>6. SlicesLoaded' BY <1>t, <1>s, <1>g, <1>i DEF SlicesLoaded, Types, OwnParts, image
  <1>9. DepsShapes' BY <1>t, <1>g, <1>d DEF DepsShapes, Types, ShapeParts
  <1>14. BindQuiet' BY <1>e, <1>g, <1>d, <1>i DEF BindQuiet, NotDropping, JobParts
  <1>17. Unique'
    <2> SUFFICES ASSUME NEW v \in Var, Fresh(v)'
                 PROVE  /\ \A w \in Var : var'[w].core = var'[v].core => w = v
                        /\ \A u \in Thread : cur'[u].core # var'[v].core
                        /\ \A u \in Thread : \A h \in scope'[u] : h.core # var'[v].core
                        /\ \A l \in Lib : \A h \in deps'[l] : h.core # var'[v].core
                        /\ ~SliceHeld(var[v].core)'
      BY DEF Unique
    <2>1. var' = var /\ scope' = scope
      BY <1>i
    <2>2. Fresh(v) /\ var[v].core \in Lib
      BY <2>1 DEF Fresh, Sliced
    <2>3. /\ \A w \in Var : var[w].core = var[v].core => w = v
          /\ \A u \in Thread : cur[u].core # var[v].core
          /\ \A u \in Thread : \A h \in scope[u] : h.core # var[v].core
          /\ \A l \in Lib : \A h \in deps[l] : h.core # var[v].core
          /\ ~SliceHeld(var[v].core)
      BY <1>g, <2>2 DEF CoverParts, Unique
    <2>4. \A u \in Thread : cur'[u].core # var[v].core
      BY <1>d, <1>y, <2>3
    <2>5. \A l \in Lib : \A h \in deps'[l] : h.core # var[v].core
      BY <1>d, <1>y, <2>3
    <2>6. ~SliceHeld(var[v].core)'
      BY <1>s, <2>1, <2>2, <2>3
    <2> QED
      BY <2>1, <2>3, <2>4, <2>5, <2>6
  <1>21. SliceCovers'
    <2> SUFFICES ASSUME NEW c \in Lib, SliceHeld(c)'
                 PROVE  Reach(c)' \subseteq Cores(deps[c])'
      BY DEF SliceCovers
    <2>1. SliceHeld(c) /\ c # s
      BY <1>s, <1>y
    <2>2. deps'[c] = deps[c]
      BY <1>d, <2>1
    <2>3. Reach(c) \subseteq Cores(deps[c])
      BY <1>g, <2>1 DEF SliceCovers, CoverParts
    <2>4. Reach(c)' = Reach(c)
      BY <1>r
    <2> QED
      BY <2>2, <2>3, <2>4 DEF Cores
  <1>22. NoSliceYet' BY <1>t, <1>f, <1>g, <1>d, <1>i DEF NoSliceYet, Types, CoverParts, image
  <1>23. DrainFree'
    BY <1>t, <1>s, <1>g, <1>i DEF DrainFree, Types, CoverParts, ImageTypes, image
  <1>25. DropShape'
    <2> SUFFICES ASSUME NEW u \in Thread, fix'[u].lib = None, Sliced(cur'[u].core),
                        ~Isolated(cur[u].core)'
                 PROVE  cur'[u].deps = cur'[u].core
      BY DEF DropShape, Sliced
    <2>1. CASE u = t
      <3>1. cur'[u] = g /\ Full(g)
        BY <1>g, <1>d, <1>y, <2>1 DEF DepsShapes, ShapeParts
      <3> QED
        BY <3>1 DEF Full
    <2>2. CASE u # t
      <3>1. cur'[u] = cur[u] /\ fix'[u] = fix[u]
        BY <1>d, <1>i, <2>2
      <3>2. ~Isolated(cur[u].core) /\ Sliced(cur[u].core)
        BY <1>r, <3>1 DEF Sliced, Isolated, Reach
      <3> QED
        BY <1>g, <3>1, <3>2 DEF DropShape, DropParts
    <2> QED
      BY <2>1, <2>2
  <1>26. DyingShape'
    BY <1>t, <1>r, <1>e, <1>g, <1>d, <1>i DEF DyingShape, Types, DropParts, DropTypes
  <1>28. FixLibs' BY <1>e, <1>g, <1>d, <1>i DEF FixLibs, FixQuiet, DropParts, image
  <1>29. FixQuiet' BY <1>e, <1>g, <1>d, <1>i DEF FixQuiet, DropParts
  <1> QED
    BY <1>u, <1>1, <1>2, <1>4, <1>6, <1>9, <1>14, <1>17, <1>21, <1>22, <1>23, <1>25, <1>26,
       <1>28, <1>29
       DEF Parts, OwnParts, ShapeParts, JobParts, CoverParts, DropParts

\* An emptied slice goes.
LEMMA FreeSliceStep ==
  ASSUME Parts, TypeInv, TypeInv', NEW t \in Thread, FreeSlice(t)
  PROVE Parts'
  <1>t. Types
    BY TypesHold
  <1>g. OwnParts /\ ShapeParts /\ JobParts /\ CoverParts /\ DropParts
    BY DEF Parts
  <1>v. UNCHANGED <<loaded, mapped, bound, lazy, weak, deps, var, job, scope, flags,
                    fix, cur, dying>>
    BY DEF FreeSlice, image
  <1>u. /\ HeldUsable' /\ MappedOwned' /\ OneDropper' /\ DyingMapped' /\ LoadedFirst'
        /\ SlicesLoaded' /\ VarShapes' /\ ScopeShapes' /\ DepsShapes' /\ CallJob'
        /\ MovingJob' /\ OneJob' /\ JobImage' /\ UnscopeShape' /\ ScopeIdle'
        /\ Unique' /\ RawUnbound' /\ JobUnbound' /\ ScopeCovers' /\ SliceCovers'
        /\ NoSliceYet' /\ DropShape' /\ DyingShape' /\ FixJob' /\ FixLibs'
        /\ LazySliced'
    BY <1>v, Frame
  <1>s. \A c \in Lib : SliceHeld(c)' <=> SliceHeld(c)
    BY <1>t DEF Types, SliceHeld, Handles, FreeSlice
  <1>f. \A c \in Lib : FreshLib(c)' => FreshLib(c)
    BY <1>t DEF Types, FreshLib, Fresh, FreeSlice
  <1>q. \A u \in Thread : \A i \in DOMAIN drain'[u] :
          \E j \in DOMAIN drain[u] : drain'[u][i] = drain[u][j]
    <2>1. drain \in [Thread -> Seq(Lib)]
      BY DEF TypeInv, TypeOK
    <2> QED
      BY SMTT(30), <2>1 DEF FreeSlice, LeaveSlice
  <1>14. BindQuiet'
    BY <1>t, <1>g DEF BindQuiet, NotDropping, Types, JobParts, DropTypes, FreeSlice
  <1>23. DrainFree'
    <2> SUFFICES ASSUME NEW u \in Thread, NEW i \in DOMAIN drain'[u]
                 PROVE  drain'[u][i] \in loaded' /\ ~SliceHeld(drain[u][i])'
      BY DEF DrainFree
    <2>1. PICK j \in DOMAIN drain[u] : drain'[u][i] = drain[u][j]
      BY <1>q
    <2>2. drain[u][j] \in loaded /\ ~SliceHeld(drain[u][j])
      BY <1>g DEF DrainFree, CoverParts
    <2>3. loaded' = loaded /\ drain[u][j] \in Lib
      BY <1>t, <1>v, <2>2 DEF Types, ImageTypes
    <2> QED
      BY <1>s, <2>1, <2>2, <2>3
  <1>24. DrainOld'
    BY SMTT(30), <1>t, <1>f, <1>q, <1>g DEF DrainOld, DrainFree, Types, CoverParts, ImageTypes
  <1>29. FixQuiet' BY <1>t, <1>g DEF FixQuiet, Types, DropParts, DropTypes, FreeSlice
  <1> QED
    BY <1>u, <1>14, <1>23, <1>24, <1>29
       DEF Parts, OwnParts, ShapeParts, JobParts, CoverParts, DropParts

-----------------------------------------------------------------------------
(* The invariant and what follows from it *)

\* A stuttering step.
LEMMA StutterStep ==
  ASSUME Parts, UNCHANGED vars
  PROVE Parts'
  <1>1. UNCHANGED <<loaded, mapped, bound, lazy, weak, deps, var, job, scope, flags, fix,
                    cur, drain, dying>>
    BY DEF vars
  <1> QED
    BY <1>1, Frame DEF Parts, OwnParts, ShapeParts, JobParts, CoverParts, DropParts

\* In the initial state nobody owns anything.
LEMMA PartsInit == Init => Parts
  <1> SUFFICES ASSUME Init PROVE Parts
    OBVIOUS
  <1>t. Types
    BY TypeInit, TypesHold
  <1>1. /\ \A v \in Var : var[v] = NoHandle
        /\ \A t \in Thread : cur[t] = NoHandle /\ scope[t] = {} /\ dying[t] = None
                             /\ drain[t] = <<>> /\ fix[t] = NoFix /\ job[t] = NoJob
        /\ \A l \in Lib : deps[l] = {} /\ bound[l] = {} /\ weak[l] = {}
        /\ mapped = {} /\ loaded = {} /\ lazy = {}
    BY DEF Init
  <1>2. ASSUME NEW h \in Handles PROVE h = NoHandle
    <2>1. \/ \E v \in Var : h = var[v]
          \/ \E t \in Thread : h = cur[t] \/ h \in scope[t]
          \/ \E l \in Lib : h \in deps[l]
      BY DEF Handles
    <2> QED
      BY SMTT(30), <1>1, <2>1
  <1>3. \A l \in Lib : ~CoreHeld(l) /\ ~SliceHeld(l) /\ Isolated(l)
    <2>1. \A l \in Lib : ~CoreHeld(l) /\ ~SliceHeld(l)
      BY <1>t, <1>2 DEF Types, CoreHeld, SliceHeld, EmptyValues
    <2>2. \A l \in Lib : Isolated(l)
      BY <1>1 DEF Isolated, Reach
    <2> QED
      BY <2>1, <2>2
  <1>4. \A v \in Var : ~Fresh(v)
    BY <1>t, <1>1 DEF Types, Fresh, Sliced, EmptyValues
  <1>5. /\ HeldUsable /\ MappedOwned /\ OneDropper /\ DyingMapped /\ LoadedFirst
        /\ SlicesLoaded
    BY <1>t, <1>1, <1>3
       DEF Types, HeldUsable, MappedOwned, OneDropper, DyingMapped, LoadedFirst, SlicesLoaded
  <1>6. VarShapes /\ ScopeShapes /\ DepsShapes
    BY <1>1 DEF VarShapes, ScopeShapes, DepsShapes
  <1>7. \A t \in Thread : job[t].op = "none"
    BY <1>t, <1>1 DEF Types, EmptyValues
  <1>8. \A v \in Var : var[v].kind = "empty" /\ var[v].core = None
    BY <1>t, <1>1 DEF Types, EmptyValues
  <1>9. CallJob /\ MovingJob /\ OneJob /\ JobImage /\ BindQuiet /\ UnscopeShape
    BY <1>7, <1>8
       DEF CallJob, MovingJob, OneJob, JobImage, BindQuiet, UnscopeShape, InRelocate,
           Relocating
  <1>10. ScopeIdle /\ Unique /\ RawUnbound /\ JobUnbound /\ ScopeCovers
    BY <1>1, <1>4, <1>7, <1>8 DEF ScopeIdle, Unique, RawUnbound, JobUnbound, ScopeCovers
  <1>11. SliceCovers /\ NoSliceYet /\ DrainFree /\ DrainOld
    BY SMTT(30), <1>1, <1>3 DEF SliceCovers, NoSliceYet, DrainFree, DrainOld
  <1>12. \A t \in Thread : cur[t].core = None /\ cur[t].deps = None /\ fix[t].lib = None
    BY <1>t, <1>1 DEF Types, EmptyValues
  <1>13. DropShape /\ DyingShape /\ FixJob /\ FixLibs /\ FixQuiet /\ LazySliced
    BY <1>t, <1>1, <1>12
       DEF Types, DropShape, DyingShape, FixJob, FixLibs, FixQuiet, LazySliced, Sliced
  <1> QED
    BY <1>5, <1>6, <1>9, <1>10, <1>11, <1>13
       DEF Parts, OwnParts, ShapeParts, JobParts, CoverParts, DropParts

\* Every step of a program without ElfCore clones preserves the invariant.
LEMMA PartsStep ==
  CoreVar = {} => (Parts /\ TypeInv /\ TypeInv' /\ [Next]_vars => Parts')
  <1> SUFFICES ASSUME CoreVar = {}, Parts, TypeInv, TypeInv', [Next]_vars PROVE Parts'
    OBVIOUS
  <1>1. CASE UNCHANGED vars
    BY <1>1, StutterStep
  <1>2. ASSUME NEW v \in Var, NEW l \in Lib, Load(v, l) PROVE Parts'
    BY <1>2, LoadStep
  <1>3. ASSUME NEW v \in Var, NEW w \in Var, Clone(v, w) \/ CloneCore(v, w) PROVE Parts'
    <2>1. ~CloneCore(v, w)
      BY DEF CloneCore
    <2> QED
      BY <1>3, <2>1, CloneStep
  <1>4. ASSUME NEW t \in Thread, NEW v \in Var, Call(t, v) \/ Drop(t, v) PROVE Parts'
    BY <1>4, CallStep, DropStep
  <1>5. ASSUME NEW t \in Thread, NEW v \in Var, NEW ws \in SUBSET Var,
               Relocate(t, v, ws) \/ RelocateEmpty(t, v, ws)
        PROVE Parts'
    <2>1. CASE Relocate(t, v, ws)
      <3>1. StartRelocate(t, v, ws, "bind") /\ var[v].core \notin Trivial
        BY <2>1 DEF Relocate
      <3> QED
        BY <3>1, StartRelocateStep
    <2>2. CASE RelocateEmpty(t, v, ws)
      <3>1. StartRelocate(t, v, ws, "unscope") /\ var[v].core \in Trivial
        BY <2>2 DEF RelocateEmpty
      <3> QED
        BY <3>1, StartRelocateStep
    <2> QED
      BY <1>5, <2>1, <2>2
  <1>6. ASSUME NEW t \in Thread, BindNow(t) PROVE Parts'
    <2>1. job[t].op = "bind" /\ lazy' = lazy
      BY <1>6 DEF BindNow
    <2>2. job[t].lib \in Lib
      BY <2>1, TypesHold DEF Types, JobTypes
    <2>3. PICK B \in SUBSET Cores(scope[t]) : BindAs(t, job[t].lib, B, {})
      BY <1>6 DEF BindNow
    <2> QED
      BY <2>1, <2>2, <2>3, BindAsStep
  <1>7. ASSUME NEW t \in Thread, BindLazy(t) PROVE Parts'
    <2>1. job[t].op = "bind" /\ lazy' = lazy \cup {job[t].lib} /\ job[t].lib \notin Object
      BY <1>7 DEF BindLazy
    <2>2. job[t].lib \in Lib
      BY <2>1, TypesHold DEF Types, JobTypes
    <2>3. PICK B \in SUBSET Cores(scope[t]) :
            BindAs(t, job[t].lib, B, Cores(scope[t]) \cap Needed[job[t].lib])
      BY <1>7 DEF BindLazy
    <2> QED
      BY <2>1, <2>2, <2>3, BindAsStep
  <1>8. ASSUME NEW t \in Thread, Return(t) \/ Fixup(t) \/ Internal(t) PROVE Parts'
    BY <1>6, <1>7, <1>8, ReturnStep, FixupStep, BindFailsStep, CollectStep, UnscopeStep,
       RelocatedStep, FixupLookupStep, FixupWriteStep, FixupAbortStep, ReleaseCoreStep,
       UnmapStep, ReleaseDepsStep, DrainDepsStep, FreeSliceStep
       DEF Internal
  <1> QED
    BY <1>1, <1>2, <1>3, <1>4, <1>5, <1>8 DEF Next

\* A dynamic image that is mapped and reaches others owns its deps slice
\* through somebody, or is in its initialisers with the scope still there.
LEMMA Retained ==
  ASSUME Parts, Types, NEW m \in mapped \ Object, NEW d \in Reach(m)
  PROVE  Usable(d)
  <1>g. OwnParts /\ ShapeParts /\ JobParts /\ CoverParts /\ DropParts
    BY DEF Parts
  <1>1. m \in Lib /\ Sliced(m) /\ ~Isolated(m) /\ d \in Lib
    BY <1>g DEF LoadedFirst, Sliced, Isolated, Types, ImageTypes, Reach, OwnParts
  <1>2. SliceHeld(m) => Usable(d)
    <2> SUFFICES ASSUME SliceHeld(m) PROVE Usable(d)
      OBVIOUS
    <2>1. \E h \in deps[m] : h.core = d
      BY <1>1, <1>g DEF SliceCovers, Cores, CoverParts
    <2> QED
      BY <1>1, <2>1, Places, <1>g DEF HeldUsable, OwnParts
  <1>3. ASSUME NEW h, h.core = m, Full(h), SliceHeld(h.deps) PROVE Usable(d)
    BY <1>1, <1>2, <1>3 DEF Full
  <1>4. ASSUME NEW t \in Thread, dying[t] = m PROVE Usable(d)
    <2>1. cur[t].deps = m
      BY <1>1, <1>4, <1>g DEF DyingShape, Types, EmptyValues, DropParts
    <2> QED
      BY <1>2, <2>1, Places
  <1>5. ASSUME NEW v \in Var, var[v].core = m PROVE Usable(d)
    <2>1. SliceHeld(var[v].deps)
      BY Places
    <2>2. CASE Full(var[v])
      BY <1>3, <1>5, <2>1, <2>2
    <2>3. CASE var[v].kind = "moving"
      <3>1. PICK t \in Thread : InRelocate(t) /\ job[t].v = v
        BY <2>3, <1>g DEF MovingJob, JobParts
      <3>2. CASE job[t].op = "bind"
        BY <1>1, <1>5, <3>1, <3>2, <1>g
           DEF JobImage, Relocating, JobUnbound, JobParts, CoverParts
      <3>3. CASE job[t].op = "init"
        <4>1. job[t].lib = m
          BY <1>5, <3>1, <3>3, <1>g DEF JobImage, Relocating, JobParts
        <4>2. \E h \in scope[t] : h.core = d
          BY <1>1, <3>3, <4>1, <1>g DEF ScopeCovers, Cores, CoverParts
        <4> QED
          BY <1>1, <4>2, Places, <1>g DEF HeldUsable, OwnParts
      <3>4. CASE job[t].op = "unscope"
        <4>1. var[v] = Moved \/ Full(As(var[v], "loaded"))
          BY <3>1, <3>4, <1>g DEF UnscopeShape, JobParts
        <4>2. var[v] # Moved
          BY <1>1, <1>5 DEF Types, EmptyValues
        <4>3. As(var[v], "loaded").core = m /\ As(var[v], "loaded").deps = var[v].deps
          BY <1>5 DEF As
        <4> QED
          BY <1>3, <2>1, <4>1, <4>2, <4>3
      <3> QED
        BY <3>1, <3>2, <3>3, <3>4 DEF InRelocate
    <2> QED
      BY <1>1, <1>5, <2>2, <2>3, <1>g
         DEF VarShapes, Raw, RawUnbound, Types, EmptyValues, ShapeParts, CoverParts
  <1>6. ASSUME NEW h, Full(h), SliceHeld(h.deps), h.core = m PROVE Usable(d)
    BY <1>3, <1>6
  <1>7. ASSUME NEW t \in Thread, NEW h \in scope[t], h.core = m PROVE Usable(d)
    <2>1. Full(h) /\ SliceHeld(h.deps)
      BY Places, <1>g DEF ScopeShapes, ShapeParts
    <2> QED
      BY <1>3, <1>7, <2>1
  <1>8. ASSUME NEW l \in Lib, NEW h \in deps[l], h.core = m PROVE Usable(d)
    <2>1. Full(h) /\ SliceHeld(h.deps)
      BY Places, <1>g DEF DepsShapes, ShapeParts
    <2> QED
      BY <1>3, <1>8, <2>1
  <1>9. ASSUME NEW t \in Thread, cur[t].core = m PROVE Usable(d)
    <2>1. CASE fix[t].lib = None
      <3>1. cur[t].deps = m
        BY <1>1, <1>9, <2>1, <1>g DEF DropShape, DropParts
      <3> QED
        BY <1>2, <3>1, Places
    <2>2. CASE fix[t].lib # None
      <3>1. m \in weak[fix[t].lib]
        BY <1>1, <1>9, <2>2, <1>g DEF FixLibs, Types, EmptyValues, DropParts
      <3>2. /\ fix[t].lib \in Lib
            /\ (\E h \in scope[t] : h.core = m) \/ (\E h \in deps[fix[t].lib] : h.core = m)
        BY <2>2, <3>1, Covered
      <3> QED
        BY <1>7, <1>8, <3>2
    <2> QED
      BY <2>1, <2>2
  <1>10. CASE CoreHeld(m)
    <2>1. \/ \E v \in Var : var[v].core = m
          \/ \E t \in Thread : cur[t].core = m
          \/ \E t \in Thread : \E h \in scope[t] : h.core = m
          \/ \E l \in Lib : \E h \in deps[l] : h.core = m
      BY <1>10 DEF CoreHeld, Handles
    <2> QED
      BY <1>5, <1>7, <1>8, <1>9, <2>1
  <1> QED
    BY <1>4, <1>10, <1>g DEF MappedOwned, OwnParts

\* The inductive invariant holds of every program without ElfCore clones.
THEOREM PartsHold == CoreVar = {} => (Spec => []Parts)
  <1>1. Init => Parts
    BY PartsInit
  <1>2. Spec => []TypeInv
    <2>1. Init => TypeInv
      BY TypeInit
    <2>2. TypeInv /\ [Next]_vars => TypeInv'
      BY TypeStep
    <2> QED
      BY <2>1, <2>2, PTL DEF Spec
  <1>3. ASSUME CoreVar = {} PROVE Parts /\ TypeInv /\ TypeInv' /\ [Next]_vars => Parts'
    BY <1>3, PartsStep
  <1>4. ASSUME CoreVar = {} PROVE Spec => []Parts
    BY <1>1, <1>2, <1>3, <1>4, PTL DEF Spec
  <1> QED
    BY <1>4

\* While a dynamic image is mapped, what relocation or dl_fixup took an
\* address from, and what its lazy scope can find, is mapped and alive: for
\* any number of images, variables and threads, any DT_NEEDED graph and any
\* interleaving of relocations, calls, lazy bindings and drops.
THEOREM DependenciesOutlive == CoreVar = {} => (Spec => []NoDanglingBinding)
  <1>1. Parts /\ TypeInv => NoDanglingBinding
    BY TypesHold, Retained DEF NoDanglingBinding, Reach
  <1>2. Spec => []TypeInv
    BY TypeInit, TypeStep, PTL DEF Spec
  <1>3. ASSUME CoreVar = {} PROVE Spec => []NoDanglingBinding
    <2>1. Spec => []Parts
      BY <1>3, PartsHold
    <2> QED
      BY <1>1, <1>2, <2>1, PTL
  <1> QED
    BY <1>3

\* Code a thread executes (a symbol it calls, an initialiser relocate()
\* runs) is mapped, and so is all it is bound to.
THEOREM CodeMapped == CoreVar = {} => (Spec => []RunningCodeMapped)
  <1>1. Parts /\ TypeInv => RunningCodeMapped
    <2> SUFFICES ASSUME Parts, TypeInv, NEW t \in Thread, job[t].op \in {"call", "init"}
                 PROVE  /\ Usable(job[t].lib)
                        /\ job[t].lib \notin Object => \A d \in bound[job[t].lib] : Usable(d)
      BY DEF RunningCodeMapped
    <2>g. OwnParts /\ ShapeParts /\ JobParts /\ CoverParts /\ DropParts
      BY DEF Parts
    <2>t. Types
      BY TypesHold
    <2>1. job[t].v \in Var /\ job[t].lib \in Lib /\ var[job[t].v].core = job[t].lib
      BY <2>t, <2>g DEF Types, JobTypes, CallJob, JobImage, Relocating, JobParts
    <2>2. Usable(job[t].lib)
      BY <2>1, Places, <2>g DEF HeldUsable, OwnParts
    <2> QED
      BY <2>t, <2>1, <2>2, Retained DEF Usable, Reach
  <1>2. Spec => []TypeInv
    BY TypeInit, TypeStep, PTL DEF Spec
  <1>3. ASSUME CoreVar = {} PROVE Spec => []RunningCodeMapped
    <2>1. Spec => []Parts
      BY <1>3, PartsHold
    <2> QED
      BY <1>1, <1>2, <2>1, PTL
  <1> QED
    BY <1>3

=============================================================================
