--------------------------- MODULE ObjectBinding ----------------------------
(***************************************************************************)
(* What relocating an object promises its user: the references of the      *)
(* object are bound in their order, each to the symbol it names; a         *)
(* reference once bound stays bound to that symbol; the object is linked   *)
(* only when all of them are bound.  Nothing is said of how: of tables,    *)
(* slots or stubs.                                                         *)
(***************************************************************************)
EXTENDS Naturals, Sequences

CONSTANT Sym

VARIABLES
  want,     \* the symbols the references name
  bound,    \* what the references bound so far lead to
  outcome   \* linking, linked or failed (an error or a panic)

vars == <<want, bound, outcome>>

Init == want \in Seq(Sym) /\ bound = <<>> /\ outcome = "linking"

Bind ==
  /\ outcome = "linking" /\ Len(bound) < Len(want)
  /\ bound' = Append(bound, want[Len(bound) + 1])
  /\ UNCHANGED <<want, outcome>>

Finish ==
  /\ outcome = "linking" /\ bound = want
  /\ outcome' = "linked"
  /\ UNCHANGED <<want, bound>>

Fail ==
  /\ outcome = "linking"
  /\ outcome' = "failed"
  /\ UNCHANGED <<want, bound>>

Next == Bind \/ Finish \/ Fail

Spec == Init /\ [][Next]_vars
=============================================================================
