---------------------------- MODULE MCRelocation ----------------------------
(* Small instances of Relocation: a scope of two libraries, symbols named   *)
(* after who defines them.                                                  *)
EXTENDS Relocation

DefsOf(s) == CASE s \in {"both", "preboth"} -> {1, 2}
               [] s = "second" -> {2}
               [] OTHER -> {}

MCDefs == [s \in Sym |-> DefsOf(s)]
=============================================================================
