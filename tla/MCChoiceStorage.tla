--------------------------- MODULE MCChoiceStorage ---------------------------
(***************************************************************************)
(* ChoiceStorage for TLC: two objects of one extensible CHOICE with three  *)
(* alternatives; objects and values are interchangeable.                   *)
(***************************************************************************)
EXTENDS ChoiceStorage, TLC

CONSTANTS o1, o2, v1, v2

MCObj == {o1, o2}
MCValue == {v1, v2}
Symmetry == Permutations(MCObj) \cup Permutations(MCValue)
AllRules == {"BER", "XER", "JER", "PER"}

=============================================================================
