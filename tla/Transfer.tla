------------------------------- MODULE Transfer ------------------------------
(***************************************************************************)
(* What the length determinants of PER promise: items arrive in order, and *)
(* the transfer ends, with all of them or with an error (X.691 10.9; the   *)
(* loops of per_detail in PerCodec.hpp).                                   *)
(***************************************************************************)
EXTENDS Naturals

CONSTANT MaxCount

VARIABLES
    want,   \* items of the value
    have,   \* items that have arrived
    end     \* "open", "whole" or "error"

vars == <<want, have, end>>

Init == want \in 0..MaxCount /\ have = 0 /\ end = "open"

Move ==
    /\ end = "open"
    /\ have' \in have..want
    /\ end' = "open" \/ (end' = "whole" /\ have' = want)
    /\ UNCHANGED want

Fail == end = "open" /\ end' = "error" /\ UNCHANGED <<want, have>>

Next == Move \/ Fail

Spec == Init /\ [][Next]_vars /\ <>(end # "open")
=============================================================================
