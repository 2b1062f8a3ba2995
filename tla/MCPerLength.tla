---------------------------- MODULE MCPerLength ------------------------------
(***************************************************************************)
(* Blocks of three items, two to a fragment, and counts up to two          *)
(* fragments and more: every remainder, a value that ends on a fragment    *)
(* and one that ends on a block; a SIZE of each kind, one whose count has  *)
(* bits for more than its range.                                           *)
(***************************************************************************)
EXTENDS PerLength

Size(c, e, l, u) == [constrained |-> c, ext |-> e, lb |-> l, ub |-> u]

MCSizes == {Size(FALSE, FALSE, 0, 0), Size(TRUE, FALSE, 1, 3), Size(TRUE, FALSE, 2, 2),
            Size(TRUE, FALSE, 0, 0), Size(TRUE, TRUE, 1, 2), Size(TRUE, TRUE, 2, 2)}

MCWide == [s \in MCSizes |-> IF s.lb = 1 /\ s.ub = 3 THEN 3 ELSE s.ub - s.lb]
=============================================================================
