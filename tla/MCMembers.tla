----------------------------- MODULE MCMembers ------------------------------
(***************************************************************************)
(* A SET with a mandatory INTEGER, an OPTIONAL NULL, a member with a       *)
(* DEFAULT and a mandatory SET OF of up to two elements.                   *)
(***************************************************************************)
EXTENDS Members

CONSTANTS v, w      \* values of the scalar members

MCDflt == [m \in {3} |-> v]
MCScalar == [m \in 1..3 |-> IF m = 2 THEN {Null} ELSE {v, w}]
MCLists == {<<>>, <<1>>, <<1, 2>>, <<2, 1>>}
MCBlank == [m \in 1..4 |-> CASE m = 4 -> <<>> [] m = 2 -> Null [] OTHER -> v]
=============================================================================
