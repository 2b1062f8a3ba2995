--------------------------- MODULE MCPerExtensions --------------------------
(***************************************************************************)
(* A program of the newest version and an older one that lacks the last    *)
(* addition and has older types for the members.  The root has a mandatory *)
(* member whose type is itself extensible and one with a DEFAULT; addition *)
(* 1 is a group (mandatory 3, optional 4), addition 2 a plain member with  *)
(* a DEFAULT: the schema of tests/asn1/per_ext_group_test.asn1 with        *)
(* DEFAULTs.                                                               *)
(***************************************************************************)
EXTENDS PerExtensions

CONSTANTS
    new, old,       \* the two objects
    absent,
    d, v, w         \* a DEFAULT value, another one, v with an inner addition

MCUnitOf == [m \in 3..5 |-> IF m = 5 THEN 2 ELSE 1]
MCDflt == [m \in {2, 5} |-> d]
MCVals ==
    [m \in 1..5 |->
        CASE m = 1 -> {v, w}
          [] m \in {3, 4} -> {v}
          [] OTHER -> {d, v}]
MCBlank == [m \in {1} |-> v]
MCVersion == [o \in Obj |-> IF o = new THEN 2 ELSE 1]
MCBare == [x \in Value |-> IF x = w THEN v ELSE x]

\* The bound that keeps the product small: a state is explored further only
\* while one of the objects is new or as a decode left it.
OneEdited == \E o \in Obj : o \in decoded \/ content[o] = Fresh
=============================================================================
