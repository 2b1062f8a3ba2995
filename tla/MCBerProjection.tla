--------------------------- MODULE MCBerProjection ---------------------------
(***************************************************************************)
(* BerProjection for TLC.  The schema is the one of the repository's       *)
(* projection tests with an unknown extension addition in the frames:      *)
(*   Root ::= SEQUENCE { alpha [0] SEQUENCE { x [0], y [1] },              *)
(*                       beta  [1] CHOICE   { left [0], right [1] }, ... } *)
(***************************************************************************)
EXTENDS BerProjection, TLC

CONSTANTS t1, x1, x2, v1, v2, long, bad

MCName == {"alpha", "beta", "x", "y", "left", "right", "new", "typo"}
Alpha == <<"alpha">>
Beta == <<"beta">>
X == <<"alpha", "x">>
Y == <<"alpha", "y">>
Left == <<"beta", "left">>
Right == <<"beta", "right">>
New == <<"new">>

MCField == {Alpha, Beta, X, Y, Left, Right}
MCSent == MCField \cup {New}
MCTagOf ==
    Alpha :> 0 @@ Beta :> 1 @@ X :> 0 @@ Y :> 1 @@ Left :> 0 @@ Right :> 1 @@ New :> 2

\* A field of a SEQUENCE, an alternative and the CHOICE above it, and a path
\* whose second component does not exist.
MCAsked == {Y, Left, Beta, <<"beta", "typo">>}

Laid(layout, broken) == [layout |-> layout, broken |-> broken]
Plain == Laid(<<>> :> <<Alpha, New, Beta>> @@ Alpha :> <<X, Y>> @@ Beta :> <<Left>>, {})
Sparse == Laid(<<>> :> <<New, Beta, Alpha>> @@ Alpha :> <<Y>> @@ Beta :> <<Right>>, {})
Torn == Laid(<<>> :> <<Beta, Alpha>> @@ Alpha :> <<X, Y>> @@ Beta :> <<Left>>, {X})
MCFrame == {Plain, Sparse, Torn}

MCContent ==
    [f \in MCFrame |-> [c \in MCSent |->
        CASE c = Y /\ f = Sparse -> bad [] c = Y -> long [] OTHER -> v1]]
MCValue == {v1, v2, long, bad}
MCBad == {bad}
MCSize == v1 :> 1 @@ v2 :> 1 @@ bad :> 1 @@ long :> 2
MCThread == {t1}
MCTarget == {x1, x2}
Symmetry == Permutations(MCTarget)

ASSUME DistinctTags /\ FieldsOnce

=============================================================================
