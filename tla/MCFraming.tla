----------------------------- MODULE MCFraming -----------------------------
(* Octets of three bits: lengths change form at 4, 8 and 64, numbers at 3    *)
(* and, inside the long form, at 4 and 16.                                   *)
EXTENDS Framing

MCTypeOf == [n \in {1, 2, 4, 6, 7, 9, 10, 11, 12, 13, 14, 15, 17, 18} |->
    CASE n \in {2, 17} -> "OctetString"
      [] n \in {1, 18} -> "Node"
      [] n = 4 -> "Integer"  [] n = 6 -> "UInteger" [] n = 7 -> "Oid"
      [] n = 9 -> "BitString" [] n = 10 -> "Time"    [] n = 11 -> "Boolean"
      [] n = 12 -> "Enumerated" [] n = 13 -> "Null" [] n = 14 -> "RelativeOid" [] n = 15 -> "String"]

\* As many octets as take a leaf and what is around it past a change of form,
\* with pairs of zero octets among them.
Text(n) == [i \in 1 .. n |-> IF i % 5 < 2 THEN 0 ELSE i % Full]

Leaf(n, v) == [number |-> n, v |-> v]
AnyLeaf ==
    {Leaf(2, Text(n)) : n \in {0, 1, 2, 4, 5, 60, 61}}
    \cup {Leaf(17, <<0, 2, 1, 7>>)}
    \cup {Leaf(4, <<v>>) : v \in {-5, -4, 3, 4}}
    \cup {Leaf(6, <<v>>) : v \in {4, 32}}
    \cup {Leaf(7, v) : v \in {<<1, 2>>, <<2, 7, 5>>}}
    \cup {Leaf(9, <<0>>), Leaf(9, <<2, 4>>)}
    \cup {Leaf(10, Text(3)), Leaf(11, <<1>>),
          Leaf(12, <<5>>), Leaf(13, <<>>), Leaf(14, <<5, 1>>), Leaf(15, Text(2))}
MCLeaves == <<AnyLeaf, {Leaf(2, Text(n)) : n \in {1, 4}} \cup {Leaf(17, Text(2)), Leaf(4, <<3>>)}>>

MCPatches == {[i \in 1 .. n |-> 5] : n \in {1, 4, 60}}
=============================================================================
