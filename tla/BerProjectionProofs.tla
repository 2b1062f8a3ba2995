------------------------- MODULE BerProjectionProofs -------------------------
(***************************************************************************)
(* Theorems about BerProjection for any schema, any paths, frames and      *)
(* number of threads, given that members of one type have tags of their    *)
(* own (DistinctTags).                                                     *)
(*                                                                         *)
(* First the trie: an index is that of its own path.  Then what the        *)
(* threads make of it: a slot holds the place of its own path, or none, so *)
(* a commit writes to no other field.  A slot is found by its index, so    *)
(* this needs that the indices given out fit the slots a thread has: no    *)
(* path is given two, because no field has two nodes.                      *)
(*                                                                         *)
(* Last, that BerProjection implements Projection: what the threads make   *)
(* of the trie is that every target shows its own field of the thread's    *)
(* own frame.  The argument follows a field from the call of apply to its  *)
(* slot: as long as the frame delivers it and its slot is empty, one of    *)
(* the nested walks has it still ahead.                                    *)
(***************************************************************************)
EXTENDS BerProjection, SequenceTheorems, FiniteSetTheorems, WellFoundedInduction, TLAPS

TrieType ==
    /\ paths \in Seq(Asked)
    /\ adding # None => adding \in [path : Asked, done : Nat, at : Nat]

\* The arena is a prefix tree of the fields it was built for: a child's field
\* is its parent's with one name more, and a slot is that of the node's field.
Tree(arena, leaves) ==
    /\ arena \in Seq(Node) /\ Len(arena) # 0 /\ arena[1].field = <<>>
    /\ \A n \in 1..Len(arena) :
          /\ \A m \in arena[n].kids :
                /\ m \in 1..Len(arena) /\ arena[m].field \in Field
                /\ Parent(arena[m].field) = arena[n].field
          /\ arena[n].index # 0 =>
                /\ arena[n].index \in 1..Len(leaves)
                /\ leaves[arena[n].index] = arena[n].field

PrefixTree == Tree(nodes, paths)

\* The call in progress stands at the node of the components it has taken.
Descended ==
    adding # None =>
        /\ adding.done < Len(adding.path) /\ adding.at \in 1..Len(nodes)
        /\ nodes[adding.at].field = SubSeq(adding.path, 1, adding.done)

TrieInv == TrieType /\ PrefixTree /\ Descended /\ HandlesNameFields

-----------------------------------------------------------------------------
\* Taking one component more, and taking it back.
LEMMA OneMore ==
    ASSUME NEW p \in Seq(Name), NEW k \in Nat, k < Len(p)
    PROVE  /\ SubSeq(p, 1, k + 1) \in Seq(Name)
           /\ Len(SubSeq(p, 1, k + 1)) = k + 1
           /\ Parent(SubSeq(p, 1, k + 1)) = SubSeq(p, 1, k)
<1> DEFINE c == SubSeq(p, 1, k + 1)
<1>1. Len(p) \in Nat /\ \A i \in 1..Len(p) : p[i] \in Name
  BY LenProperties, ElementOfSeq
<1>2. \A i \in 1..(k + 1) : p[i] \in Name
  BY <1>1
<1>3. /\ c \in Seq(Name) /\ Len(c) = k + 1
      /\ \A i \in 1..(k + 1) : c[i] = p[i]
  <2>1. /\ c \in Seq(Name) /\ Len(c) = (IF 1 <= k + 1 THEN (k + 1) - 1 + 1 ELSE 0)
        /\ \A i \in 1..((k + 1) - 1 + 1) : c[i] = p[1 + i - 1]
    BY <1>2, SubSeqProperties, 1 \in Int, k + 1 \in Int
  <2> QED
    BY <2>1, <1>1
<1>4. \A i \in 1..k : p[i] \in Name /\ c[i] \in Name
  BY <1>2, <1>3
<1>5. /\ SubSeq(p, 1, k) \in Seq(Name) /\ Len(SubSeq(p, 1, k)) = k
      /\ \A i \in 1..k : SubSeq(p, 1, k)[i] = p[i]
  BY <1>1, <1>4, SubSeqProperties
<1>6. /\ SubSeq(c, 1, k) \in Seq(Name) /\ Len(SubSeq(c, 1, k)) = k
      /\ \A i \in 1..k : SubSeq(c, 1, k)[i] = c[i]
  BY <1>1, <1>4, SubSeqProperties
<1>7. SubSeq(c, 1, k) = SubSeq(p, 1, k)
  BY <1>3, <1>5, <1>6, SeqEqual
<1> QED
  BY <1>3, <1>7 DEF Parent


\* Places below one place are equally deep.
LEMMA ParentLength ==
    ASSUME NEW c \in Seq(Name) \ {<<>>}, NEW d \in Seq(Name) \ {<<>>}, Parent(c) = Parent(d)
    PROVE  Len(c) = Len(d)
<1>1. ASSUME NEW e \in Seq(Name) \ {<<>>}
      PROVE  Len(e) \in Nat \ {0} /\ Len(Parent(e)) = Len(e) - 1
  <2>1. Len(e) \in Nat \ {0} /\ \A i \in 1..Len(e) : e[i] \in Name
    BY EmptySeq, ElementOfSeq
  <2>2. Len(e) - 1 \in Nat /\ \A i \in 1..(Len(e) - 1) : e[i] \in Name
    BY <2>1
  <2> DEFINE n == Len(e) - 1
  <2>3. 1 \in Int /\ n \in Int
    BY <2>2
  <2> HIDE DEF n
  <2>4. Len(SubSeq(e, 1, n)) = IF 1 <= n THEN n - 1 + 1 ELSE 0
    BY <2>2, <2>3, SubSeqProperties DEF n
  <2>5. n >= 0
    BY <2>1 DEF n
  <2>6. Len(SubSeq(e, 1, n)) = n
    BY <2>3, <2>4, <2>5
  <2> QED
    BY <2>1, <2>6 DEF Parent, n
<1> QED
  BY <1>1

\* ensure_node keeps the arena a prefix tree and yields the node of the member
\* asked for: a sibling found by its tag is that member.
LEMMA EnsureNode ==
    ASSUME DistinctTags, TrieInv, NEW n \in 1..Len(nodes), NEW c \in Field,
           Parent(c) = nodes[n].field
    PROVE  /\ Tree(Ensured(n, c), paths)
           /\ NodeFor(n, c) \in 1..Len(Ensured(n, c))
           /\ Ensured(n, c)[NodeFor(n, c)].field = c
<1> DEFINE g == TagOf[c]
<1>1. Tree(nodes, paths) /\ nodes \in Seq(Node) /\ Len(nodes) \in Nat
  BY LenProperties DEF TrieInv, PrefixTree, Tree
<1>2. CASE Matching(n, g) # {}
  <2> DEFINE m == TheMatch(n, g)
  <2>1. m \in nodes[n].kids /\ TagOf[nodes[m].field] = g
    BY <1>2 DEF TheMatch, Matching
  <2>2. m \in 1..Len(nodes) /\ nodes[m].field \in Field /\ Parent(nodes[m].field) = Parent(c)
    BY <1>1, <2>1 DEF Tree
  <2>3. nodes[m].field = c
    BY <2>1, <2>2, PlaceAssumption, ParentLength DEF PlaceAssumption, DistinctTags, Siblings
  <2> QED
    BY <1>1, <1>2, <2>2, <2>3 DEF NodeFor, Ensured
<1>3. CASE Matching(n, g) = {}
  <2> DEFINE k == Len(nodes) + 1
             linked == [nodes EXCEPT ![n].kids = @ \cup {k}]
             new == [field |-> c, kids |-> {}, index |-> 0]
  <2>0. nodes[n] \in Node /\ k \in Nat
    BY <1>1, ElementOfSeq
  <2>1. /\ nodes[n] \in Node /\ new \in Node
        /\ [nodes[n] EXCEPT !.kids = @ \cup {k}] \in Node
    BY <2>0 DEF Node
  <2>2. /\ linked \in Seq(Node) /\ Len(linked) = Len(nodes)
        /\ \A i \in 1..Len(nodes) :
              linked[i] = IF i = n THEN [nodes[n] EXCEPT !.kids = @ \cup {k}] ELSE nodes[i]
    BY <1>1, <2>1, ExceptSeq
  <2>3. Ensured(n, c) = Append(linked, new) /\ NodeFor(n, c) = k
    BY <1>3 DEF Ensured, NodeFor
  <2>4. /\ Append(linked, new) \in Seq(Node) /\ Len(Append(linked, new)) = k
        /\ \A i \in 1..Len(nodes) : Append(linked, new)[i] = linked[i]
        /\ Append(linked, new)[k] = new
    BY <1>1, <2>1, <2>2, AppendProperties
  <2>5. \A i \in 1..Len(nodes) :
          /\ Append(linked, new)[i].field = nodes[i].field
          /\ Append(linked, new)[i].index = nodes[i].index
          /\ Append(linked, new)[i].kids = IF i = n THEN nodes[n].kids \cup {k} ELSE nodes[i].kids
    BY <1>1, <2>1, <2>2, <2>4, ElementOfSeq DEF Node
  <2>6. Tree(Append(linked, new), paths)
    BY <1>1, <2>4, <2>5 DEF Tree
  <2> QED
    BY <2>3, <2>4, <2>6
<1> QED
  BY <1>2, <1>3

\* The call in progress is at a component of its path.
LEMMA Component ==
    ASSUME TrieInv, adding # None
    PROVE  /\ adding.path \in Asked /\ adding.path \in Seq(Name) \ {<<>>}
           /\ adding.done \in Nat /\ adding.done + 1 <= Len(adding.path)
           /\ Len(adding.path) \in Nat /\ adding.at \in 1..Len(nodes)
           /\ Len(SubSeq(adding.path, 1, adding.done + 1)) = adding.done + 1
           /\ Parent(SubSeq(adding.path, 1, adding.done + 1)) = nodes[adding.at].field
<1>1. /\ adding.path \in Asked /\ adding.done \in Nat /\ adding.done < Len(adding.path)
      /\ adding.at \in 1..Len(nodes)
      /\ nodes[adding.at].field = SubSeq(adding.path, 1, adding.done)
  BY DEF TrieInv, TrieType, Descended
<1>2. adding.path \in Seq(Name) \ {<<>>} /\ Len(adding.path) \in Nat
  BY <1>1, PlaceAssumption, LenProperties DEF PlaceAssumption
<1> QED
  BY <1>1, <1>2, OneMore

LEMMA AddInteriorStep ==
    ASSUME DistinctTags, TrieInv, AddInterior
    PROVE  TrieInv'
<1> DEFINE c == SubSeq(adding.path, 1, adding.done + 1)
           n == NodeFor(adding.at, c)
           arena == Ensured(adding.at, c)
<1>1. /\ adding # None /\ c \in Field /\ c # adding.path /\ nodes' = arena
      /\ adding' = [adding EXCEPT !.done = @ + 1, !.at = n]
      /\ paths' = paths /\ handles' = handles
  BY DEF AddInterior
<1>2. Tree(arena, paths) /\ n \in 1..Len(arena) /\ arena[n].field = c
  BY <1>1, Component, EnsureNode
<1>3. /\ adding.path \in Asked /\ adding.done + 1 \in Nat /\ n \in Nat
      /\ adding \in [path : Asked, done : Nat, at : Nat]
  <2>1. Len(arena) \in Nat
    BY <1>2, LenProperties DEF Tree
  <2> QED
    BY <1>1, <1>2, <2>1, Component DEF TrieInv, TrieType
<1>4. /\ adding' \in [path : Asked, done : Nat, at : Nat]
      /\ adding'.path = adding.path /\ adding'.done = adding.done + 1 /\ adding'.at = n
  BY <1>1, <1>3
<1>5. adding.done + 1 < Len(adding.path)
  <2>1. SubSeq(adding.path, 1, Len(adding.path)) = adding.path
    BY <1>1, Component, SubSeqFull
  <2> QED
    BY <1>1, <2>1, Component
<1>6. TrieType'
  BY <1>1, <1>4 DEF TrieInv, TrieType
<1>7. PrefixTree'
  BY <1>1, <1>2 DEF PrefixTree
<1>8. Descended'
  BY <1>1, <1>2, <1>4, <1>5 DEF Descended
<1>9. HandlesNameFields'
  BY <1>1 DEF TrieInv, HandlesNameFields
<1> QED
  BY <1>6, <1>7, <1>8, <1>9 DEF TrieInv

\* The slot a leaf gets: its own if it has one, else the next.
LEMMA LeafSlot ==
    ASSUME NEW old \in Seq(Asked), NEW k, NEW c \in Asked,
           k # 0 => k \in 1..Len(old) /\ old[k] = c
    PROVE  LET i == IF k = 0 THEN Len(old) + 1 ELSE k
               leaves == IF k = 0 THEN Append(old, c) ELSE old
           IN  /\ leaves \in Seq(Asked) /\ i \in 1..Len(leaves) /\ leaves[i] = c
               /\ \A j \in 1..Len(old) : j \in 1..Len(leaves) /\ leaves[j] = old[j]
<1>1. Len(old) \in Nat
  BY LenProperties
<1>2. CASE k = 0
  <2>1. /\ Append(old, c) \in Seq(Asked) /\ Len(Append(old, c)) = Len(old) + 1
        /\ \A j \in 1..Len(old) : Append(old, c)[j] = old[j]
        /\ Append(old, c)[Len(old) + 1] = c
    BY AppendProperties
  <2> QED
    BY <1>1, <1>2, <2>1
<1>3. CASE k # 0
  BY <1>3
<1> QED
  BY <1>2, <1>3

\* Giving a node the slot of its own path keeps the arena a prefix tree.
LEMMA MarkLeaf ==
    ASSUME NEW old, NEW arena, Tree(arena, old), NEW n \in 1..Len(arena), NEW i, NEW leaves,
           leaves \in Seq(Asked), i \in 1..Len(leaves), leaves[i] = arena[n].field,
           \A j \in 1..Len(old) : j \in 1..Len(leaves) /\ leaves[j] = old[j]
    PROVE  Tree([arena EXCEPT ![n].index = i], leaves)
<1> DEFINE marked == [arena EXCEPT ![n].index = i]
<1>1. /\ arena \in Seq(Node) /\ Len(arena) \in Nat /\ Len(arena) # 0
      /\ arena[1].field = <<>>
  BY LenProperties DEF Tree
<1>2. \A m \in 1..Len(arena) : arena[m].index # 0 =>
        arena[m].index \in 1..Len(old) /\ old[arena[m].index] = arena[m].field
  BY DEF Tree
<1>3. \A m \in 1..Len(arena) : \A k \in arena[m].kids :
        /\ k \in 1..Len(arena) /\ arena[k].field \in Field
        /\ Parent(arena[k].field) = arena[m].field
  BY DEF Tree
<1>4. arena[n] \in Node /\ [arena[n] EXCEPT !.index = i] \in Node
  <2>1. arena[n] \in Node
    BY <1>1, ElementOfSeq
  <2>2. i \in Nat
    BY LenProperties
  <2> QED
    BY <2>1, <2>2 DEF Node
<1>5. /\ marked \in Seq(Node) /\ Len(marked) = Len(arena)
      /\ \A m \in 1..Len(arena) :
            marked[m] = IF m = n THEN [arena[n] EXCEPT !.index = i] ELSE arena[m]
  BY <1>1, <1>4, ExceptSeq
<1> HIDE DEF marked
<1>6. \A m \in 1..Len(arena) :
        /\ marked[m].field = arena[m].field /\ marked[m].kids = arena[m].kids
        /\ marked[m].index = IF m = n THEN i ELSE arena[m].index
  BY <1>4, <1>5 DEF Node
<1>7. ASSUME NEW m \in 1..Len(arena), marked[m].index # 0
      PROVE  marked[m].index \in 1..Len(leaves) /\ leaves[marked[m].index] = marked[m].field
  <2>1. CASE m = n
    <3>1. marked[m].index = i /\ marked[m].field = arena[n].field
      BY <1>6, <2>1
    <3> QED
      BY <3>1
  <2>2. CASE m # n
    <3>1. marked[m].index = arena[m].index /\ marked[m].field = arena[m].field
      BY <1>6, <2>2
    <3>2. arena[m].index \in 1..Len(old) /\ old[arena[m].index] = arena[m].field
      BY <1>2, <1>7, <3>1
    <3> QED
      BY <3>1, <3>2
  <2> QED
    BY <2>1, <2>2
<1>8. ASSUME NEW m \in 1..Len(arena), NEW k \in marked[m].kids
      PROVE  /\ k \in 1..Len(arena) /\ marked[k].field \in Field
             /\ Parent(marked[k].field) = marked[m].field
  <2>1. k \in arena[m].kids /\ marked[m].field = arena[m].field
    BY <1>6
  <2>2. k \in 1..Len(arena) /\ arena[k].field \in Field /\ Parent(arena[k].field) = arena[m].field
    BY <1>3, <2>1
  <2> QED
    BY <1>6, <2>1, <2>2
<1>9. marked[1].field = <<>>
  BY <1>1, <1>6
<1>10. Tree(marked, leaves)
  BY <1>1, <1>5, <1>7, <1>8, <1>9 DEF Tree
<1> QED
  BY <1>10 DEF marked

LEMMA AddLeafStep ==
    ASSUME DistinctTags, TrieInv, AddLeaf
    PROVE  TrieInv'
<1> DEFINE c == adding.path
           n == NodeFor(adding.at, c)
           arena == Ensured(adding.at, c)
           k == arena[n].index
           i == IF k = 0 THEN Len(paths) + 1 ELSE k
           leaves == IF k = 0 THEN Append(paths, c) ELSE paths
<1>1. /\ adding # None /\ c \in Field /\ adding.done + 1 = Len(c) /\ adding' = None
      /\ nodes' = [arena EXCEPT ![n].index = i] /\ paths' = leaves
      /\ handles' = [p \in DOMAIN handles \cup {c} |-> IF p = c THEN i ELSE handles[p]]
  BY DEF AddLeaf
<1>2. /\ c \in Asked /\ Parent(c) = nodes[adding.at].field /\ adding.at \in 1..Len(nodes)
  <2>1. SubSeq(c, 1, Len(c)) = c
    BY <1>1, Component, SubSeqFull
  <2> QED
    BY <1>1, <2>1, Component
<1>3. Tree(arena, paths) /\ n \in 1..Len(arena) /\ arena[n].field = c
  BY <1>1, <1>2, EnsureNode
<1>4. paths \in Seq(Asked) /\ DOMAIN paths = 1..Len(paths)
  BY LenProperties DEF TrieInv, TrieType
<1>5. k # 0 => k \in 1..Len(paths) /\ paths[k] = c
  BY <1>3 DEF Tree
<1> HIDE DEF k, arena, n, c
<1>6. /\ leaves \in Seq(Asked) /\ i \in 1..Len(leaves) /\ leaves[i] = c
      /\ \A j \in 1..Len(paths) : j \in 1..Len(leaves) /\ leaves[j] = paths[j]
  BY <1>2, <1>4, <1>5, LeafSlot
<1> HIDE DEF leaves, i
<1>7. Tree(nodes', paths')
  <2>1. leaves[i] = arena[n].field
    BY <1>3, <1>6
  <2>2. Tree([arena EXCEPT ![n].index = i], leaves)
    BY <1>3, <1>6, <2>1, MarkLeaf
  <2> QED
    BY <1>1, <2>2
<1>8. HandlesNameFields'
  <2>1. DOMAIN leaves = 1..Len(leaves)
    BY <1>6, LenProperties
  <2>2. SUFFICES ASSUME NEW p \in DOMAIN handles'
                 PROVE  handles'[p] \in 1..Len(leaves) /\ leaves[handles'[p]] = p
    BY <1>1, <2>1 DEF HandlesNameFields
  <2>3. CASE p = c
    BY <1>1, <1>6, <2>3
  <2>4. CASE p # c
    <3>1. p \in DOMAIN handles /\ handles'[p] = handles[p]
      BY <1>1, <2>4
    <3>2. handles[p] \in 1..Len(paths) /\ paths[handles[p]] = p
      BY <1>4, <3>1 DEF TrieInv, HandlesNameFields
    <3> QED
      BY <1>6, <3>1, <3>2
  <2> QED
    BY <2>3, <2>4
<1>9. TrieType' /\ PrefixTree' /\ Descended'
  BY <1>1, <1>6, <1>7 DEF TrieType, PrefixTree, Descended
<1> QED
  BY <1>8, <1>9 DEF TrieInv

\* The trie starts as the root alone.
LEMMA TrieStart ==
    ASSUME Init
    PROVE  TrieInv
<1>1. [field |-> <<>>, kids |-> {}, index |-> 0] \in Node
  BY DEF Node
<1>2. /\ nodes \in Seq(Node) /\ Len(nodes) = 1
      /\ nodes[1] = [field |-> <<>>, kids |-> {}, index |-> 0]
  BY <1>1 DEF Init
<1>3. Tree(nodes, paths)
  BY <1>2 DEF Tree
<1> QED
  BY <1>3 DEF Init, TrieInv, TrieType, PrefixTree, Descended, HandlesNameFields

\* No call leaves the trie broken.
LEMMA TrieStep ==
    ASSUME DistinctTags, TrieInv, [Next]_vars
    PROVE  TrieInv'
<1>1. CASE \E p \in Asked : AddPath(p)
  <2>1. PICK p \in Asked : AddPath(p)
    BY <1>1
  <2>2. p \in Seq(Name) \ {<<>>}
    BY PlaceAssumption DEF PlaceAssumption
  <2>3. Len(p) \in Nat \ {0} /\ SubSeq(p, 1, 0) = <<>>
    BY <2>2, EmptySeq, SubSeqEmpty
  <2>4. 1 \in 1..Len(nodes) /\ nodes[1].field = <<>>
    BY LenProperties DEF TrieInv, PrefixTree, Tree
  <2>5. adding' = [path |-> p, done |-> 0, at |-> 1] /\ UNCHANGED <<nodes, paths, handles>>
    BY <2>1 DEF AddPath
  <2>6. Descended'
    <3>1. adding'.path = p /\ adding'.done = 0 /\ adding'.at = 1 /\ nodes' = nodes
      BY <2>5
    <3>2. adding'.done < Len(adding'.path) /\ adding'.done \in Nat
      BY <2>3, <3>1
    <3>3. adding'.at \in 1..Len(nodes')
      BY <2>4, <3>1
    <3>4. nodes'[adding'.at].field = SubSeq(adding'.path, 1, adding'.done)
      BY <2>3, <2>4, <3>1
    <3> QED
      BY <2>1, <3>1, <3>2, <3>3, <3>4 DEF Descended
  <2>7. TrieType'
    BY <2>5 DEF TrieInv, TrieType
  <2> QED
    BY <2>5, <2>6, <2>7 DEF TrieInv, PrefixTree, HandlesNameFields
<1>2. CASE AddThrows
  BY <1>2 DEF AddThrows, TrieInv, TrieType, PrefixTree, Descended, HandlesNameFields
<1>3. CASE AddInterior
  BY <1>3, AddInteriorStep
<1>4. CASE AddLeaf
  BY <1>4, AddLeafStep
<1>5. CASE UNCHANGED <<nodes, paths, adding, handles>>
  BY <1>5 DEF TrieInv, TrieType, PrefixTree, Descended, HandlesNameFields
<1>6. Finalize => UNCHANGED <<nodes, paths, adding, handles>>
  BY DEF Finalize
<1>7. ASSUME NEW t \in Thread, Walk(t) \/ Use(t)
      PROVE  UNCHANGED <<nodes, paths, adding, handles>>
  BY <1>7 DEF Walk, SkipTLV, MeetLeaf, Enter, Return, Use, Bind, Load, Apply, Modify, Commit,
              trieVars
<1>8. UNCHANGED vars => UNCHANGED <<nodes, paths, adding, handles>>
  BY DEF vars, trieVars
<1> QED
  BY <1>1, <1>2, <1>3, <1>4, <1>5, <1>6, <1>7, <1>8 DEF Next, Build

\* A handle names its own path's slot, whatever calls came before and after,
\* those that threw included.
THEOREM Registration ==
    ASSUME DistinctTags
    PROVE  Spec => []HandlesNameFields
<1>1. Init => TrieInv
  BY TrieStart
<1>2. TrieInv /\ [Next]_vars => TrieInv'
  BY TrieStep
<1>3. TrieInv => HandlesNameFields
  BY DEF TrieInv
<1> QED
  BY <1>1, <1>2, <1>3, PTL DEF Spec

-----------------------------------------------------------------------------
(***************************************************************************)
(* The threads.                                                            *)
(***************************************************************************)
\* A field has one node, and every node but the root hangs below another.
OneNode(arena) ==
    /\ \A m, n \in 1..Len(arena) : arena[m].field = arena[n].field => m = n
    /\ \A m \in 2..Len(arena) : \E n \in 1..Len(arena) : m \in arena[n].kids

\* Every index given out is some node's.
Given(arena, leaves) == \A j \in 1..Len(leaves) : \E m \in 1..Len(arena) : arena[m].index = j

Distinct == OneNode(nodes) /\ Given(nodes, paths)

-----------------------------------------------------------------------------
\* ensure_node makes no second node for a field: one with that field would
\* hang below the same node, and match the tag.
LEMMA EnsureOneNode ==
    ASSUME DistinctTags, TrieInv, Distinct, NEW n \in 1..Len(nodes), NEW c \in Field,
           Parent(c) = nodes[n].field
    PROVE  OneNode(Ensured(n, c)) /\ Given(Ensured(n, c), paths)
<1> DEFINE g == TagOf[c]
           k == Len(nodes) + 1
<1>1. /\ nodes \in Seq(Node) /\ Len(nodes) \in Nat /\ Len(nodes) # 0 /\ nodes[1].field = <<>>
      /\ Tree(nodes, paths)
  BY LenProperties DEF TrieInv, PrefixTree, Tree
<1>2. CASE Matching(n, g) # {}
  BY <1>2 DEF Ensured, Distinct
<1>3. CASE Matching(n, g) = {}
  <2> DEFINE linked == [nodes EXCEPT ![n].kids = @ \cup {k}]
             new == [field |-> c, kids |-> {}, index |-> 0]
             arena == Append(linked, new)
  <2>1. /\ nodes[n] \in Node /\ new \in Node
        /\ [nodes[n] EXCEPT !.kids = @ \cup {k}] \in Node
    <3>1. nodes[n] \in Node /\ k \in Nat
      BY <1>1, ElementOfSeq
    <3> QED
      BY <3>1 DEF Node
  <2>2. /\ linked \in Seq(Node) /\ Len(linked) = Len(nodes)
        /\ \A i \in 1..Len(nodes) :
              linked[i] = IF i = n THEN [nodes[n] EXCEPT !.kids = @ \cup {k}] ELSE nodes[i]
    BY <1>1, <2>1, ExceptSeq
  <2>3. Ensured(n, c) = arena
    BY <1>3 DEF Ensured
  <2>4. /\ Len(arena) = k /\ arena[k] = new
        /\ \A i \in 1..Len(nodes) : arena[i] = linked[i]
    BY <1>1, <2>1, <2>2, AppendProperties
  <2>5. \A i \in 1..Len(nodes) :
          /\ arena[i].field = nodes[i].field /\ arena[i].index = nodes[i].index
          /\ arena[i].kids = IF i = n THEN nodes[n].kids \cup {k} ELSE nodes[i].kids
    BY <1>1, <2>1, <2>2, <2>4, ElementOfSeq DEF Node
  <2>6. ASSUME NEW m \in 1..Len(nodes)
        PROVE  nodes[m].field # c
    <3>1. SUFFICES ASSUME nodes[m].field = c PROVE FALSE
      OBVIOUS
    <3>2. m # 1
      BY <1>1, <3>1, PlaceAssumption DEF PlaceAssumption
    <3>3. PICK o \in 1..Len(nodes) : m \in nodes[o].kids
      BY <1>1, <3>2 DEF Distinct, OneNode
    <3>4. nodes[o].field = nodes[n].field
      BY <1>1, <3>1, <3>3 DEF Tree
    <3>5. o = n
      BY <3>4 DEF Distinct, OneNode
    <3> QED
      BY <1>3, <3>1, <3>3, <3>5 DEF Matching
  <2> HIDE DEF arena
  <2>7. \A m, o \in 1..k : arena[m].field = arena[o].field => m = o
    BY <1>1, <2>4, <2>5, <2>6 DEF Distinct, OneNode
  <2>8. \A m \in 2..k : \E o \in 1..k : m \in arena[o].kids
    <3>1. SUFFICES ASSUME NEW m \in 2..k PROVE \E o \in 1..k : m \in arena[o].kids
      OBVIOUS
    <3>2. CASE m = k
      BY <1>1, <2>5, <3>2
    <3>3. CASE m # k
      <4>1. PICK o \in 1..Len(nodes) : m \in nodes[o].kids
        BY <1>1, <3>3 DEF Distinct, OneNode
      <4>2. m \in arena[o].kids
        BY <2>5, <4>1
      <4> QED
        BY <1>1, <4>1, <4>2
    <3> QED
      BY <3>2, <3>3
  <2>9. Given(arena, paths)
    <3>1. SUFFICES ASSUME NEW j \in 1..Len(paths) PROVE \E m \in 1..k : arena[m].index = j
      BY <2>4 DEF Given
    <3>2. PICK m \in 1..Len(nodes) : nodes[m].index = j
      BY DEF Distinct, Given
    <3> QED
      BY <1>1, <2>5, <3>2
  <2> QED
    BY <2>3, <2>4, <2>7, <2>8, <2>9 DEF OneNode
<1> QED
  BY <1>2, <1>3

LEMMA DistinctInterior ==
    ASSUME DistinctTags, TrieInv, Distinct, AddInterior
    PROVE  Distinct'
<1> DEFINE c == SubSeq(adding.path, 1, adding.done + 1)
<1>1. adding # None /\ c \in Field /\ nodes' = Ensured(adding.at, c) /\ paths' = paths
  BY DEF AddInterior
<1>2. adding.at \in 1..Len(nodes) /\ Parent(c) = nodes[adding.at].field
  BY <1>1, Component
<1>3. OneNode(Ensured(adding.at, c)) /\ Given(Ensured(adding.at, c), paths)
  BY <1>1, <1>2, EnsureOneNode
<1> QED
  BY <1>1, <1>3 DEF Distinct

LEMMA DistinctLeaf ==
    ASSUME DistinctTags, TrieInv, Distinct, AddLeaf
    PROVE  Distinct'
<1> DEFINE c == adding.path
           n == NodeFor(adding.at, c)
           arena == Ensured(adding.at, c)
           k == arena[n].index
           i == IF k = 0 THEN Len(paths) + 1 ELSE k
           leaves == IF k = 0 THEN Append(paths, c) ELSE paths
           marked == [arena EXCEPT ![n].index = i]
<1>1. /\ adding # None /\ c \in Field /\ adding.done + 1 = Len(c)
      /\ nodes' = marked /\ paths' = leaves
  BY DEF AddLeaf
<1>2. /\ c \in Asked /\ Parent(c) = nodes[adding.at].field /\ adding.at \in 1..Len(nodes)
  <2>1. SubSeq(c, 1, Len(c)) = c
    BY <1>1, Component, SubSeqFull
  <2> QED
    BY <1>1, <2>1, Component
<1>3. Tree(arena, paths) /\ n \in 1..Len(arena)
  BY <1>1, <1>2, EnsureNode
<1>4. OneNode(arena) /\ Given(arena, paths)
  BY <1>1, <1>2, EnsureOneNode
<1>5. /\ paths \in Seq(Asked) /\ Len(paths) \in Nat
      /\ arena \in Seq(Node) /\ Len(arena) \in Nat
  BY <1>3, LenProperties DEF TrieInv, TrieType, Tree
<1> HIDE DEF c, n, arena
<1>6. Len(leaves) = IF k = 0 THEN Len(paths) + 1 ELSE Len(paths)
  BY <1>2, <1>5, AppendProperties
<1>7. /\ Len(marked) = Len(arena)
      /\ \A m \in 1..Len(arena) :
            /\ marked[m].field = arena[m].field /\ marked[m].kids = arena[m].kids
            /\ marked[m].index = IF m = n THEN i ELSE arena[m].index
  <2>1. arena[n] \in Node /\ i \in Nat
    <3>1. arena[n] \in Node
      BY <1>3, <1>5, ElementOfSeq
    <3> QED
      BY <1>5, <3>1 DEF Node
  <2>2. [arena[n] EXCEPT !.index = i] \in Node
    BY <2>1 DEF Node
  <2>3. /\ Len(marked) = Len(arena)
        /\ \A m \in 1..Len(arena) : marked[m] = IF m = n THEN [arena[n] EXCEPT !.index = i] ELSE arena[m]
    BY <1>3, <1>5, <2>2, ExceptSeq
  <2> QED
    BY <2>1, <2>3 DEF Node
<1> HIDE DEF marked
<1>8. OneNode(marked)
  BY <1>4, <1>7 DEF OneNode
<1>9. Given(marked, leaves)
  <2>1. SUFFICES ASSUME NEW j \in 1..Len(leaves) PROVE \E m \in 1..Len(arena) : marked[m].index = j
    BY <1>7 DEF Given
  <2>2. CASE j \in 1..Len(paths)
    <3>1. PICK m \in 1..Len(arena) : arena[m].index = j
      BY <1>4, <2>2 DEF Given
    <3>2. marked[m].index = j
      BY <1>5, <1>7, <2>2, <3>1
    <3> QED
      BY <3>2
  <2>3. CASE j \notin 1..Len(paths)
    <3>1. k = 0 /\ j = Len(paths) + 1
      BY <1>5, <1>6, <2>3
    <3>2. marked[n].index = j
      BY <1>3, <1>7, <3>1
    <3> QED
      BY <1>3, <3>2
  <2> QED
    BY <2>2, <2>3
<1> QED
  BY <1>1, <1>8, <1>9 DEF Distinct

LEMMA DistinctStart ==
    ASSUME Init
    PROVE  Distinct
<1>1. /\ Len(nodes) = 1 /\ nodes[1] = [field |-> <<>>, kids |-> {}, index |-> 0]
      /\ Len(paths) = 0
  BY DEF Init
<1> QED
  BY <1>1 DEF Distinct, OneNode, Given

LEMMA DistinctStep ==
    ASSUME DistinctTags, TrieInv, Distinct, [Next]_vars
    PROVE  Distinct'
<1>1. CASE AddInterior
  BY <1>1, DistinctInterior
<1>2. CASE AddLeaf
  BY <1>2, DistinctLeaf
<1>3. CASE UNCHANGED <<nodes, paths>>
  BY <1>3 DEF Distinct, OneNode, Given
<1>4. (\E p \in Asked : AddPath(p)) \/ AddThrows \/ Finalize => UNCHANGED <<nodes, paths>>
  BY DEF AddPath, AddThrows, Finalize
<1>5. ASSUME NEW t \in Thread, Walk(t) \/ Use(t)
      PROVE  UNCHANGED <<nodes, paths>>
  BY <1>5 DEF Walk, SkipTLV, MeetLeaf, Enter, Return, Use, Bind, Load, Apply, Modify, Commit,
              trieVars
<1>6. UNCHANGED vars => UNCHANGED <<nodes, paths>>
  BY DEF vars, trieVars
<1> QED
  BY <1>1, <1>2, <1>3, <1>4, <1>5, <1>6 DEF Next, Build

\* No path has two indices.
LEMMA PathsDistinct ==
    ASSUME TrieInv, Distinct, NEW i \in 1..Len(paths), NEW j \in 1..Len(paths), paths[i] = paths[j]
    PROVE  i = j
<1>1. PICK m \in 1..Len(nodes) : nodes[m].index = i
  BY DEF Distinct, Given
<1>2. PICK n \in 1..Len(nodes) : nodes[n].index = j
  BY DEF Distinct, Given
<1>3. i # 0 /\ j # 0
  OBVIOUS
<1>4. nodes[m].field = paths[i] /\ nodes[n].field = paths[j]
  BY <1>1, <1>2, <1>3 DEF TrieInv, PrefixTree, Tree
<1> QED
  BY <1>1, <1>2, <1>4 DEF Distinct, OneNode

\* So there are no more of them than paths asked for.
LEMMA IndicesFit ==
    ASSUME TrieInv, Distinct
    PROVE  1..Len(paths) \subseteq Index
<1>1. /\ paths \in [1..Len(paths) -> Asked] /\ Len(paths) \in Nat /\ DOMAIN paths = 1..Len(paths)
      /\ IsFiniteSet(Asked)
  BY LenProperties, PlaceAssumption DEF TrieInv, TrieType, PlaceAssumption
<1>2. \A i, j \in 1..Len(paths) : paths[i] = paths[j] => i = j
  BY PathsDistinct
<1>3. paths \in Injection(1..Len(paths), Asked)
  BY <1>1, <1>2 DEF Injection, IsInjective
<1>4. Cardinality(1..Len(paths)) <= Cardinality(Asked)
  BY <1>1, <1>3, FS_Injection
<1>5. Cardinality(1..Len(paths)) = Len(paths) /\ Cardinality(Asked) \in Nat
  <2>1. \A m \in Nat : Cardinality(1..m) = IF 1 > m THEN 0 ELSE m - 1 + 1
    BY FS_Interval, 1 \in Int
  <2>2. Cardinality(1..Len(paths)) = Len(paths)
    BY <1>1, <2>1
  <2> QED
    BY <1>1, <2>2, FS_CardinalityType
<1>6. Len(paths) <= Cardinality(Asked)
  BY <1>4, <1>5
<1> DEFINE most == Cardinality(Asked)
           used == Len(paths)
<1>7. used \in Nat /\ most \in Nat /\ used <= most
  BY <1>1, <1>5, <1>6
<1> HIDE DEF most, used
<1>8. 1..used \subseteq 1..most
  BY <1>7
<1> QED
  BY <1>8 DEF Index, most, used

-----------------------------------------------------------------------------
\* A nested walk stands at a node and at the place with that node's field.
Call == {w \in [at : Field \cup {<<>>}, next : Nat, node : Nat] :
            w.node \in 1..Len(nodes) /\ nodes[w.node].field = w.at}

Shapes ==
    /\ bound \in [Thread -> [Index -> Target \cup {None}]]
    /\ slot \in [Thread -> [Index -> Place]]
    /\ shown \in [Thread -> [Target -> MaybeValue]]
    /\ found \in [Thread -> Nat]
    /\ hit \in [Thread -> SUBSET Target]
    /\ \A t \in Thread : \A x \in hit[t] : shown[t][x] \in Value
    /\ buffer \in [Thread -> Reading \cup {None}]
    /\ stack \in [Thread -> Seq(Call)]

\* Nothing is read before the trie is sealed, and nothing added after.
Settled ==
    /\ finalized \in BOOLEAN
    /\ finalized => adding = None
    /\ ~finalized => \A t \in Thread :
          stack[t] = <<>> /\ buffer[t] = None /\ \A i \in Index : slot[t][i] = None
    /\ \A t \in Thread : stack[t] # <<>> => buffer[t] \in Reading

\* A slot holds the place of its own path.
SlotsNamePlaces ==
    \A t \in Thread, i \in Index : slot[t][i] # None => slot[t][i] = paths[i]

UseInv == TrieInv /\ Distinct /\ Shapes /\ Settled /\ SlotsNamePlaces /\ UnprojectedUntouched

\* A call changes nothing of the other threads.
Untouched(u) ==
    /\ buffer'[u] = buffer[u] /\ bound'[u] = bound[u] /\ stack'[u] = stack[u]
    /\ slot'[u] = slot[u] /\ found'[u] = found[u] /\ hit'[u] = hit[u] /\ shown'[u] = shown[u]

LEMMA WalkTouchesOwn ==
    ASSUME Shapes, NEW t \in Thread, Walk(t), NEW u \in Thread, u # t
    PROVE  Untouched(u)
<1>1. /\ DOMAIN stack = Thread /\ DOMAIN slot = Thread /\ DOMAIN found = Thread
      /\ DOMAIN hit = Thread /\ DOMAIN shown = Thread
  BY DEF Shapes
<1>2. CASE SkipTLV(t)
  <2>1. stack'[u] = stack[u]
    BY <1>1, <1>2 DEF SkipTLV
  <2> QED
    BY <1>2, <2>1 DEF SkipTLV, Untouched
<1>3. CASE MeetLeaf(t)
  <2>1. stack'[u] = stack[u] /\ slot'[u] = slot[u] /\ found'[u] = found[u]
    BY <1>1, <1>3 DEF MeetLeaf
  <2>2. hit'[u] = hit[u]
    BY <1>1, <1>3 DEF MeetLeaf
  <2>3. shown'[u] = shown[u]
    BY <1>1, <1>3 DEF MeetLeaf
  <2>4. buffer' = buffer /\ bound' = bound
    BY <1>3 DEF MeetLeaf
  <2> QED
    BY <2>1, <2>2, <2>3, <2>4 DEF Untouched
<1>4. CASE Enter(t)
  <2>1. stack'[u] = stack[u]
    BY <1>1, <1>4 DEF Enter
  <2> QED
    BY <1>4, <2>1 DEF Enter, Untouched
<1>5. CASE Return(t)
  <2>1. stack'[u] = stack[u]
    BY <1>1, <1>5 DEF Return
  <2> QED
    BY <1>5, <2>1 DEF Return, Untouched
<1> QED
  BY <1>2, <1>3, <1>4, <1>5 DEF Walk

LEMMA UseTouchesOwn ==
    ASSUME Shapes, NEW t \in Thread, Use(t)
    PROVE  UNCHANGED trieVars /\ \A u \in Thread : u # t => Untouched(u)
<1>1. /\ DOMAIN stack = Thread /\ DOMAIN slot = Thread /\ DOMAIN found = Thread
      /\ DOMAIN hit = Thread /\ DOMAIN shown = Thread /\ DOMAIN bound = Thread
      /\ DOMAIN buffer = Thread
  BY DEF Shapes
<1>2. ASSUME NEW p, NEW x, Bind(t, p, x)
      PROVE  UNCHANGED trieVars /\ \A u \in Thread : u # t => Untouched(u)
  BY <1>1, <1>2 DEF Bind, Untouched
<1>3. ASSUME NEW p, NEW x, Load(t, p, x)
      PROVE  UNCHANGED trieVars /\ \A u \in Thread : u # t => Untouched(u)
  <2>1. ASSUME NEW u \in Thread, u # t PROVE hit'[u] = hit[u] /\ shown'[u] = shown[u]
    BY <1>1, <1>3, <2>1 DEF Load
  <2>2. UNCHANGED <<trieVars, bound, slot, buffer, stack, found>>
    BY <1>3 DEF Load
  <2> QED
    BY <2>1, <2>2 DEF Untouched
<1>4. ASSUME NEW f, NEW content, NEW rw, Apply(t, f, content, rw)
      PROVE  UNCHANGED trieVars /\ \A u \in Thread : u # t => Untouched(u)
  <2>1. ASSUME NEW u \in Thread, u # t
        PROVE  /\ buffer'[u] = buffer[u] /\ slot'[u] = slot[u] /\ stack'[u] = stack[u]
               /\ found'[u] = found[u] /\ hit'[u] = hit[u]
    BY <1>1, <1>4, <2>1 DEF Apply
  <2>2. UNCHANGED <<trieVars, bound, shown>>
    BY <1>4 DEF Apply
  <2> QED
    BY <2>1, <2>2 DEF Untouched
<1>5. ASSUME NEW x, NEW v, Modify(t, x, v)
      PROVE  UNCHANGED trieVars /\ \A u \in Thread : u # t => Untouched(u)
  BY <1>1, <1>5 DEF Modify, Untouched
<1>6. ASSUME NEW p, Commit(t, p)
      PROVE  UNCHANGED trieVars /\ \A u \in Thread : u # t => Untouched(u)
  <2>1. ASSUME NEW u \in Thread, u # t PROVE buffer'[u] = buffer[u]
    BY <1>1, <1>6, <2>1 DEF Commit
  <2>2. UNCHANGED <<trieVars, bound, slot, stack, found, hit, shown>>
    BY <1>6 DEF Commit
  <2> QED
    BY <2>1, <2>2 DEF Untouched
<1> QED
  BY <1>2, <1>3, <1>4, <1>5, <1>6 DEF Use

-----------------------------------------------------------------------------
\* The innermost call and the TLV its cursor is at.
LEMMA AtTLV ==
    ASSUME UseInv, NEW t \in Thread, ~Idle(t), Continues(t)
    PROVE  /\ Len(stack[t]) \in Nat \ {0} /\ Top(t) = stack[t][Len(stack[t])] /\ Top(t) \in Call
           /\ buffer[t] \in Reading
           /\ Members(t, Top(t).at)[Top(t).next] \in Sent
           /\ Parent(Members(t, Top(t).at)[Top(t).next]) = Top(t).at
<1>1. stack[t] \in Seq(Call) /\ stack[t] # <<>> /\ buffer[t] \in Reading
  BY DEF UseInv, Shapes, Settled, Idle
<1>2. Len(stack[t]) \in Nat \ {0} /\ Top(t) = stack[t][Len(stack[t])]
  BY <1>1, EmptySeq DEF Top, Last
<1>3. Top(t) \in Call
  BY <1>1, <1>2, ElementOfSeq
<1> DEFINE layout == buffer[t].frame.layout
           at == Top(t).at
<1>4. buffer[t].frame \in Frame
  BY <1>1 DEF Reading
<1>5. Top(t).next \in DOMAIN Members(t, at)
  BY DEF Continues
<1>6. at \in DOMAIN layout /\ Members(t, at) = layout[at]
  BY <1>5 DEF Members
<1>7. layout[at] \in Seq({c \in Sent : Parent(c) = at})
  BY <1>4, <1>6, FrameAssumption DEF FrameAssumption
<1>8. Members(t, at)[Top(t).next] \in {c \in Sent : Parent(c) = at}
  <2>1. \A q \in Seq({c \in Sent : Parent(c) = at}) : \A i \in DOMAIN q :
           q[i] \in {c \in Sent : Parent(c) = at}
    BY ElementOfSeq, LenProperties
  <2> QED
    BY <1>5, <1>6, <1>7, <2>1
<1> QED
  BY <1>1, <1>2, <1>3, <1>8

\* The node a TLV matches is that of the TLV's own field.
LEMMA MatchIsOwn ==
    ASSUME DistinctTags, UseInv, NEW t \in Thread, ~Idle(t), Continues(t),
           NEW c, c = Members(t, Top(t).at)[Top(t).next],
           Matching(Top(t).node, TagOf[c]) # {}
    PROVE  LET n == TheMatch(Top(t).node, TagOf[c])
           IN  n \in 1..Len(nodes) /\ nodes[n].field = c /\ c \in Field
<1> DEFINE o == Top(t).node
           n == TheMatch(o, TagOf[c])
<1>1. n \in nodes[o].kids /\ TagOf[nodes[n].field] = TagOf[c]
  BY DEF TheMatch, Matching
<1>2. o \in 1..Len(nodes) /\ nodes[o].field = Parent(c) /\ c \in Sent
  BY AtTLV DEF Call
<1>3. n \in 1..Len(nodes) /\ nodes[n].field \in Field /\ Parent(nodes[n].field) = Parent(c)
  BY <1>1, <1>2 DEF UseInv, TrieInv, PrefixTree, Tree
<1>4. nodes[n].field = c
  BY <1>1, <1>2, <1>3, PlaceAssumption, ParentLength DEF PlaceAssumption, DistinctTags, Siblings
<1> QED
  BY <1>3, <1>4

\* Moving the cursor past a TLV, and back out of the contents.
LEMMA StackMoves ==
    ASSUME UseInv, NEW t \in Thread, ~Idle(t)
    PROVE  Front(stack[t]) \in Seq(Call) /\ Advanced(t) \in Seq(Call)
<1>1. stack[t] \in Seq(Call) /\ stack[t] # <<>>
  BY DEF UseInv, Shapes, Idle
<1> DEFINE k == Len(stack[t])
<1>2. /\ k \in Nat \ {0} /\ \A i \in 1..k : stack[t][i] \in Call
  BY <1>1, EmptySeq, ElementOfSeq
<1>3. Front(stack[t]) \in Seq(Call)
  <2>1. k - 1 \in Int /\ 1 \in Int /\ \A i \in 1..(k - 1) : stack[t][i] \in Call
    BY <1>2
  <2> QED
    BY <1>1, <2>1, SubSeqProperties DEF Front
<1>4. [stack[t][k] EXCEPT !.next = @ + 1] \in Call
  <2>1. stack[t][k] \in Call
    BY <1>2
  <2> QED
    BY <2>1 DEF Call
<1>5. Advanced(t) \in Seq(Call)
  BY <1>1, <1>2, <1>4, ExceptSeq DEF Advanced
<1> QED
  BY <1>3, <1>5

LEMMA UseStart ==
    ASSUME Init
    PROVE  Shapes /\ Settled /\ SlotsNamePlaces /\ UnprojectedUntouched
<1>1. /\ paths = <<>> /\ adding = None /\ finalized = FALSE
      /\ bound = [t \in Thread |-> [i \in Index |-> None]]
      /\ slot = [t \in Thread |-> [i \in Index |-> None]]
      /\ buffer = [t \in Thread |-> None]
      /\ stack = [t \in Thread |-> <<>>]
      /\ shown = [t \in Thread |-> [x \in Target |-> None]]
      /\ found = [t \in Thread |-> 0] /\ hit = [t \in Thread |-> {}]
  BY DEF Init
<1>2. <<>> \in Seq(Call)
  BY EmptySeq
<1>3. Shapes
  BY <1>1, <1>2 DEF Shapes, Place, MaybeValue
<1>4. Settled
  BY <1>1 DEF Settled
<1>5. SlotsNamePlaces
  BY <1>1 DEF SlotsNamePlaces
<1>6. UnprojectedUntouched
  BY <1>1 DEF UnprojectedUntouched
<1> QED
  BY <1>3, <1>4, <1>5, <1>6

\* While paths are registered no thread has read anything.
LEMMA BuildKeeps ==
    ASSUME UseInv, TrieInv', Build
    PROVE  (Shapes /\ Settled /\ SlotsNamePlaces /\ UnprojectedUntouched)'
<1>1. UNCHANGED threadVars /\ ~finalized
  BY DEF Build, AddPath, AddThrows, AddInterior, AddLeaf, Finalize, UseInv, Settled
<1>2. /\ bound' = bound /\ slot' = slot /\ shown' = shown /\ buffer' = buffer /\ stack' = stack
      /\ found' = found /\ hit' = hit
  BY <1>1 DEF threadVars
<1>3. \A t \in Thread : stack[t] = <<>> /\ buffer[t] = None /\ \A i \in Index : slot[t][i] = None
  BY <1>1 DEF UseInv, Settled
<1>4. Shapes'
  <2>1. stack = [t \in Thread |-> <<>>]
    BY <1>3 DEF UseInv, Shapes
  <2>2. stack \in [Thread -> Seq(Call')]
    <3>1. \A T : <<>> \in Seq(T)
      BY EmptySeq
    <3> QED
      BY <2>1, <3>1
  <2> QED
    BY <1>2, <2>2 DEF UseInv, Shapes
<1>5. Settled'
  <2>1. (finalized' => adding' = None) /\ (finalized' = finalized \/ finalized' = TRUE)
    BY <1>1 DEF Build, AddPath, AddThrows, AddInterior, AddLeaf, Finalize
  <2> QED
    BY <1>2, <1>3, <2>1 DEF UseInv, Settled
<1>6. SlotsNamePlaces'
  BY <1>2, <1>3 DEF SlotsNamePlaces
<1>7. UnprojectedUntouched'
  BY <1>2, <1>3 DEF UnprojectedUntouched
<1> QED
  BY <1>4, <1>5, <1>6, <1>7

\* A step of a thread whose slots and buffer stay leaves the rest as it was.
LEMMA StackKeeps ==
    ASSUME UseInv, NEW t \in Thread, NEW s \in Seq(Call), s = <<>> \/ buffer[t] \in Reading,
           finalized, stack' = [stack EXCEPT ![t] = s],
           UNCHANGED <<trieVars, bound, slot, buffer, shown, found, hit>>
    PROVE  (Shapes /\ Settled /\ SlotsNamePlaces /\ UnprojectedUntouched)'
<1>1. /\ bound' = bound /\ slot' = slot /\ shown' = shown /\ buffer' = buffer /\ Call' = Call
      /\ found' = found /\ hit' = hit
      /\ paths' = paths /\ adding' = adding /\ finalized' = finalized /\ handles' = handles
  BY DEF trieVars, Call
<1>2. Shapes'
  BY <1>1 DEF UseInv, Shapes
<1>3. Settled'
  BY <1>1 DEF UseInv, Settled, Shapes
<1>4. SlotsNamePlaces' /\ UnprojectedUntouched'
  BY <1>1 DEF UseInv, SlotsNamePlaces, UnprojectedUntouched
<1> QED
  BY <1>2, <1>3, <1>4

\* Only sealed projections are walked.
LEMMA BusyIsSealed ==
    ASSUME UseInv, NEW t \in Thread, ~Idle(t) \/ buffer[t] # None
    PROVE  finalized /\ (~Idle(t) => buffer[t] \in Reading)
  BY DEF UseInv, Settled, Idle

LEMMA WalkKeeps ==
    ASSUME DistinctTags, UseInv, NEW t \in Thread, SkipTLV(t) \/ Enter(t) \/ Return(t)
    PROVE  (Shapes /\ Settled /\ SlotsNamePlaces /\ UnprojectedUntouched)'
<1>1. ~Idle(t) /\ finalized /\ buffer[t] \in Reading
  BY BusyIsSealed DEF SkipTLV, Enter, Return
<1>2. CASE SkipTLV(t) \/ Return(t)
  <2>1. Advanced(t) \in Seq(Call) /\ Front(stack[t]) \in Seq(Call)
    BY <1>1, StackMoves
  <2>2. stack' = [stack EXCEPT ![t] = Advanced(t)] \/ stack' = [stack EXCEPT ![t] = Front(stack[t])]
    BY <1>2 DEF SkipTLV, Return
  <2>3. UNCHANGED <<trieVars, bound, slot, buffer, shown, found, hit>>
    BY <1>2 DEF SkipTLV, Return
  <2> QED
    BY <1>1, <2>1, <2>2, <2>3, StackKeeps
<1>3. CASE Enter(t)
  <2> DEFINE c == Members(t, Top(t).at)[Top(t).next]
             n == TheMatch(Top(t).node, TagOf[c])
             w == [at |-> c, next |-> 1, node |-> n]
  <2>1. /\ Continues(t) /\ Matching(Top(t).node, TagOf[c]) # {}
        /\ stack' = [stack EXCEPT ![t] = Append(Advanced(t), w)]
        /\ UNCHANGED <<trieVars, bound, slot, buffer, shown, found, hit>>
    BY <1>3 DEF Enter
  <2>2. n \in 1..Len(nodes) /\ nodes[n].field = c /\ c \in Field
    BY <1>1, <2>1, MatchIsOwn
  <2>3. n \in Nat
    BY <2>2, LenProperties DEF UseInv, TrieInv, PrefixTree, Tree
  <2>4. w \in Call
    BY <2>2, <2>3 DEF Call
  <2>5. Append(Advanced(t), w) \in Seq(Call)
    BY <1>1, <2>4, StackMoves, AppendProperties
  <2> QED
    BY <1>1, <2>1, <2>5, StackKeeps
<1> QED
  BY <1>2, <1>3

\* A leaf met fills the slot of its own path.
LEMMA LeafKeeps ==
    ASSUME DistinctTags, UseInv, NEW t \in Thread, MeetLeaf(t)
    PROVE  (Shapes /\ Settled /\ SlotsNamePlaces /\ UnprojectedUntouched)'
<1> DEFINE c == Members(t, Top(t).at)[Top(t).next]
           n == TheMatch(Top(t).node, TagOf[c])
           i == nodes[n].index
           x == bound[t][i]
           v == buffer[t].val[c]
<1>1. ~Idle(t) /\ finalized /\ buffer[t] \in Reading
  BY BusyIsSealed DEF MeetLeaf
<1>2. /\ Continues(t) /\ Matching(Top(t).node, TagOf[c]) # {} /\ i # 0
      /\ slot' = [slot EXCEPT ![t][i] = c]
      /\ hit' = IF x = None THEN hit
                ELSE [hit EXCEPT ![t] = IF v \in Bad THEN @ \ {x} ELSE @ \cup {x}]
      /\ shown' = IF x = None \/ v \in Bad THEN shown ELSE [shown EXCEPT ![t][x] = v]
      /\ found' = [found EXCEPT ![t] = @ + 1]
      /\ stack' = [stack EXCEPT ![t] = Advanced(t)]
      /\ UNCHANGED <<trieVars, bound, buffer>>
  BY DEF MeetLeaf
<1>3. /\ bound' = bound /\ buffer' = buffer /\ Call' = Call
      /\ paths' = paths /\ adding' = adding /\ finalized' = finalized /\ handles' = handles
  BY <1>2 DEF trieVars, Call
<1>4. n \in 1..Len(nodes) /\ nodes[n].field = c /\ c \in Field
  BY <1>1, <1>2, MatchIsOwn
<1>5. i \in 1..Len(paths) /\ paths[i] = c
  BY <1>2, <1>4 DEF UseInv, TrieInv, PrefixTree, Tree
<1>6. i \in Index /\ c \in Sent /\ c # None
  BY <1>4, <1>5, IndicesFit, PlaceAssumption DEF UseInv, PlaceAssumption
<1>7. v \in Value /\ (x # None => x \in Target)
  <2>1. buffer[t].val \in [Sent -> Value]
    BY <1>1 DEF Reading
  <2>2. bound[t] \in [Index -> Target \cup {None}]
    BY DEF UseInv, Shapes
  <2> HIDE DEF c, i
  <2> QED
    BY <1>6, <2>1, <2>2
<1>8. Advanced(t) \in Seq(Call)
  BY <1>1, StackMoves
<1> HIDE DEF c, i, x, v
<1>9. Shapes'
  <2>1. slot' \in [Thread -> [Index -> Place]]
    BY <1>2, <1>6 DEF UseInv, Shapes, Place
  <2>2. shown' \in [Thread -> [Target -> MaybeValue]]
    BY <1>2, <1>7 DEF UseInv, Shapes, MaybeValue
  <2>3. stack' \in [Thread -> Seq(Call)]
    BY <1>2, <1>8 DEF UseInv, Shapes
  <2>4. found' \in [Thread -> Nat] /\ hit' \in [Thread -> SUBSET Target]
    BY <1>2, <1>7 DEF UseInv, Shapes
  <2>5. \A u \in Thread : \A y \in hit'[u] : shown'[u][y] \in Value
    BY <1>2, <1>7 DEF UseInv, Shapes
  <2> QED
    BY <1>3, <2>1, <2>2, <2>3, <2>4, <2>5 DEF UseInv, Shapes
<1>10. Settled'
  BY <1>1, <1>2, <1>3 DEF UseInv, Settled, Shapes
<1>11. SlotsNamePlaces'
  BY <1>2, <1>3, <1>5, <1>6 DEF UseInv, SlotsNamePlaces, Shapes
<1>12. UnprojectedUntouched'
  BY <1>3 DEF UseInv, UnprojectedUntouched
<1> QED
  BY <1>9, <1>10, <1>11, <1>12

\* Binding, loading and changing a target: the frame and the slots stay.
LEMMA TargetKeeps ==
    ASSUME UseInv, NEW t \in Thread, NEW x \in Target,
           \/ \E p \in DOMAIN handles : Bind(t, p, x) \/ Load(t, p, x)
           \/ \E v \in Value \ Bad : Modify(t, x, v)
    PROVE  (Shapes /\ Settled /\ SlotsNamePlaces /\ UnprojectedUntouched)'
<1>1. UNCHANGED <<trieVars, slot, buffer, stack>>
  BY DEF Bind, Load, Modify
<1>2. /\ slot' = slot /\ buffer' = buffer /\ Call' = Call /\ stack' = stack
      /\ paths' = paths /\ adding' = adding /\ finalized' = finalized /\ handles' = handles
  BY <1>1 DEF trieVars, Call
<1>3. bound' \in [Thread -> [Index -> Target \cup {None}]]
  <2>1. bound \in [Thread -> [Index -> Target \cup {None}]]
    BY DEF UseInv, Shapes
  <2>2. \A i : [bound EXCEPT ![t][i] = x] \in [Thread -> [Index -> Target \cup {None}]]
    BY <2>1
  <2>3. bound' = bound \/ \E i : bound' = [bound EXCEPT ![t][i] = x]
    BY DEF Bind, Load, Modify
  <2> QED
    BY <2>1, <2>2, <2>3
<1>4. ASSUME NEW p \in DOMAIN handles, Load(t, p, x)
      PROVE  \/ shown' = shown /\ hit' = [hit EXCEPT ![t] = @ \ {x}]
             \/ \E v \in Value : /\ shown' = [shown EXCEPT ![t][x] = v]
                               /\ hit' = [hit EXCEPT ![t] = @ \cup {x}]
  <2>1. handles[p] \in Index
    BY IndicesFit, LenProperties DEF UseInv, TrieInv, TrieType, HandlesNameFields
  <2>2. slot[t][handles[p]] \in Place /\ buffer[t] \in Reading
    BY <1>4, <2>1 DEF UseInv, Shapes, Load
  <2>3. slot[t][handles[p]] # None => buffer[t].val[slot[t][handles[p]]] \in Value
    BY <2>2 DEF Place, Reading
  <2> QED
    BY <1>4, <2>3 DEF Load
<1>5. ASSUME NEW v \in Value, Modify(t, x, v)
      PROVE  shown' = [shown EXCEPT ![t][x] = v] /\ hit' = hit
  BY <1>5 DEF Modify
<1>6. ASSUME NEW p \in DOMAIN handles, Bind(t, p, x)
      PROVE  shown' = shown /\ hit' = hit
  BY <1>6 DEF Bind
<1>7. /\ shown' \in [Thread -> [Target -> MaybeValue]] /\ hit' \in [Thread -> SUBSET Target]
      /\ \A u \in Thread : \A y \in hit'[u] : shown'[u][y] \in Value
  <2>1. /\ shown \in [Thread -> [Target -> MaybeValue]] /\ hit \in [Thread -> SUBSET Target]
        /\ \A u \in Thread : \A y \in hit[u] : shown[u][y] \in Value
    BY DEF UseInv, Shapes
  <2>2. ASSUME NEW v \in Value, shown' = [shown EXCEPT ![t][x] = v],
               hit' = hit \/ hit' = [hit EXCEPT ![t] = @ \cup {x}]
        PROVE  /\ shown' \in [Thread -> [Target -> MaybeValue]] /\ hit' \in [Thread -> SUBSET Target]
               /\ \A u \in Thread : \A y \in hit'[u] : shown'[u][y] \in Value
    BY <2>1, <2>2 DEF MaybeValue
  <2>3. ASSUME shown' = shown, hit' = hit \/ hit' = [hit EXCEPT ![t] = @ \ {x}]
        PROVE  /\ shown' \in [Thread -> [Target -> MaybeValue]] /\ hit' \in [Thread -> SUBSET Target]
               /\ \A u \in Thread : \A y \in hit'[u] : shown'[u][y] \in Value
    BY <2>1, <2>3
  <2> QED
    BY <1>4, <1>5, <1>6, <2>2, <2>3
<1>8. found' = found
  BY DEF Bind, Load, Modify
<1>9. Shapes' /\ Settled'
  BY <1>2, <1>3, <1>7, <1>8 DEF UseInv, Shapes, Settled
<1>10. SlotsNamePlaces' /\ UnprojectedUntouched'
  BY <1>2 DEF UseInv, SlotsNamePlaces, UnprojectedUntouched
<1> QED
  BY <1>9, <1>10

\* apply starts over: the frame's contents are what was received, or what the
\* commits before left of it.
LEMMA ApplyKeeps ==
    ASSUME UseInv, NEW t \in Thread, NEW f \in Frame, NEW content \in [Sent -> Value],
           NEW rw \in BOOLEAN, Apply(t, f, content, rw),
           \A c \in Sent : (\A p \in DOMAIN handles : ~IsPrefix(p, c)) => content[c] = Content[f][c]
    PROVE  (Shapes /\ Settled /\ SlotsNamePlaces /\ UnprojectedUntouched)'
<1> DEFINE r == [frame |-> f, val |-> content, rw |-> rw]
           w == [at |-> <<>>, next |-> 1, node |-> 1]
<1>1. /\ finalized /\ buffer' = [buffer EXCEPT ![t] = r]
      /\ slot' = [slot EXCEPT ![t] = [i \in Index |-> None]]
      /\ hit' = [hit EXCEPT ![t] = {x \in @ : Unbound(t, x)}]
      /\ found' = [found EXCEPT ![t] = 0]
      /\ stack' = [stack EXCEPT ![t] = <<w>>]
      /\ UNCHANGED <<trieVars, bound, shown>>
  BY DEF Apply
<1>2. /\ bound' = bound /\ shown' = shown /\ Call' = Call
      /\ paths' = paths /\ adding' = adding /\ finalized' = finalized /\ handles' = handles
  BY <1>1 DEF trieVars, Call
<1>3. r \in Reading
  BY DEF Reading
<1>4. <<w>> \in Seq(Call)
  <2>1. 1 \in 1..Len(nodes) /\ nodes[1].field = <<>>
    BY LenProperties DEF UseInv, TrieInv, PrefixTree, Tree
  <2>2. w \in Call
    BY <2>1 DEF Call
  <2> QED
    BY <2>2
<1>5. Shapes'
  BY <1>1, <1>2, <1>3, <1>4 DEF UseInv, Shapes, Place
<1>6. Settled'
  BY <1>1, <1>2, <1>3 DEF UseInv, Settled, Shapes
<1>7. SlotsNamePlaces'
  BY <1>1, <1>2 DEF UseInv, SlotsNamePlaces, Shapes
<1>8. UnprojectedUntouched'
  BY <1>1, <1>2 DEF UseInv, UnprojectedUntouched, Shapes
<1> QED
  BY <1>5, <1>6, <1>7, <1>8

\* A commit writes to the place of its own path, which is projected.
LEMMA CommitKeeps ==
    ASSUME UseInv, NEW t \in Thread, NEW p \in DOMAIN handles, Commit(t, p)
    PROVE  (Shapes /\ Settled /\ SlotsNamePlaces /\ UnprojectedUntouched)'
<1> DEFINE i == handles[p]
           x == bound[t][i]
           v == shown[t][x]
<1>1. i \in Index /\ paths[i] = p /\ p \in Seq(Name)
  <2>1. paths \in Seq(Asked) /\ i \in 1..Len(paths) /\ paths[i] = p
    BY LenProperties DEF UseInv, TrieInv, TrieType, HandlesNameFields
  <2>2. p \in Asked
    BY <2>1, ElementOfSeq
  <2> QED
    BY <2>1, <2>2, IndicesFit, PlaceAssumption DEF UseInv, PlaceAssumption
<1>2. slot[t][i] = p /\ p \in Sent
  <2>1. slot[t][i] # None /\ slot[t][i] \in Place
    BY <1>1 DEF Commit, UseInv, Shapes
  <2>2. slot[t][i] = p
    BY <1>1, <2>1 DEF UseInv, SlotsNamePlaces
  <2> QED
    BY <2>1, <2>2 DEF Place
<1>3. /\ buffer[t] \in Reading /\ v \in Value
      /\ buffer' = [buffer EXCEPT ![t].val[p] = v]
      /\ UNCHANGED <<trieVars, bound, slot, stack, shown, found, hit>>
  <2>1. /\ buffer[t] # None /\ x # None /\ x \in hit[t]
        /\ buffer' = [buffer EXCEPT ![t].val[slot[t][i]] = v]
        /\ UNCHANGED <<trieVars, bound, slot, stack, shown, found, hit>>
    BY DEF Commit
  <2>2. x \in Target /\ buffer[t] \in Reading
    BY <1>1, <2>1 DEF UseInv, Shapes
  <2>3. v \in Value
    BY <2>1 DEF UseInv, Shapes
  <2> QED
    BY <1>2, <2>1, <2>2, <2>3
<1>4. /\ bound' = bound /\ shown' = shown /\ slot' = slot /\ stack' = stack /\ Call' = Call
      /\ found' = found /\ hit' = hit
      /\ paths' = paths /\ adding' = adding /\ finalized' = finalized /\ handles' = handles
  BY <1>3 DEF trieVars, Call
<1> HIDE DEF v
<1> DEFINE r == [buffer[t] EXCEPT !.val[p] = v]
<1>5. /\ r \in Reading /\ r.frame = buffer[t].frame
      /\ \A d \in Sent : d # p => r.val[d] = buffer[t].val[d]
  BY <1>2, <1>3 DEF Reading
<1>6. /\ buffer' \in [Thread -> Reading \cup {None}] /\ buffer'[t] = r
      /\ \A u \in Thread \ {t} : buffer'[u] = buffer[u]
  <2>1. buffer' = [buffer EXCEPT ![t] = r]
    BY <1>3
  <2> QED
    BY <1>5, <2>1 DEF UseInv, Shapes
<1>7. Shapes'
  BY <1>4, <1>6 DEF UseInv, Shapes
<1>8. Settled'
  BY <1>3, <1>4, <1>5, <1>6, BusyIsSealed DEF UseInv, Settled, Shapes, Commit
<1>9. SlotsNamePlaces'
  BY <1>4 DEF UseInv, SlotsNamePlaces
<1>10. UnprojectedUntouched'
  <2>1. IsPrefix(p, p)
    BY <1>1, SubSeqFull, LenProperties DEF IsPrefix
  <2>2. ASSUME NEW u \in Thread, buffer'[u] # None, NEW c \in Sent,
               \A q \in DOMAIN handles : ~IsPrefix(q, c)
        PROVE  buffer'[u].val[c] = Content[buffer'[u].frame][c]
    <3>1. CASE u = t
      <4>1. c # p /\ buffer[t] # None
        BY <2>1, <2>2 DEF Commit
      <4>2. buffer[t].val[c] = Content[buffer[t].frame][c]
        BY <2>2, <4>1 DEF UseInv, UnprojectedUntouched
      <4> QED
        BY <1>5, <1>6, <3>1, <4>1, <4>2
    <3>2. CASE u # t
      BY <1>6, <2>2, <3>2 DEF UseInv, UnprojectedUntouched
    <3> QED
      BY <3>1, <3>2
  <2> QED
    BY <1>4, <2>2 DEF UnprojectedUntouched
<1> QED
  BY <1>7, <1>8, <1>9, <1>10

LEMMA UseStep ==
    ASSUME DistinctTags, UseInv, [Next]_vars
    PROVE  UseInv'
<1>1. TrieInv'
  BY TrieStep DEF UseInv
<1>2. Distinct'
  BY DistinctStep DEF UseInv
<1> DEFINE Rest == Shapes /\ Settled /\ SlotsNamePlaces /\ UnprojectedUntouched
<1>3. ASSUME Build PROVE Rest'
  BY <1>1, <1>3, BuildKeeps
<1>4. ASSUME NEW t \in Thread, Walk(t)
      PROVE  Rest'
  BY <1>4, WalkKeeps, LeafKeeps DEF Walk
<1>5. ASSUME NEW t \in Thread, Use(t)
      PROVE  Rest'
  <2>1. CASE \E x \in Target : \/ \E p \in DOMAIN handles : Bind(t, p, x) \/ Load(t, p, x)
                               \/ \E v \in Value \ Bad : Modify(t, x, v)
    BY <2>1, TargetKeeps
  <2>2. ASSUME NEW f \in Frame, NEW rw \in BOOLEAN, Apply(t, f, Content[f], rw)
        PROVE  Rest'
    <3>1. Content[f] \in [Sent -> Value]
      BY FrameAssumption DEF FrameAssumption
    <3> QED
      BY <2>2, <3>1, ApplyKeeps
  <2>3. ASSUME buffer[t] # None, NEW rw \in BOOLEAN, Apply(t, buffer[t].frame, buffer[t].val, rw)
        PROVE  Rest'
    <3>1. /\ buffer[t].frame \in Frame /\ buffer[t].val \in [Sent -> Value]
          /\ \A c \in Sent : (\A p \in DOMAIN handles : ~IsPrefix(p, c)) =>
                buffer[t].val[c] = Content[buffer[t].frame][c]
      BY <2>3 DEF UseInv, Shapes, Reading, UnprojectedUntouched
    <3> QED
      BY <2>3, <3>1, ApplyKeeps
  <2>4. ASSUME NEW p \in DOMAIN handles, Commit(t, p)
        PROVE  Rest'
    BY <2>4, CommitKeeps
  <2> QED
    BY <1>5, <2>1, <2>2, <2>3, <2>4 DEF Use
<1>6. ASSUME UNCHANGED vars PROVE Rest'
  <2>1. UNCHANGED <<paths, adding, finalized, handles, nodes, bound, slot, shown, buffer, stack, found, hit>>
    BY <1>6 DEF vars, trieVars, threadVars
  <2>2. Call' = Call
    BY <2>1 DEF Call
  <2> QED
    BY <2>1, <2>2 DEF UseInv, Shapes, Settled, SlotsNamePlaces, UnprojectedUntouched
<1>7. Rest'
  BY <1>3, <1>4, <1>5, <1>6 DEF Next
<1> QED
  BY <1>1, <1>2, <1>7 DEF UseInv

LEMMA UseAlways ==
    ASSUME DistinctTags
    PROVE  Spec => []UseInv
<1>1. Init => UseInv
  BY TrieStart, DistinctStart, UseStart DEF UseInv
<1>2. UseInv /\ [Next]_vars => UseInv'
  BY UseStep
<1> QED
  BY <1>1, <1>2, PTL DEF Spec

\* Every variable of the trie and of the threads stays in its type: a handle is
\* an index a thread has a slot for, however many paths were asked for twice or
\* threw, and a frame's contents are values however often they were written.
THEOREM TypeCorrect ==
    ASSUME DistinctTags
    PROVE  Spec => []TypeOK
<1>1. ASSUME UseInv PROVE TypeOK
  <2>1. /\ nodes \in Seq(Node) /\ paths \in Seq(Asked)
        /\ adding = None \/ adding \in [path : Asked, done : Nat, at : Nat]
    BY <1>1 DEF UseInv, TrieInv, TrieType, PrefixTree, Tree
  <2>2. ASSUME NEW p \in DOMAIN handles PROVE p \in Asked /\ handles[p] \in Index
    <3>1. handles[p] \in 1..Len(paths) /\ paths[handles[p]] = p
      BY <1>1, <2>1, LenProperties DEF UseInv, TrieInv, HandlesNameFields
    <3>2. p \in Asked
      BY <2>1, <3>1, ElementOfSeq
    <3> QED
      BY <1>1, <3>1, <3>2, IndicesFit DEF UseInv
  <2>3. ASSUME NEW t \in Thread
        PROVE  /\ buffer[t] # None => buffer[t] \in Reading
               /\ \A i \in DOMAIN stack[t] : stack[t][i].node \in DOMAIN nodes
    <3>1. stack[t] \in Seq(Call)
      BY <1>1 DEF UseInv, Shapes
    <3>2. \A i \in DOMAIN stack[t] : stack[t][i] \in Call
      BY <3>1, ElementOfSeq, LenProperties
    <3>3. DOMAIN nodes = 1..Len(nodes)
      BY <2>1, LenProperties
    <3> QED
      BY <1>1, <3>2, <3>3 DEF UseInv, Shapes, Call
  <2>4. finalized \in BOOLEAN
    BY <1>1 DEF UseInv, Settled
  <2> QED
    BY <1>1, <2>1, <2>2, <2>3, <2>4 DEF UseInv, Shapes, TypeOK
<1> QED
  BY <1>1, UseAlways, PTL

\* book.md: "Fields not on a projected path are left untouched in the wire
\* bytes": whatever is bound, applied, loaded and committed, and in whatever
\* order the threads take turns, commit writes to fields with a handle only.
THEOREM CommitsTouchTheirField ==
    ASSUME DistinctTags
    PROVE  Spec => []UnprojectedUntouched
<1>1. UseInv => UnprojectedUntouched
  BY DEF UseInv
<1> QED
  BY <1>1, UseAlways, PTL

-----------------------------------------------------------------------------
(* The refinement: where the fields of a frame are on their way to.         *)

Cut(p, k) == SubSeq(p, 1, k)
Layout(f, at) == IF at \in DOMAIN f.layout THEN f.layout[at] ELSE <<>>

\* Every index given out has a handle.
Registered == \A i \in DOMAIN paths : paths[i] \in DOMAIN handles

\* A target is bound to one handle, and to none before the trie is sealed.
Bindings ==
    /\ \A t \in Thread : \A i, j \in Index :
          /\ bound[t][i] # None /\ bound[t][i] = bound[t][j] => i = j
          /\ bound[t][i] # None => \E p \in DOMAIN handles : handles[p] = i
    /\ ~finalized => \A t \in Thread : \A i \in Index : bound[t][i] = None

\* Nothing unreadable comes before place c, beside it.
Near(f, c) ==
    \E i \in DOMAIN Layout(f, Parent(c)) :
        /\ Layout(f, Parent(c))[i] = c
        /\ \A j \in 1..i : Layout(f, Parent(c))[j] \notin f.broken

\* A call stands at a place the frame can be read to, with no leaf on the way
\* there, and the TLVs it has passed could be read.
Reached(f, w) ==
    /\ w.next # 0
    /\ \A k \in 1..Len(w.at) : Near(f, Cut(w.at, k))
    /\ \A j \in DOMAIN Layout(f, w.at) : j < w.next => Layout(f, w.at)[j] \notin f.broken
    /\ \A q \in DOMAIN handles : ~IsPrefix(q, w.at)

\* The call v was made, directly or not, for the TLV w has passed last.
Inside(f, w, v) ==
    /\ Len(w.at) < Len(v.at)
    /\ w.next - 1 \in DOMAIN Layout(f, w.at)
    /\ Layout(f, w.at)[w.next - 1] = Cut(v.at, Len(w.at) + 1)

Nested(f, s) ==
    /\ \A k \in 1..Len(s) : Reached(f, s[k])
    /\ \A k, l \in 1..Len(s) : k < l => Inside(f, s[k], s[l])

\* The call has the TLV of p still ahead, or one that p is in.
Ahead(f, w, p) ==
    /\ Len(w.at) < Len(p)
    /\ \E n \in DOMAIN Layout(f, w.at) : n >= w.next /\ Layout(f, w.at)[n] = Cut(p, Len(w.at) + 1)

Awaited(f, s, p) == \E k \in 1..Len(s) : Ahead(f, s[k], p)

Delivers(f, p) == Readable(f, p) /\ \A q \in DOMAIN handles : ~IsStrictPrefix(q, p)

\* A slot is filled, or its field is still to come, or the frame has none.
Covers(f, s, slots) ==
    \A p \in DOMAIN handles :
        LET filled == slots[handles[p]] # None
        IN  /\ Delivers(f, p) => filled \/ Awaited(f, s, p)
            /\ filled => Delivers(f, p) /\ ~Awaited(f, s, p)

\* What the targets show of the slots filled so far.
Fills(t) ==
    \A i \in Index : bound[t][i] # None =>
        IF slot[t][i] # None /\ buffer[t].val[slot[t][i]] \notin Bad
        THEN bound[t][i] \in hit[t] /\ shown[t][bound[t][i]] = buffer[t].val[slot[t][i]]
        ELSE bound[t][i] \notin hit[t]

Walking(t) ==
    /\ Nested(buffer[t].frame, stack[t])
    /\ found[t] = Cardinality({i \in 1..Len(paths) : slot[t][i] # None})
    /\ Fills(t)

Following(t) ==
    /\ buffer[t] # None => Covers(buffer[t].frame, stack[t], slot[t])
    /\ stack[t] # <<>> => Walking(t)

WalkInv == Registered /\ Bindings /\ \A t \in Thread : Following(t)

RefineInv == UseInv /\ WalkInv

-----------------------------------------------------------------------------
\* Among numbers there is a least one.
LEMMA LeastOf ==
    ASSUME NEW S, S \subseteq Nat, S # {}
    PROVE  \E k \in S : \A j \in S : k <= j
<1> DEFINE R == {p \in Nat \X Nat : p[1] < p[2]}
<1>1. OpToRel(<, Nat) = R
  BY DEF OpToRel
<1>2. IsWellFoundedOn(R, Nat)
  BY <1>1, NatLessThanWellFounded
<1>3. PICK k \in S : \A j \in S : ~(<<j, k>> \in R)
  BY <1>2, WFMin
<1>4. \A a, b \in Nat : a < b => <<a, b>> \in R
  OBVIOUS
<1> HIDE DEF R
<1>5. \A j \in S : ~(j < k) /\ j \in Nat /\ k \in Nat
  BY <1>3, <1>4
<1> QED
  BY <1>5

\* The first names of a path.
LEMMA CutFacts ==
    ASSUME NEW p \in Seq(Name), NEW k \in 0..Len(p)
    PROVE  /\ Cut(p, k) \in Seq(Name) /\ Len(Cut(p, k)) = k /\ Len(p) \in Nat
           /\ \A i \in 1..k : Cut(p, k)[i] = p[i]
<1>1. /\ Len(p) \in Nat /\ k \in Int /\ 1 \in Int
      /\ \A i \in 1..k : p[i] \in Name
  BY LenProperties, ElementOfSeq
<1>2. /\ Cut(p, k) \in Seq(Name) /\ Len(Cut(p, k)) = (IF 1 <= k THEN k - 1 + 1 ELSE 0)
      /\ \A i \in 1..(k - 1 + 1) : Cut(p, k)[i] = p[1 + i - 1]
  BY <1>1, SubSeqProperties DEF Cut
<1> QED
  BY <1>1, <1>2

LEMMA CutOfCut ==
    ASSUME NEW p \in Seq(Name), NEW k \in 0..Len(p), NEW j \in 0..k
    PROVE  Cut(Cut(p, k), j) = Cut(p, j)
<1> DEFINE c == Cut(p, k)
<1>1. Len(p) \in Nat /\ c \in Seq(Name) /\ Len(c) = k /\ \A i \in 1..k : c[i] = p[i]
  BY CutFacts
<1>2. j \in 0..Len(p) /\ j \in 0..Len(c)
  BY <1>1
<1>3. Cut(p, j) \in Seq(Name) /\ Len(Cut(p, j)) = j /\ \A i \in 1..j : Cut(p, j)[i] = p[i]
  BY <1>2, CutFacts
<1> HIDE DEF c
<1>4. Cut(c, j) \in Seq(Name) /\ Len(Cut(c, j)) = j /\ \A i \in 1..j : Cut(c, j)[i] = c[i]
  BY <1>1, <1>2, CutFacts
<1>5. \A i \in 1..j : Cut(c, j)[i] = Cut(p, j)[i]
  BY <1>1, <1>3, <1>4
<1>6. Cut(c, j) = Cut(p, j)
  BY <1>3, <1>4, <1>5, SeqEqual
<1> QED
  BY <1>6 DEF c

LEMMA CutAll ==
    ASSUME NEW p \in Seq(Name)
    PROVE  Cut(p, Len(p)) = p
BY SubSeqFull DEF Cut

LEMMA CutParent ==
    ASSUME NEW p \in Seq(Name), NEW k \in Nat, k < Len(p)
    PROVE  Parent(Cut(p, k + 1)) = Cut(p, k)
BY OneMore DEF Cut

\* A place is below its parent.
LEMMA BelowParent ==
    ASSUME NEW c \in Seq(Name) \ {<<>>}
    PROVE  /\ Len(c) \in Nat \ {0} /\ Parent(c) = Cut(c, Len(c) - 1)
           /\ Parent(c) \in Seq(Name) /\ Len(Parent(c)) = Len(c) - 1
<1>1. Len(c) \in Nat \ {0}
  BY EmptySeq
<1>2. Parent(c) = Cut(c, Len(c) - 1)
  BY DEF Parent, Cut
<1>3. Len(c) - 1 \in 0..Len(c)
  BY <1>1
<1> QED
  BY <1>1, <1>2, <1>3, CutFacts

\* What comes before a path.
LEMMA PrefixIsCut ==
    ASSUME NEW q \in Seq(Name), NEW p \in Seq(Name)
    PROVE  IsPrefix(q, p) <=> (Len(q) <= Len(p) /\ q = Cut(p, Len(q)))
BY SubSeqFull DEF IsPrefix, Cut

\* A prefix of c other than c is one of its parent.
LEMMA PrefixOfParent ==
    ASSUME NEW q \in Seq(Name), NEW c \in Seq(Name) \ {<<>>}
    PROVE  /\ IsPrefix(q, c) => q = c \/ IsPrefix(q, Parent(c))
           /\ IsPrefix(q, Parent(c)) => IsPrefix(q, c)
           /\ IsStrictPrefix(q, c) => IsPrefix(q, Parent(c))
<1>1. /\ Len(c) \in Nat \ {0} /\ Len(q) \in Nat /\ Parent(c) = Cut(c, Len(c) - 1)
      /\ Parent(c) \in Seq(Name) /\ Len(Parent(c)) = Len(c) - 1
  BY BelowParent, LenProperties
<1>2. Len(q) <= Len(c) - 1 => Cut(Parent(c), Len(q)) = Cut(c, Len(q))
  BY <1>1, CutOfCut
<1>3. Len(q) = Len(c) /\ q = Cut(c, Len(q)) => q = c
  BY CutAll
<1>4. IsPrefix(q, c) <=> (Len(q) <= Len(c) /\ q = Cut(c, Len(q)))
  BY PrefixIsCut
<1>5. IsPrefix(q, Parent(c)) <=> (Len(q) <= Len(c) - 1 /\ q = Cut(Parent(c), Len(q)))
  BY <1>1, PrefixIsCut
<1>6. IsPrefix(q, c) => q = c \/ IsPrefix(q, Parent(c))
  BY <1>1, <1>2, <1>3, <1>4, <1>5
<1>7. IsPrefix(q, Parent(c)) => IsPrefix(q, c)
  BY <1>1, <1>2, <1>4, <1>5
<1> QED
  BY <1>6, <1>7 DEF IsStrictPrefix

-----------------------------------------------------------------------------
\* A handle leads to its path and its path's node, and an index to its handle.
LEMMA HandleFacts ==
    ASSUME TrieInv, Distinct, NEW p \in DOMAIN handles
    PROVE  /\ handles[p] \in 1..Len(paths) /\ handles[p] \in Index /\ paths[handles[p]] = p
           /\ p \in Field /\ p \in Sent /\ p \in Seq(Name) \ {<<>>} /\ p # None
           /\ \E m \in 1..Len(nodes) : nodes[m].field = p /\ nodes[m].index = handles[p]
<1>1. /\ paths \in Seq(Asked) /\ DOMAIN paths = 1..Len(paths) /\ Len(paths) \in Nat
  BY LenProperties DEF TrieInv, TrieType
<1>2. handles[p] \in 1..Len(paths) /\ paths[handles[p]] = p
  BY <1>1 DEF TrieInv, HandlesNameFields
<1>3. p \in Asked /\ p \in Seq(Name) \ {<<>>}
  BY <1>1, <1>2, ElementOfSeq, PlaceAssumption DEF PlaceAssumption
<1>4. PICK m \in 1..Len(nodes) : nodes[m].index = handles[p]
  BY <1>2 DEF Distinct, Given
<1>5. nodes[m].field = p
  BY <1>1, <1>2, <1>4 DEF TrieInv, PrefixTree, Tree
<1>6. nodes \in Seq(Node)
  BY DEF TrieInv, PrefixTree, Tree
<1>7. nodes[m] \in Node
  BY <1>6, ElementOfSeq
<1>8. nodes[m].field \in Field \cup {<<>>}
  BY <1>7 DEF Node
<1> QED
  BY <1>2, <1>3, <1>4, <1>5, <1>8, IndicesFit, PlaceAssumption DEF PlaceAssumption

LEMMA HandleOfIndex ==
    ASSUME TrieInv, Distinct, Registered, NEW i \in 1..Len(paths)
    PROVE  paths[i] \in DOMAIN handles /\ handles[paths[i]] = i
<1>1. DOMAIN paths = 1..Len(paths)
  BY LenProperties DEF TrieInv, TrieType
<1>2. paths[i] \in DOMAIN handles
  BY <1>1 DEF Registered
<1>3. handles[paths[i]] \in 1..Len(paths) /\ paths[handles[paths[i]]] = paths[i]
  BY <1>2, HandleFacts
<1> QED
  BY <1>2, <1>3, PathsDistinct

\* The nodes from the root to a node are in the arena.
LEMMA NodeAbove ==
    ASSUME TrieInv, Distinct, NEW m \in 1..Len(nodes), NEW p, p = nodes[m].field,
           NEW k \in 1..Len(p)
    PROVE  \E o \in 2..Len(nodes) : nodes[o].field = Cut(p, k)
<1>1. /\ nodes \in Seq(Node) /\ Len(nodes) \in Nat /\ nodes[1].field = <<>>
      /\ \A n \in 1..Len(nodes) : nodes[n].field \in Seq(Name)
  <2>1. nodes \in Seq(Node) /\ nodes[1].field = <<>> /\ Len(nodes) \in Nat
    BY LenProperties DEF TrieInv, PrefixTree, Tree
  <2>2. \A n \in 1..Len(nodes) : nodes[n] \in Node
    BY <2>1, ElementOfSeq
  <2>3. <<>> \in Seq(Name) /\ Field \subseteq Seq(Name)
    BY PlaceAssumption DEF PlaceAssumption
  <2> QED
    BY <2>1, <2>2, <2>3 DEF Node
<1>2. p \in Seq(Name) /\ Len(p) \in Nat
  BY <1>1, LenProperties
<1> DEFINE S == {d \in 1..Len(p) : ~ \E o \in 2..Len(nodes) : nodes[o].field = Cut(p, d)}
           D == {d \in Nat : \E e \in S : d = Len(p) - e}
<1>3. ASSUME NEW e \in 1..Len(p), NEW n \in 1..Len(nodes), nodes[n].field = Cut(p, e)
      PROVE  n \in 2..Len(nodes)
  <2>1. Len(Cut(p, e)) = e
    BY <1>2, CutFacts
  <2> QED
    BY <1>1, <1>3, <2>1
<1>4. ASSUME NEW e \in 2..Len(p), e \notin S
      PROVE  e - 1 \notin S
  <2>1. PICK n \in 2..Len(nodes) : nodes[n].field = Cut(p, e)
    BY <1>4
  <2>2. PICK o \in 1..Len(nodes) : n \in nodes[o].kids
    BY DEF Distinct, OneNode
  <2>3. n \in 1..Len(nodes) /\ Parent(nodes[n].field) = nodes[o].field
    BY <2>2 DEF TrieInv, PrefixTree, Tree
  <2>4. e - 1 \in Nat /\ e - 1 < Len(p) /\ (e - 1) + 1 = e /\ e - 1 \in 1..Len(p)
    BY <1>2
  <2>5. nodes[o].field = Cut(p, e - 1)
    BY <1>2, <2>1, <2>3, <2>4, CutParent
  <2>6. o \in 2..Len(nodes)
    BY <1>3, <2>4, <2>5
  <2> QED
    BY <2>5, <2>6
<1>5. Len(p) \notin S
  <2>1. Cut(p, Len(p)) = p /\ Len(p) \in 1..Len(p)
    BY <1>2, CutAll
  <2>2. m \in 2..Len(nodes)
    BY <1>3, <2>1
  <2> QED
    BY <2>1, <2>2
<1>6. S \subseteq 1..Len(p)
  OBVIOUS
<1> HIDE DEF S
<1>7. S = {}
  <2>1. SUFFICES ASSUME S # {} PROVE FALSE
    OBVIOUS
  <2>2. PICK a \in S : TRUE
    BY <2>1
  <2>3. Len(p) - a \in D
    BY <1>2, <1>6, <2>2
  <2>4. D \subseteq Nat
    OBVIOUS
  <2>5. \A x \in S : \A y \in Nat : y = Len(p) - x => y \in D
    OBVIOUS
  <2>6. \A y \in D : \E x \in S : y = Len(p) - x
    OBVIOUS
  <2> HIDE DEF D
  <2>7. PICK d \in D : \A j \in D : d <= j
    BY <2>3, <2>4, LeastOf
  <2>8. PICK e \in S : d = Len(p) - e
    BY <2>6
  <2>9. e \in 1..Len(p) /\ e # Len(p)
    BY <1>5, <1>6, <2>8
  <2>10. e + 1 \in 2..Len(p) /\ (e + 1) - 1 = e
    BY <1>2, <2>9
  <2>11. e + 1 \in S
    BY <1>4, <2>8, <2>10
  <2>12. Len(p) - (e + 1) \in D
    BY <1>2, <2>9, <2>11, <2>5
  <2> QED
    BY <1>2, <2>8, <2>9, <2>12, <2>7
<1> QED
  BY <1>7 DEF S

\* A node on the way to a registered path has the next one below it.
LEMMA OnTheWay ==
    ASSUME TrieInv, Distinct, NEW p \in DOMAIN handles, NEW k \in Nat, k < Len(p),
           NEW n \in 1..Len(nodes), nodes[n].field = Cut(p, k)
    PROVE  Matching(n, TagOf[Cut(p, k + 1)]) # {}
<1>1. p \in Seq(Name) /\ Len(p) \in Nat
  BY HandleFacts, LenProperties
<1>2. PICK m \in 1..Len(nodes) : nodes[m].field = p
  BY HandleFacts
<1>3. k + 1 \in 1..Len(p)
  BY <1>1
<1>4. PICK o \in 2..Len(nodes) : nodes[o].field = Cut(p, k + 1)
  BY <1>2, <1>3, NodeAbove
<1>5. PICK r \in 1..Len(nodes) : o \in nodes[r].kids
  BY DEF Distinct, OneNode
<1>6. Parent(nodes[o].field) = nodes[r].field
  BY <1>5 DEF TrieInv, PrefixTree, Tree
<1>7. nodes[r].field = Cut(p, k)
  BY <1>1, <1>4, <1>6, CutParent
<1>8. r = n
  BY <1>7 DEF Distinct, OneNode
<1> QED
  BY <1>4, <1>5, <1>8 DEF Matching

\* The node of a registered path has a slot.
LEMMA RegisteredHasSlot ==
    ASSUME TrieInv, Distinct, NEW n \in 1..Len(nodes), nodes[n].field \in DOMAIN handles
    PROVE  nodes[n].index = handles[nodes[n].field] /\ nodes[n].index # 0
<1>1. PICK m \in 1..Len(nodes) :
        nodes[m].field = nodes[n].field /\ nodes[m].index = handles[nodes[n].field]
  BY HandleFacts
<1>2. m = n
  BY <1>1 DEF Distinct, OneNode
<1>3. handles[nodes[n].field] \in 1..Len(paths)
  BY HandleFacts
<1>4. Len(paths) \in Nat
  BY LenProperties DEF TrieInv, TrieType
<1> QED
  BY <1>1, <1>2, <1>3, <1>4

-----------------------------------------------------------------------------
LEMMA NothingInside == DOMAIN <<>> = {}
OBVIOUS

LEMMA UpTo ==
    ASSUME NEW n \in Nat, NEW i \in 1..n
    PROVE  1..i \subseteq 1..n
OBVIOUS

\* What is laid out in place at: places right below it.
LEMMA LayoutFacts ==
    ASSUME NEW f \in Frame, NEW at, NEW n \in DOMAIN Layout(f, at)
    PROVE  /\ at \in DOMAIN f.layout /\ Layout(f, at) = f.layout[at]
           /\ n \in Nat \ {0} /\ 1..n \subseteq DOMAIN Layout(f, at)
           /\ Layout(f, at)[n] \in Sent /\ Parent(Layout(f, at)[n]) = at
           /\ Layout(f, at)[n] \in Seq(Name) \ {<<>>}
<1>1. at \in DOMAIN f.layout /\ Layout(f, at) = f.layout[at]
  BY NothingInside DEF Layout
<1> DEFINE q == f.layout[at]
           D == {c \in Sent : Parent(c) = at}
<1>2. q \in Seq(D)
  BY <1>1, FrameAssumption DEF FrameAssumption
<1>3. DOMAIN q = 1..Len(q) /\ Len(q) \in Nat /\ n \in 1..Len(q)
  BY <1>1, <1>2, LenProperties
<1>4. q[n] \in D
  BY <1>2, <1>3, ElementOfSeq
<1>5. 1..n \subseteq 1..Len(q)
  BY <1>3, UpTo
<1> QED
  BY <1>1, <1>3, <1>4, <1>5, PlaceAssumption DEF PlaceAssumption

LEMMA LayoutOnce ==
    ASSUME FieldsOnce, NEW f \in Frame, NEW at,
           NEW i \in DOMAIN Layout(f, at), NEW j \in DOMAIN Layout(f, at),
           Layout(f, at)[i] = Layout(f, at)[j]
    PROVE  i = j
BY LayoutFacts DEF FieldsOnce

\* Readable, place by place on the way.
LEMMA ReadableIsNear ==
    ASSUME NEW f \in Frame, NEW p \in Seq(Name)
    PROVE  Readable(f, p) <=> <<>> \notin f.broken /\ \A k \in 1..Len(p) : Near(f, Cut(p, k))
<1>1. ASSUME NEW c
      PROVE  Near(f, c) <=> /\ Parent(c) \in DOMAIN f.layout
                            /\ \E i \in DOMAIN f.layout[Parent(c)] :
                                  /\ f.layout[Parent(c)][i] = c
                                  /\ \A j \in 1..i : f.layout[Parent(c)][j] \notin f.broken
  BY NothingInside DEF Near, Layout
<1> QED
  BY <1>1 DEF Readable, Cut

-----------------------------------------------------------------------------
LEMMA CallIsAtPlace ==
    ASSUME NEW w \in Call
    PROVE  w.at \in Seq(Name) /\ Len(w.at) \in Nat /\ w.next \in Nat
<1>1. w.at \in Field \cup {<<>>} /\ w.next \in Nat
  BY DEF Call
<1>2. Field \subseteq Seq(Name) /\ <<>> \in Seq(Name)
  BY PlaceAssumption DEF PlaceAssumption
<1> QED
  BY <1>1, <1>2, LenProperties

\* The innermost call at a TLV: its place c, and where that is.
LEMMA TopFacts ==
    ASSUME UseInv, NEW t \in Thread, ~Idle(t), Continues(t)
    PROVE  LET f == buffer[t].frame
               s == stack[t]
               w == s[Len(s)]
               c == Members(t, Top(t).at)[Top(t).next]
           IN  /\ f \in Frame /\ Len(s) \in Nat \ {0} /\ s \in Seq(Call) /\ Top(t) = w /\ w \in Call
               /\ w.next \in DOMAIN Layout(f, w.at) /\ Layout(f, w.at)[w.next] = c
               /\ c \notin f.broken /\ <<>> \notin f.broken
               /\ c \in Sent /\ c \in Seq(Name) \ {<<>>} /\ Parent(c) = w.at
               /\ Len(w.at) \in Nat /\ Len(c) = Len(w.at) + 1 /\ w.at = Cut(c, Len(w.at))
               /\ w.at \in Seq(Name)
<1> DEFINE f == buffer[t].frame
           s == stack[t]
           w == s[Len(s)]
           c == Members(t, Top(t).at)[Top(t).next]
<1>1. /\ Len(s) \in Nat \ {0} /\ Top(t) = w /\ w \in Call
      /\ buffer[t] \in Reading /\ c \in Sent /\ Parent(c) = w.at
  BY AtTLV
<1>2. f \in Frame /\ s \in Seq(Call)
  BY <1>1 DEF Reading, UseInv, Shapes
<1>3. Members(t, w.at) = Layout(f, w.at)
  BY DEF Members, Layout
<1>4. /\ w.next \in DOMAIN Layout(f, w.at) /\ Layout(f, w.at)[w.next] = c
      /\ c \notin f.broken /\ <<>> \notin f.broken
  BY <1>1, <1>3 DEF Continues, Broken
<1>5. c \in Seq(Name) \ {<<>>}
  BY <1>1, PlaceAssumption DEF PlaceAssumption
<1>6. /\ Len(c) \in Nat \ {0} /\ w.at = Cut(c, Len(c) - 1)
      /\ w.at \in Seq(Name) /\ Len(w.at) = Len(c) - 1
  BY <1>1, <1>5, BelowParent
<1>7. Len(w.at) \in Nat /\ Len(c) = Len(w.at) + 1
  BY <1>6
<1> QED
  BY <1>1, <1>2, <1>4, <1>5, <1>6, <1>7

LEMMA AdvancedFacts ==
    ASSUME UseInv, NEW t \in Thread, ~Idle(t)
    PROVE  LET s == stack[t]
               w == s[Len(s)]
               s2 == Advanced(t)
           IN  /\ Len(s) \in Nat \ {0} /\ Len(s2) = Len(s) /\ s2 \in Seq(Call)
               /\ \A k \in 1..Len(s) : k < Len(s) => s2[k] = s[k]
               /\ \A k \in 1..Len(s) : s2[k].at = s[k].at
               /\ s2[Len(s)].node = w.node /\ s2[Len(s)].next = w.next + 1
<1> DEFINE s == stack[t]
           w == s[Len(s)]
<1>1. s \in Seq(Call) /\ s # <<>>
  BY DEF UseInv, Shapes, Idle
<1>2. Len(s) \in Nat \ {0}
  BY <1>1, EmptySeq
<1>3. w \in Call /\ [w EXCEPT !.next = @ + 1] \in Call
  <2>1. w \in Call
    BY <1>1, <1>2, ElementOfSeq
  <2> QED
    BY <2>1 DEF Call
<1>4. /\ Advanced(t) \in Seq(Call) /\ Len(Advanced(t)) = Len(s)
      /\ \A k \in 1..Len(s) : Advanced(t)[k] = IF k = Len(s) THEN [w EXCEPT !.next = @ + 1] ELSE s[k]
  BY <1>1, <1>2, <1>3, ExceptSeq DEF Advanced
<1>5. /\ [w EXCEPT !.next = @ + 1].at = w.at /\ [w EXCEPT !.next = @ + 1].node = w.node
      /\ [w EXCEPT !.next = @ + 1].next = w.next + 1
  BY <1>3 DEF Call
<1>6. /\ \A k \in 1..Len(s) : k < Len(s) => Advanced(t)[k] = s[k]
      /\ Advanced(t)[Len(s)] = [w EXCEPT !.next = @ + 1]
  BY <1>2, <1>4
<1>7. \A k \in 1..Len(s) : Advanced(t)[k].at = s[k].at
  BY <1>4, <1>5
<1> QED
  BY <1>2, <1>4, <1>5, <1>6, <1>7

\* Passing the TLV of c leaves everything else ahead.
LEMMA PassingOne ==
    ASSUME FieldsOnce, NEW f \in Frame, NEW w, NEW v, v.at = w.at, v.next = w.next + 1,
           w.next \in DOMAIN Layout(f, w.at), NEW p, Len(w.at) < Len(p)
    PROVE  /\ Ahead(f, v, p) \/ Layout(f, w.at)[w.next] = Cut(p, Len(w.at) + 1) <=> Ahead(f, w, p)
           /\ Layout(f, w.at)[w.next] = Cut(p, Len(w.at) + 1) => ~Ahead(f, v, p)
<1> DEFINE L == Layout(f, w.at)
<1>1. w.next \in Nat /\ \A n \in DOMAIN L : n \in Nat
  BY LayoutFacts
<1>2. \A n \in DOMAIN L : n >= w.next + 1 => n # w.next
  BY <1>1
<1>3. \A n \in DOMAIN L : n >= w.next <=> n >= w.next + 1 \/ n = w.next
  BY <1>1
<1>4. \A n \in DOMAIN L : L[n] = L[w.next] => n = w.next
  BY LayoutOnce
<1> HIDE DEF L
<1>5. Ahead(f, v, p) <=> \E n \in DOMAIN L : n >= w.next + 1 /\ L[n] = Cut(p, Len(w.at) + 1)
  BY DEF Ahead, L
<1>6. Ahead(f, w, p) <=> \E n \in DOMAIN L : n >= w.next /\ L[n] = Cut(p, Len(w.at) + 1)
  BY DEF Ahead, L
<1>7. w.next \in DOMAIN L
  BY DEF L
<1>8. Ahead(f, v, p) \/ L[w.next] = Cut(p, Len(w.at) + 1) <=> Ahead(f, w, p)
  BY <1>3, <1>5, <1>6, <1>7
<1>9. L[w.next] = Cut(p, Len(w.at) + 1) => ~Ahead(f, v, p)
  BY <1>2, <1>4, <1>5
<1> QED
  BY <1>8, <1>9 DEF L

-----------------------------------------------------------------------------
\* The calls stay nested when the innermost one passes a TLV, enters it and
\* returns.
LEMMA AdvancedNested ==
    ASSUME UseInv, NEW t \in Thread, ~Idle(t), Continues(t), Nested(buffer[t].frame, stack[t])
    PROVE  Nested(buffer[t].frame, Advanced(t))
<1> DEFINE f == buffer[t].frame
           s == stack[t]
           w == s[Len(s)]
           s2 == Advanced(t)
<1>1. /\ f \in Frame /\ Len(s) \in Nat \ {0} /\ w \in Call
      /\ w.next \in DOMAIN Layout(f, w.at) /\ Layout(f, w.at)[w.next] \notin f.broken
  BY TopFacts
<1>2. /\ Len(s2) = Len(s) /\ \A k \in 1..Len(s) : k < Len(s) => s2[k] = s[k]
      /\ \A k \in 1..Len(s) : s2[k].at = s[k].at
      /\ s2[Len(s)].next = w.next + 1
  BY AdvancedFacts
<1> HIDE DEF s2
<1>3. ASSUME NEW k \in 1..Len(s) PROVE Reached(f, s2[k])
  <2>1. Reached(f, s[k])
    BY DEF Nested
  <2>2. CASE k < Len(s)
    BY <1>2, <2>1, <2>2
  <2>3. CASE k = Len(s)
    <3>1. w.next \in Nat /\ \A j \in DOMAIN Layout(f, w.at) : j \in Nat
      BY <1>1, LayoutFacts
    <3>2. \A j \in DOMAIN Layout(f, w.at) : j < w.next + 1 => j < w.next \/ j = w.next
      BY <3>1
    <3>3. \A j \in DOMAIN Layout(f, w.at) : j < w.next + 1 => Layout(f, w.at)[j] \notin f.broken
      BY <1>1, <2>1, <2>3, <3>2 DEF Reached
    <3>4. w.next + 1 # 0
      BY <3>1
    <3>5. s2[k].at = w.at /\ s2[k].next = w.next + 1
      BY <1>2, <2>3
    <3> QED
      BY <2>1, <2>3, <3>3, <3>4, <3>5 DEF Reached
  <2> QED
    BY <1>1, <2>2, <2>3
<1>4. ASSUME NEW k \in 1..Len(s), NEW l \in 1..Len(s), k < l PROVE Inside(f, s2[k], s2[l])
  <2>1. Inside(f, s[k], s[l])
    BY <1>4 DEF Nested
  <2>2. k < Len(s)
    BY <1>1, <1>4
  <2>3. s2[k] = s[k] /\ s2[l].at = s[l].at
    BY <1>2, <2>2
  <2> QED
    BY <2>1, <2>3 DEF Inside
<1> QED
  BY <1>2, <1>3, <1>4 DEF Nested, s2

\* The TLV the cursor is at can be read, and so can what it is in.
LEMMA TopIsNear ==
    ASSUME UseInv, NEW t \in Thread, ~Idle(t), Continues(t), Nested(buffer[t].frame, stack[t]),
           NEW c, c = Members(t, Top(t).at)[Top(t).next]
    PROVE  \A k \in 1..Len(c) : Near(buffer[t].frame, Cut(c, k))
<1> DEFINE f == buffer[t].frame
           w == stack[t][Len(stack[t])]
<1>1. /\ f \in Frame /\ Len(stack[t]) \in Nat \ {0}
      /\ w.next \in DOMAIN Layout(f, w.at) /\ Layout(f, w.at)[w.next] = c /\ c \notin f.broken
      /\ c \in Seq(Name) \ {<<>>} /\ Parent(c) = w.at
      /\ Len(w.at) \in Nat /\ Len(c) = Len(w.at) + 1 /\ w.at = Cut(c, Len(w.at))
  BY TopFacts
<1>2. Reached(f, w)
  BY <1>1 DEF Nested
<1>3. Near(f, c)
  <2>1. w.next \in Nat /\ 1..w.next \subseteq DOMAIN Layout(f, w.at)
    BY <1>1, LayoutFacts
  <2>2. \A j \in 1..w.next : j \in DOMAIN Layout(f, w.at) /\ (j < w.next \/ j = w.next)
    BY <2>1
  <2>3. \A j \in 1..w.next : Layout(f, w.at)[j] \notin f.broken
    BY <1>1, <1>2, <2>2 DEF Reached
  <2> QED
    BY <1>1, <2>3 DEF Near
<1>4. ASSUME NEW k \in 1..Len(c) PROVE Near(f, Cut(c, k))
  <2>1. CASE k = Len(c)
    BY <1>1, <1>3, <2>1, CutAll
  <2>2. CASE k # Len(c)
    <3>1. k \in 1..Len(w.at) /\ k \in 0..Len(w.at) /\ Len(w.at) \in 0..Len(c)
      <4> DEFINE b == Len(w.at)
      <4>1. b \in Nat /\ Len(c) = b + 1 /\ k \in 1..Len(c)
        BY <1>1
      <4> HIDE DEF b
      <4>2. k \in 1..b /\ k \in 0..b /\ b \in 0..Len(c)
        BY <2>2, <4>1
      <4> QED
        BY <4>2 DEF b
    <3>2. Cut(w.at, k) = Cut(c, k)
      BY <1>1, <3>1, CutOfCut
    <3> QED
      BY <1>2, <3>1, <3>2 DEF Reached
  <2> QED
    BY <2>1, <2>2
<1> QED
  BY <1>4

\* No handle is on the way to the TLV the cursor is at.
LEMMA TopIsOpen ==
    ASSUME UseInv, NEW t \in Thread, ~Idle(t), Continues(t), Nested(buffer[t].frame, stack[t]),
           NEW c, c = Members(t, Top(t).at)[Top(t).next], NEW q \in DOMAIN handles
    PROVE  /\ ~IsStrictPrefix(q, c)
           /\ IsPrefix(q, c) => q = c
<1> DEFINE w == stack[t][Len(stack[t])]
<1>1. Len(stack[t]) \in Nat \ {0} /\ c \in Seq(Name) \ {<<>>} /\ Parent(c) = w.at
  BY TopFacts
<1>2. ~IsPrefix(q, w.at)
  BY <1>1 DEF Nested, Reached
<1>3. q \in Seq(Name)
  BY HandleFacts DEF UseInv
<1> QED
  BY <1>1, <1>2, <1>3, PrefixOfParent

LEMMA EnteredNested ==
    ASSUME UseInv, NEW t \in Thread, ~Idle(t), Continues(t), Nested(buffer[t].frame, stack[t]),
           NEW c, c = Members(t, Top(t).at)[Top(t).next], c \notin DOMAIN handles,
           NEW v \in Call, v.at = c, v.next = 1
    PROVE  Nested(buffer[t].frame, Append(Advanced(t), v))
<1> DEFINE f == buffer[t].frame
           s == stack[t]
           n == Len(s)
           w == s[n]
           s2 == Advanced(t)
           s3 == Append(s2, v)
<1>1. /\ f \in Frame /\ n \in Nat \ {0} /\ w \in Call
      /\ w.next \in DOMAIN Layout(f, w.at) /\ Layout(f, w.at)[w.next] = c
      /\ c \in Seq(Name) \ {<<>>} /\ Parent(c) = w.at
      /\ Len(w.at) \in Nat /\ Len(c) = Len(w.at) + 1 /\ w.at = Cut(c, Len(w.at))
  BY TopFacts
<1>2. /\ Len(s2) = n /\ s2 \in Seq(Call) /\ \A k \in 1..n : s2[k].at = s[k].at
      /\ s2[n].next = w.next + 1
  BY AdvancedFacts
<1>3. Nested(f, s2)
  BY AdvancedNested
<1> HIDE DEF s2
<1>4. Len(s3) = n + 1 /\ s3[n + 1] = v /\ \A k \in 1..n : s3[k] = s2[k]
  BY <1>2, AppendProperties
<1> HIDE DEF s3
<1>5. Reached(f, v)
  <2>1. \A k \in 1..Len(c) : Near(f, Cut(c, k))
    BY TopIsNear
  <2>2. \A q \in DOMAIN handles : ~IsPrefix(q, c)
    BY TopIsOpen
  <2>3. \A j \in DOMAIN Layout(f, c) : ~(j < 1)
    <3>1. \A j \in DOMAIN Layout(f, c) : j \in Nat \ {0}
      BY <1>1, LayoutFacts
    <3> QED
      BY <3>1
  <2> QED
    BY <2>1, <2>2, <2>3 DEF Reached
<1>6. ASSUME NEW k \in 1..(n + 1) PROVE Reached(f, s3[k])
  BY <1>1, <1>2, <1>3, <1>4, <1>5 DEF Nested
<1>7. Inside(f, s2[n], v)
  <2>1. w.next \in Nat /\ s2[n].next - 1 = w.next
    BY <1>1, <1>2, LayoutFacts
  <2>2. s2[n].at = w.at /\ Cut(c, Len(w.at) + 1) = c
    BY <1>1, <1>2, CutAll
  <2>3. Len(w.at) < Len(c)
    BY <1>1
  <2> QED
    BY <1>1, <2>1, <2>2, <2>3 DEF Inside
<1>8. ASSUME NEW k \in 1..n, k < n PROVE Inside(f, s2[k], v)
  <2>1. Inside(f, s2[k], s2[n]) /\ s2[n].at = w.at
    <3>1. n \in 1..n
      BY <1>1
    <3> QED
      BY <1>1, <1>2, <1>3, <1>8, <3>1 DEF Nested
  <2>2. s2[k] \in Call
    BY <1>2, ElementOfSeq
  <2> DEFINE a == Len(s2[k].at)
             b == Len(w.at)
  <2>3. a \in Nat
    BY <2>2, CallIsAtPlace
  <2>4. a < b
    BY <2>1 DEF Inside
  <2>5. a + 1 \in 0..b /\ b \in 0..Len(c) /\ a < Len(c)
    <3> HIDE DEF a, b
    <3>1. b \in Nat /\ Len(c) = b + 1
      BY <1>1 DEF b
    <3> QED
      BY <2>3, <2>4, <3>1
  <2>6. Cut(w.at, a + 1) = Cut(c, a + 1)
    BY <1>1, <2>5, CutOfCut
  <2> QED
    BY <2>1, <2>5, <2>6 DEF Inside
<1>9. ASSUME NEW k \in 1..(n + 1), NEW l \in 1..(n + 1), k < l PROVE Inside(f, s3[k], s3[l])
  <2>1. k \in 1..n
    BY <1>1, <1>9
  <2>2. CASE l = n + 1
    BY <1>1, <1>4, <1>7, <1>8, <2>1, <2>2
  <2>3. CASE l # n + 1
    <3>1. l \in 1..n
      BY <1>1, <2>3
    <3> QED
      BY <1>2, <1>3, <1>4, <1>9, <2>1, <3>1 DEF Nested
  <2> QED
    BY <2>2, <2>3
<1> QED
  <2>1. Nested(f, s3)
    BY <1>4, <1>6, <1>9 DEF Nested
  <2> QED
    BY <2>1 DEF s3, s2

LEMMA FrontFacts ==
    ASSUME UseInv, NEW t \in Thread, ~Idle(t)
    PROVE  /\ Len(stack[t]) \in Nat \ {0} /\ Len(Front(stack[t])) = Len(stack[t]) - 1
           /\ \A k \in 1..(Len(stack[t]) - 1) :
                 k \in 1..Len(stack[t]) /\ Front(stack[t])[k] = stack[t][k]
<1> DEFINE s == stack[t]
           n == Len(s)
<1>1. s \in Seq(Call) /\ s # <<>>
  BY DEF UseInv, Shapes, Idle
<1>2. n \in Nat \ {0} /\ \A k \in 1..n : s[k] \in Call
  BY <1>1, EmptySeq, ElementOfSeq
<1>3. n - 1 \in Int /\ 1 \in Int /\ \A k \in 1..(n - 1) : k \in 1..n /\ s[k] \in Call
  BY <1>2
<1>4. /\ Len(Front(s)) = (IF 1 <= n - 1 THEN (n - 1) - 1 + 1 ELSE 0)
      /\ \A k \in 1..((n - 1) - 1 + 1) : Front(s)[k] = s[1 + k - 1]
  BY <1>1, <1>3, SubSeqProperties DEF Front
<1> QED
  BY <1>2, <1>3, <1>4

LEMMA FrontNested ==
    ASSUME UseInv, NEW t \in Thread, ~Idle(t), Nested(buffer[t].frame, stack[t])
    PROVE  Nested(buffer[t].frame, Front(stack[t]))
BY FrontFacts DEF Nested

-----------------------------------------------------------------------------
\* The TLV at place c is the next one on the way to p.
LeadsTo(c, p) == Len(c) <= Len(p) /\ c = Cut(p, Len(c))

\* Passing a TLV, only what it leads to is no longer awaited.
LEMMA AwaitedAdvanced ==
    ASSUME FieldsOnce, UseInv, NEW t \in Thread, ~Idle(t), Continues(t),
           NEW c, c = Members(t, Top(t).at)[Top(t).next], NEW p \in DOMAIN handles
    PROVE  Awaited(buffer[t].frame, stack[t], p) <=>
               Awaited(buffer[t].frame, Advanced(t), p) \/ LeadsTo(c, p)
<1> DEFINE f == buffer[t].frame
           s == stack[t]
           n == Len(s)
           w == s[n]
           s2 == Advanced(t)
<1>1. /\ f \in Frame /\ n \in Nat \ {0} /\ w.next \in DOMAIN Layout(f, w.at)
      /\ Layout(f, w.at)[w.next] = c /\ Len(w.at) \in Nat /\ Len(c) = Len(w.at) + 1
  BY TopFacts
<1>2. /\ Len(s2) = n /\ \A k \in 1..n : k < n => s2[k] = s[k]
      /\ s2[n].at = w.at /\ s2[n].next = w.next + 1
  <2>1. \A k \in 1..n : s2[k].at = s[k].at
    BY AdvancedFacts
  <2> QED
    BY <1>1, <2>1, AdvancedFacts
<1>3. Len(p) \in Nat
  BY HandleFacts, LenProperties DEF UseInv
<1> HIDE DEF s2, w, f, n
<1>4. Ahead(f, w, p) <=> Ahead(f, s2[n], p) \/ LeadsTo(c, p)
  <2>1. Len(c) <= Len(p) <=> Len(w.at) < Len(p)
    BY <1>1, <1>3
  <2>2. CASE Len(w.at) < Len(p)
    <3>1. Ahead(f, s2[n], p) \/ c = Cut(p, Len(w.at) + 1) <=> Ahead(f, w, p)
      BY <1>1, <1>2, <2>2, PassingOne
    <3> QED
      BY <1>1, <2>1, <2>2, <3>1 DEF LeadsTo
  <2>3. CASE ~(Len(w.at) < Len(p))
    BY <1>2, <2>1, <2>3 DEF Ahead, LeadsTo
  <2> QED
    BY <2>2, <2>3
<1>5. \A k \in 1..n : k < n \/ k = n
  BY <1>1
<1>6. n \in 1..n
  BY <1>1
<1>7. Awaited(f, s, p) <=> (\E k \in 1..n : k < n /\ Ahead(f, s[k], p)) \/ Ahead(f, w, p)
  BY <1>5, <1>6 DEF Awaited, w, n
<1>8. Awaited(f, s2, p) <=> (\E k \in 1..n : k < n /\ Ahead(f, s[k], p)) \/ Ahead(f, s2[n], p)
  BY <1>2, <1>5, <1>6 DEF Awaited
<1>9. Awaited(f, s, p) <=> Awaited(f, s2, p) \/ LeadsTo(c, p)
  BY <1>4, <1>7, <1>8
<1> QED
  BY <1>9 DEF f, s2

\* A TLV is met once: no call has it ahead when the cursor has passed it.
LEMMA MetOnce ==
    ASSUME FieldsOnce, UseInv, NEW t \in Thread, ~Idle(t), Continues(t),
           Nested(buffer[t].frame, stack[t]),
           NEW c, c = Members(t, Top(t).at)[Top(t).next]
    PROVE  ~Awaited(buffer[t].frame, Advanced(t), c)
<1> DEFINE f == buffer[t].frame
           s == stack[t]
           n == Len(s)
           w == s[n]
           s2 == Advanced(t)
           b == Len(w.at)
<1>1. /\ f \in Frame /\ n \in Nat \ {0} /\ s \in Seq(Call)
      /\ w.next \in DOMAIN Layout(f, w.at) /\ Layout(f, w.at)[w.next] = c
      /\ c \in Seq(Name) /\ b \in Nat /\ Len(c) = b + 1 /\ w.at = Cut(c, b)
  BY TopFacts
<1>2. /\ Len(s2) = n /\ \A k \in 1..n : k < n => s2[k] = s[k]
      /\ s2[n].at = w.at /\ s2[n].next = w.next + 1
  <2>1. \A k \in 1..n : s2[k].at = s[k].at
    BY AdvancedFacts
  <2>2. Len(s2) = n /\ \A k \in 1..n : k < n => s2[k] = s[k]
    BY AdvancedFacts
  <2>3. s2[n].next = w.next + 1
    BY AdvancedFacts
  <2>4. n \in 1..n
    BY <1>1
  <2> HIDE DEF s2, n
  <2> QED
    BY <2>1, <2>2, <2>3, <2>4
<1> HIDE DEF s2
<1>3. ~Ahead(f, s2[n], c)
  <2>1. Cut(c, b + 1) = c /\ b < Len(c)
    BY <1>1, CutAll
  <2>2. Layout(f, w.at)[w.next] = Cut(c, Len(w.at) + 1) /\ Len(w.at) < Len(c)
    BY <1>1, <2>1
  <2> HIDE DEF w, f, n, b
  <2> QED
    BY <1>1, <1>2, <2>2, PassingOne
<1>4. ASSUME NEW k \in 1..n, k < n PROVE ~Ahead(f, s[k], c)
  <2> DEFINE v == s[k]
             a == Len(v.at)
  <2>1. Inside(f, v, w)
    BY <1>1, <1>4 DEF Nested
  <2>2. v \in Call
    BY <1>1, ElementOfSeq
  <2>3. a \in Nat /\ v.next \in Nat
    BY <2>2, CallIsAtPlace
  <2>4. /\ a < b /\ v.next - 1 \in DOMAIN Layout(f, v.at)
        /\ Layout(f, v.at)[v.next - 1] = Cut(w.at, a + 1)
    BY <2>1 DEF Inside
  <2>5. Cut(w.at, a + 1) = Cut(c, a + 1)
    <3> HIDE DEF a, b
    <3>1. b \in 0..Len(c) /\ a + 1 \in 0..b
      BY <1>1, <2>3, <2>4
    <3> QED
      BY <1>1, <3>1, CutOfCut
  <2>6. \A m \in DOMAIN Layout(f, v.at) : Layout(f, v.at)[m] = Cut(c, a + 1) => m = v.next - 1
    BY <1>1, <2>4, <2>5, LayoutOnce
  <2>7. \A m \in DOMAIN Layout(f, v.at) : m >= v.next => m # v.next - 1
    <3>1. \A m \in DOMAIN Layout(f, v.at) : m \in Nat
      BY <1>1, LayoutFacts
    <3> QED
      BY <2>3, <3>1
  <2> QED
    BY <2>6, <2>7 DEF Ahead
<1>5. \A k \in 1..n : k < n \/ k = n
  BY <1>1
<1>6. ~Awaited(f, s2, c)
  BY <1>2, <1>3, <1>4, <1>5 DEF Awaited
<1> QED
  BY <1>6 DEF s2

\* A TLV that no node matches leads to no handle.
LEMMA SkippedCovers ==
    ASSUME FieldsOnce, UseInv, NEW t \in Thread, ~Idle(t), Continues(t),
           NEW c, c = Members(t, Top(t).at)[Top(t).next],
           Matching(Top(t).node, TagOf[c]) = {},
           Covers(buffer[t].frame, stack[t], slot[t])
    PROVE  Covers(buffer[t].frame, Advanced(t), slot[t])
<1> DEFINE w == stack[t][Len(stack[t])]
<1>1. /\ Top(t) = w /\ w \in Call /\ c \in Seq(Name)
      /\ Len(w.at) \in Nat /\ Len(c) = Len(w.at) + 1 /\ w.at = Cut(c, Len(w.at))
  BY TopFacts
<1>2. ASSUME NEW p \in DOMAIN handles PROVE ~LeadsTo(c, p)
  <2>1. SUFFICES ASSUME LeadsTo(c, p) PROVE FALSE
    OBVIOUS
  <2>2. p \in Seq(Name) /\ Len(p) \in Nat
    BY HandleFacts, LenProperties DEF UseInv
  <2> DEFINE b == Len(w.at)
  <2>3. b \in Nat /\ Len(c) = b + 1 /\ c = Cut(p, b + 1) /\ Len(c) <= Len(p)
    BY <1>1, <2>1 DEF LeadsTo
  <2>4. w.node \in 1..Len(nodes) /\ nodes[w.node].field = Cut(c, b)
    BY <1>1 DEF Call
  <2> HIDE DEF b
  <2>5. b < Len(p) /\ b + 1 \in 0..Len(p) /\ b \in 0..(b + 1)
    BY <2>2, <2>3
  <2>6. Cut(c, b) = Cut(p, b)
    BY <2>2, <2>3, <2>5, CutOfCut
  <2>7. Matching(w.node, TagOf[c]) # {}
    BY <2>3, <2>4, <2>5, <2>6, OnTheWay DEF UseInv
  <2> QED
    BY <1>1, <2>7
<1> QED
  BY <1>2, AwaitedAdvanced DEF Covers

\* A leaf that is met was awaited, and hides what is below it.
LEMMA MetCovers ==
    ASSUME FieldsOnce, UseInv, NEW t \in Thread, ~Idle(t), Continues(t),
           Nested(buffer[t].frame, stack[t]),
           NEW c, c = Members(t, Top(t).at)[Top(t).next], c \in DOMAIN handles,
           Covers(buffer[t].frame, stack[t], slot[t])
    PROVE  /\ slot[t][handles[c]] = None
           /\ Covers(buffer[t].frame, Advanced(t), [slot[t] EXCEPT ![handles[c]] = c])
<1> DEFINE f == buffer[t].frame
           s2 == Advanced(t)
           filled == [slot[t] EXCEPT ![handles[c]] = c]
<1>1. /\ f \in Frame /\ c \in Seq(Name) /\ <<>> \notin f.broken
      /\ slot[t] \in [Index -> Place] /\ c # None
  BY TopFacts, HandleFacts DEF UseInv, Shapes
<1>2. LeadsTo(c, c)
  BY <1>1, CutAll, LenProperties DEF LeadsTo
<1>3. Awaited(f, stack[t], c)
  BY <1>2, AwaitedAdvanced
<1>4. slot[t][handles[c]] = None
  BY <1>3 DEF Covers
<1>5. Delivers(f, c)
  <2>1. Readable(f, c)
    BY <1>1, TopIsNear, ReadableIsNear
  <2> QED
    BY <2>1, TopIsOpen DEF Delivers
<1>6. ASSUME NEW p \in DOMAIN handles, p # c
      PROVE  filled[handles[p]] = slot[t][handles[p]] /\ handles[p] \in Index
  <2>1. handles[p] \in Index /\ paths[handles[p]] = p /\ paths[handles[c]] = c
    BY HandleFacts DEF UseInv
  <2> QED
    BY <1>1, <1>6, <2>1
<1>7. filled[handles[c]] = c
  BY <1>1, HandleFacts DEF UseInv
<1> HIDE DEF filled, s2, f
<1>8. ASSUME NEW p \in DOMAIN handles
      PROVE  /\ Delivers(f, p) => filled[handles[p]] # None \/ Awaited(f, s2, p)
             /\ filled[handles[p]] # None => Delivers(f, p) /\ ~Awaited(f, s2, p)
  <2>1. CASE p = c
    BY <1>1, <1>5, <1>7, <2>1, MetOnce DEF s2, f
  <2>2. CASE p # c
    <3>1. LeadsTo(c, p) => ~Delivers(f, p)
      <4>1. SUFFICES ASSUME LeadsTo(c, p) PROVE IsStrictPrefix(c, p)
        BY DEF Delivers
      <4>2. p \in Seq(Name)
        BY HandleFacts DEF UseInv
      <4> QED
        BY <1>1, <2>2, <4>1, <4>2, PrefixIsCut DEF LeadsTo, IsStrictPrefix
    <3>2. Awaited(f, stack[t], p) <=> Awaited(f, s2, p) \/ LeadsTo(c, p)
      BY AwaitedAdvanced DEF f, s2
    <3>3. /\ Delivers(f, p) => slot[t][handles[p]] # None \/ Awaited(f, stack[t], p)
          /\ slot[t][handles[p]] # None => Delivers(f, p) /\ ~Awaited(f, stack[t], p)
      BY DEF Covers, f
    <3> QED
      BY <1>6, <2>2, <3>1, <3>2, <3>3
  <2> QED
    BY <2>1, <2>2
<1>9. Covers(f, s2, filled)
  BY <1>8 DEF Covers
<1> QED
  BY <1>4, <1>9 DEF f, s2, filled

\* The walk of what the TLV contains has the field ahead that the TLV leads to.
LEMMA EnteredCovers ==
    ASSUME FieldsOnce, UseInv, NEW t \in Thread, ~Idle(t), Continues(t),
           NEW c, c = Members(t, Top(t).at)[Top(t).next], c \notin DOMAIN handles,
           NEW v \in Call, v.at = c, v.next = 1,
           Covers(buffer[t].frame, stack[t], slot[t])
    PROVE  Covers(buffer[t].frame, Append(Advanced(t), v), slot[t])
<1> DEFINE f == buffer[t].frame
           n == Len(stack[t])
           s2 == Advanced(t)
           s3 == Append(s2, v)
<1>1. f \in Frame /\ c \in Seq(Name) /\ n \in Nat \ {0} /\ Len(c) \in Nat
  BY TopFacts, LenProperties
<1>2. Len(s2) = n /\ s2 \in Seq(Call)
  BY AdvancedFacts
<1> HIDE DEF s2
<1>3. Len(s3) = n + 1 /\ s3[n + 1] = v /\ \A k \in 1..n : s3[k] = s2[k]
  BY <1>2, AppendProperties
<1> HIDE DEF s3
<1>4. ASSUME NEW p
      PROVE  Awaited(f, s3, p) <=> Awaited(f, s2, p) \/ Ahead(f, v, p)
  <2>1. \A k : k \in 1..(n + 1) <=> k \in 1..n \/ k = n + 1
    BY <1>1
  <2> QED
    BY <1>2, <1>3, <2>1 DEF Awaited
<1>5. ASSUME NEW p \in DOMAIN handles
      PROVE  /\ LeadsTo(c, p) /\ Delivers(f, p) => Ahead(f, v, p)
             /\ Ahead(f, v, p) => LeadsTo(c, p)
  <2>1. p \in Seq(Name) /\ Len(p) \in Nat /\ p # c
    BY HandleFacts, LenProperties DEF UseInv
  <2> DEFINE m == Len(c)
  <2>2. LeadsTo(c, p) <=> m < Len(p) /\ c = Cut(p, m)
    <3>1. m = Len(p) /\ c = Cut(p, m) => c = p
      BY <2>1, CutAll
    <3> QED
      BY <1>1, <2>1, <3>1 DEF LeadsTo
  <2>3. m < Len(p) => Parent(Cut(p, m + 1)) = Cut(p, m)
    BY <1>1, <2>1, CutParent
  <2>4. ASSUME LeadsTo(c, p), Delivers(f, p) PROVE Ahead(f, v, p)
    <3>1. m + 1 \in 1..Len(p)
      BY <1>1, <2>1, <2>2, <2>4
    <3>2. Near(f, Cut(p, m + 1))
      BY <1>1, <2>1, <2>4, <3>1, ReadableIsNear DEF Delivers
    <3>3. PICK i \in DOMAIN Layout(f, c) : Layout(f, c)[i] = Cut(p, m + 1)
      BY <2>2, <2>3, <2>4, <3>2 DEF Near
    <3>4. i >= 1
      BY <1>1, LayoutFacts
    <3> QED
      BY <2>2, <2>4, <3>3, <3>4 DEF Ahead
  <2>5. ASSUME Ahead(f, v, p) PROVE LeadsTo(c, p)
    <3>1. PICK i \in DOMAIN Layout(f, c) : Layout(f, c)[i] = Cut(p, m + 1) /\ m < Len(p)
      BY <2>5 DEF Ahead
    <3>2. Parent(Layout(f, c)[i]) = c
      BY <1>1, LayoutFacts
    <3> QED
      BY <2>2, <2>3, <3>1, <3>2
  <2> QED
    BY <2>4, <2>5
<1>6. ASSUME NEW p \in DOMAIN handles
      PROVE  Awaited(f, stack[t], p) <=> Awaited(f, s2, p) \/ LeadsTo(c, p)
  BY AwaitedAdvanced DEF s2
<1>7. ASSUME NEW p \in DOMAIN handles
      PROVE  /\ Delivers(f, p) => slot[t][handles[p]] # None \/ Awaited(f, stack[t], p)
             /\ slot[t][handles[p]] # None => Delivers(f, p) /\ ~Awaited(f, stack[t], p)
  BY DEF Covers
<1>8. ASSUME NEW p \in DOMAIN handles
      PROVE  /\ Delivers(f, p) => slot[t][handles[p]] # None \/ Awaited(f, s3, p)
             /\ slot[t][handles[p]] # None => Delivers(f, p) /\ ~Awaited(f, s3, p)
  <2> HIDE DEF f
  <2> QED
    BY <1>4, <1>5, <1>6, <1>7
<1>9. Covers(f, s3, slot[t])
  BY <1>8 DEF Covers
<1> QED
  BY <1>9 DEF s3, s2

\* As many leaves met as there are paths: every slot is filled.
LEMMA AllFound ==
    ASSUME NEW n \in Nat, NEW q, NEW m,
           m = Cardinality({i \in 1..n : q[i] # None}), m >= n
    PROVE  \A i \in 1..n : q[i] # None
<1> DEFINE T == {i \in 1..n : q[i] # None}
<1>1. IsFiniteSet(1..n) /\ Cardinality(1..n) = (IF 1 > n THEN 0 ELSE n - 1 + 1)
  BY FS_Interval, 1 \in Int, n \in Int
<1>2. T \in SUBSET (1..n)
  OBVIOUS
<1>3. /\ Cardinality(T) <= Cardinality(1..n) /\ Cardinality(T) = m
      /\ Cardinality(1..n) = Cardinality(T) => 1..n = T
  <2>1. Cardinality(T) = m
    OBVIOUS
  <2> HIDE DEF T
  <2> QED
    BY <1>1, <1>2, <2>1, FS_Subset
<1>4. Cardinality(1..n) = n /\ Cardinality(T) \in Nat
  <2> HIDE DEF T
  <2>1. IsFiniteSet(T)
    BY <1>1, <1>2, FS_Subset
  <2> QED
    BY <1>1, <2>1, FS_CardinalityType
<1>5. 1..n = T
  <2> HIDE DEF T
  <2> QED
    BY <1>3, <1>4
<1> QED
  BY <1>5

\* When a call returns, nothing it has ahead is wanted: it has been found, or
\* cannot be read.
LEMMA ReturnedCovers ==
    ASSUME FieldsOnce, UseInv, NEW t \in Thread, ~Idle(t), ~Continues(t), Walking(t),
           Covers(buffer[t].frame, stack[t], slot[t])
    PROVE  Covers(buffer[t].frame, Front(stack[t]), slot[t])
<1> DEFINE f == buffer[t].frame
           s == stack[t]
           n == Len(s)
           w == s[n]
<1>1. n \in Nat \ {0} /\ s \in Seq(Call) /\ w \in Call /\ Top(t) = w /\ f \in Frame
  <2>1. s \in Seq(Call) /\ s # <<>> /\ buffer[t] \in Reading
    BY DEF UseInv, Shapes, Settled, Idle
  <2>2. n \in Nat \ {0}
    BY <2>1, EmptySeq
  <2>3. w \in Call
    BY <2>1, <2>2, ElementOfSeq
  <2> QED
    BY <2>1, <2>2, <2>3 DEF Top, Last, Reading
<1>2. Len(Front(s)) = n - 1 /\ \A k \in 1..(n - 1) : k \in 1..n /\ Front(s)[k] = s[k]
  BY FrontFacts
<1>3. \A k \in 1..n : k \in 1..(n - 1) \/ k = n
  BY <1>1
<1>4. ASSUME NEW p PROVE Awaited(f, s, p) <=> Awaited(f, Front(s), p) \/ Ahead(f, w, p)
  <2>1. n \in 1..n
    BY <1>1
  <2> QED
    BY <1>2, <1>3, <2>1 DEF Awaited
<1>5. Reached(f, w) /\ Len(w.at) \in Nat /\ w.next \in Nat
  BY <1>1, CallIsAtPlace DEF Walking, Nested
<1>6. Members(t, w.at) = Layout(f, w.at)
  BY DEF Members, Layout
<1>7. ASSUME NEW p \in DOMAIN handles, Delivers(f, p), slot[t][handles[p]] = None
      PROVE  ~Ahead(f, w, p)
  <2>1. SUFFICES ASSUME Ahead(f, w, p) PROVE FALSE
    OBVIOUS
  <2>2. /\ p \in Seq(Name) /\ Len(p) \in Nat /\ handles[p] \in 1..Len(paths)
    BY HandleFacts, LenProperties DEF UseInv
  <2> DEFINE d == Cut(p, Len(w.at) + 1)
  <2>3. PICK i \in DOMAIN Layout(f, w.at) : i >= w.next /\ Layout(f, w.at)[i] = d
    BY <2>1 DEF Ahead
  <2>4. Parent(d) = w.at /\ i \in Nat /\ 1..i \subseteq DOMAIN Layout(f, w.at)
    BY <1>1, <2>3, LayoutFacts
  <2>5. w.next \in 1..i
    BY <1>5, <2>3, <2>4 DEF Reached
  <2>6. <<>> \notin f.broken /\ Near(f, d)
    <3>1. Len(w.at) + 1 \in 1..Len(p)
      BY <1>5, <2>1, <2>2 DEF Ahead
    <3> QED
      BY <1>1, <1>7, <2>2, <3>1, ReadableIsNear DEF Delivers
  <2>7. PICK k \in DOMAIN Layout(f, w.at) :
          /\ Layout(f, w.at)[k] = d
          /\ \A j \in 1..k : Layout(f, w.at)[j] \notin f.broken
    BY <2>4, <2>6 DEF Near
  <2>8. k = i
    BY <1>1, <2>3, <2>7, LayoutOnce
  <2>9. Layout(f, w.at)[w.next] \notin f.broken /\ w.next \in DOMAIN Layout(f, w.at)
    BY <2>4, <2>5, <2>7, <2>8
  <2>10. ~(found[t] < Len(paths))
    BY <1>1, <1>6, <2>6, <2>9 DEF Continues, Broken
  <2>11. Len(paths) \in Nat /\ found[t] \in Nat
    BY LenProperties DEF UseInv, TrieInv, TrieType, Shapes
  <2>12. \A j \in 1..Len(paths) : slot[t][j] # None
    <3>1. found[t] = Cardinality({j \in 1..Len(paths) : slot[t][j] # None})
      BY DEF Walking
    <3>2. found[t] >= Len(paths)
      BY <2>10, <2>11
    <3> QED
      BY <2>11, <3>1, <3>2, AllFound
  <2> QED
    BY <1>7, <2>2, <2>12
<1>8. ASSUME NEW p \in DOMAIN handles
      PROVE  /\ Delivers(f, p) => slot[t][handles[p]] # None \/ Awaited(f, Front(s), p)
             /\ slot[t][handles[p]] # None => Delivers(f, p) /\ ~Awaited(f, Front(s), p)
  BY <1>4, <1>7 DEF Covers
<1> QED
  BY <1>8 DEF Covers

-----------------------------------------------------------------------------
\* After a step that adds no handle, what holds of a frame, a stack and slots
\* holds of those of the thread that has them now.
LEMMA NestedAfter ==
    ASSUME NEW t \in Thread, NEW f, NEW s, buffer'[t].frame = f, stack'[t] = s,
           handles' = handles, Nested(f, s)
    PROVE  Nested(buffer[t].frame, stack[t])'
BY DEF Nested, Reached, Inside

LEMMA CoversAfter ==
    ASSUME NEW t \in Thread, NEW f, NEW s, NEW q, buffer'[t].frame = f, stack'[t] = s,
           slot'[t] = q, handles' = handles, Covers(f, s, q)
    PROVE  Covers(buffer[t].frame, stack[t], slot[t])'
BY DEF Covers, Awaited, Ahead, Delivers

\* A thread does not notice what another one does.
LEMMA Unmoved ==
    ASSUME NEW u \in Thread, Following(u), handles' = handles, paths' = paths,
           buffer'[u] = buffer[u], stack'[u] = stack[u], slot'[u] = slot[u],
           found'[u] = found[u], hit'[u] = hit[u], shown'[u] = shown[u], bound'[u] = bound[u]
    PROVE  Following(u)'
<1>1. buffer'[u] # None => Covers(buffer[u].frame, stack[u], slot[u])'
  BY CoversAfter DEF Following
<1>2. ASSUME stack'[u] # <<>> PROVE Walking(u)'
  <2>1. Walking(u)
    BY <1>2 DEF Following
  <2>2. Nested(buffer[u].frame, stack[u])'
    BY <2>1, NestedAfter DEF Walking
  <2>3. (found[u] = Cardinality({i \in 1..Len(paths) : slot[u][i] # None}))'
    BY <2>1 DEF Walking
  <2>4. Fills(u)'
    BY <2>1 DEF Walking, Fills
  <2> QED
    BY <2>2, <2>3, <2>4 DEF Walking
<1> QED
  BY <1>1, <1>2 DEF Following

LEMMA BusyReads ==
    ASSUME UseInv, NEW t \in Thread, ~Idle(t)
    PROVE  buffer[t] \in Reading /\ buffer[t] # None
<1>1. buffer[t] \in Reading
  BY DEF UseInv, Settled, Idle
<1> QED
  BY <1>1, NoneAssumption DEF NoneAssumption

\* Moving through the frame changes no slot and no target.
LEMMA MovingFollows ==
    ASSUME FieldsOnce, DistinctTags, UseInv, WalkInv, NEW t \in Thread,
           SkipTLV(t) \/ Enter(t) \/ Return(t)
    PROVE  Following(t)'
<1> DEFINE f == buffer[t].frame
           s == stack'[t]
<1>1. /\ ~Idle(t)
      /\ UNCHANGED <<trieVars, bound, slot, buffer, found, hit, shown>>
  BY DEF SkipTLV, Enter, Return
<1>2. /\ handles' = handles /\ paths' = paths /\ bound' = bound /\ slot' = slot /\ buffer' = buffer
      /\ found' = found /\ hit' = hit /\ shown' = shown
  BY <1>1 DEF trieVars
<1>3. Walking(t) /\ Covers(f, stack[t], slot[t]) /\ Nested(f, stack[t])
  BY <1>1, BusyReads DEF WalkInv, Following, Walking, Idle
<1>4. Nested(f, s) /\ Covers(f, s, slot[t])
  <2> DEFINE c == Members(t, Top(t).at)[Top(t).next]
             n == TheMatch(Top(t).node, TagOf[c])
             v == [at |-> c, next |-> 1, node |-> n]
  <2>1. CASE SkipTLV(t)
    <3>1. s = Advanced(t) /\ Continues(t) /\ Matching(Top(t).node, TagOf[c]) = {}
      BY <2>1 DEF SkipTLV, UseInv, Shapes
    <3> QED
      BY <1>1, <1>3, <3>1, AdvancedNested, SkippedCovers
  <2>2. CASE Enter(t)
    <3>1. /\ s = Append(Advanced(t), v) /\ Continues(t)
          /\ Matching(Top(t).node, TagOf[c]) # {} /\ nodes[n].index = 0
      BY <2>2 DEF Enter, UseInv, Shapes
    <3>2. n \in 1..Len(nodes) /\ nodes[n].field = c /\ c \in Field
      BY <1>1, <3>1, MatchIsOwn
    <3>3. c \notin DOMAIN handles
      BY <3>1, <3>2, RegisteredHasSlot DEF UseInv
    <3>4. v \in Call /\ v.at = c /\ v.next = 1
      <4>1. n \in Nat
        BY <3>2, LenProperties DEF UseInv, TrieInv, PrefixTree, Tree
      <4> QED
        BY <3>2, <4>1 DEF Call
    <3> HIDE DEF v, c
    <3> QED
      BY <1>1, <1>3, <3>1, <3>3, <3>4, EnteredNested, EnteredCovers DEF c
  <2>3. CASE Return(t)
    <3>1. s = Front(stack[t]) /\ ~Continues(t)
      BY <2>3 DEF Return, UseInv, Shapes
    <3> QED
      BY <1>1, <1>3, <3>1, FrontNested, ReturnedCovers
  <2> QED
    BY <2>1, <2>2, <2>3
<1>5. Covers(buffer[t].frame, stack[t], slot[t])'
  BY <1>2, <1>4, CoversAfter
<1>6. Nested(buffer[t].frame, stack[t])'
  BY <1>2, <1>4, NestedAfter
<1>7. (found[t] = Cardinality({i \in 1..Len(paths) : slot[t][i] # None}))'
  BY <1>2, <1>3 DEF Walking
<1>8. Fills(t)'
  BY <1>2, <1>3 DEF Walking, Fills
<1> QED
  BY <1>5, <1>6, <1>7, <1>8 DEF Following, Walking

LEMMA LeafIndex ==
    ASSUME DistinctTags, UseInv, NEW t \in Thread, MeetLeaf(t)
    PROVE  nodes[TheMatch(Top(t).node, TagOf[Members(t, Top(t).at)[Top(t).next]])].index \in Index
<1> DEFINE c == Members(t, Top(t).at)[Top(t).next]
           n == TheMatch(Top(t).node, TagOf[c])
<1>1. /\ ~Idle(t) /\ Continues(t) /\ Matching(Top(t).node, TagOf[c]) # {}
      /\ nodes[n].index # 0
  BY DEF MeetLeaf
<1>2. n \in 1..Len(nodes)
  BY <1>1, MatchIsOwn
<1>3. nodes[n].index \in 1..Len(paths)
  BY <1>1, <1>2 DEF UseInv, TrieInv, PrefixTree, Tree
<1> HIDE DEF n
<1>4. nodes[n].index \in Index
  BY <1>3, IndicesFit DEF UseInv
<1> QED
  BY <1>4 DEF n

\* A leaf met fills its slot, which was empty, and its own target.
LEMMA LeafFollows ==
    ASSUME FieldsOnce, DistinctTags, UseInv, WalkInv, NEW t \in Thread, MeetLeaf(t)
    PROVE  Following(t)'
<1> DEFINE f == buffer[t].frame
           c == Members(t, Top(t).at)[Top(t).next]
           n == TheMatch(Top(t).node, TagOf[c])
           i == nodes[n].index
           x == bound[t][i]
           v == buffer[t].val[c]
           N == Len(paths)
           T == {j \in 1..N : slot[t][j] # None}
<1>1. /\ ~Idle(t) /\ Continues(t) /\ Matching(Top(t).node, TagOf[c]) # {} /\ i # 0
      /\ slot' = [slot EXCEPT ![t][i] = c]
      /\ hit' = IF x = None THEN hit
                ELSE [hit EXCEPT ![t] = IF v \in Bad THEN @ \ {x} ELSE @ \cup {x}]
      /\ shown' = IF x = None \/ v \in Bad THEN shown ELSE [shown EXCEPT ![t][x] = v]
      /\ found' = [found EXCEPT ![t] = @ + 1]
      /\ stack' = [stack EXCEPT ![t] = Advanced(t)]
      /\ UNCHANGED <<trieVars, bound, buffer>>
  BY DEF MeetLeaf
<1>2. handles' = handles /\ paths' = paths /\ bound' = bound /\ buffer' = buffer
  BY <1>1 DEF trieVars
<1>3. Walking(t) /\ Covers(f, stack[t], slot[t]) /\ Nested(f, stack[t]) /\ Fills(t)
  BY <1>1, BusyReads DEF WalkInv, Following, Walking, Idle
<1>4. n \in 1..Len(nodes) /\ nodes[n].field = c /\ c \in Field
  BY <1>1, MatchIsOwn
<1>5. i \in 1..N /\ paths[i] = c
  BY <1>1, <1>4 DEF UseInv, TrieInv, PrefixTree, Tree
<1>6. c \in DOMAIN handles /\ handles[c] = i /\ i \in Index /\ c # None
  <2> HIDE DEF c, i
  <2>1. paths[i] \in DOMAIN handles /\ handles[paths[i]] = i
    BY <1>5, HandleOfIndex DEF UseInv, WalkInv
  <2> QED
    BY <1>5, <2>1, HandleFacts DEF UseInv
<1>7. N \in Nat
  BY LenProperties DEF UseInv, TrieInv, TrieType
<1>8. /\ slot[t] \in [Index -> Place] /\ slot'[t] = [slot[t] EXCEPT ![i] = c]
      /\ stack'[t] = Advanced(t) /\ found'[t] = found[t] + 1
  BY <1>1 DEF UseInv, Shapes
<1>9. slot[t][i] = None /\ Covers(f, Advanced(t), slot'[t])
  <2>1. /\ slot[t][handles[c]] = None
        /\ Covers(f, Advanced(t), [slot[t] EXCEPT ![handles[c]] = c])
    BY <1>1, <1>3, <1>6, MetCovers
  <2>2. slot'[t] = [slot[t] EXCEPT ![handles[c]] = c]
    BY <1>6, <1>8
  <2> HIDE DEF c, i, f
  <2> QED
    BY <1>6, <2>1, <2>2
<1>10. Covers(buffer[t].frame, stack[t], slot[t])'
  BY <1>2, <1>8, <1>9, CoversAfter
<1>11. Nested(buffer[t].frame, stack[t])'
  <2>1. Nested(f, Advanced(t))
    BY <1>1, <1>3, AdvancedNested
  <2> QED
    BY <1>2, <1>8, <2>1, NestedAfter
<1>12. (found[t] = Cardinality({j \in 1..Len(paths) : slot[t][j] # None}))'
  <2> DEFINE U == {j \in 1..N : slot'[t][j] # None}
  <2>1. U = T \cup {i} /\ i \notin T
    <3> HIDE DEF c, i
    <3>1. 1..N \subseteq Index
      BY IndicesFit DEF UseInv
    <3>2. \A j \in Index : slot'[t][j] = IF j = i THEN c ELSE slot[t][j]
      BY <1>6, <1>8
    <3> QED
      BY <1>5, <1>6, <1>9, <3>1, <3>2
  <2>2. found[t] = Cardinality(T)
    BY <1>3 DEF Walking
  <2>3. IsFiniteSet(T)
    <3>1. IsFiniteSet(1..N) /\ T \in SUBSET (1..N)
      BY <1>7, FS_Interval, 1 \in Int, N \in Int
    <3> HIDE DEF T
    <3> QED
      BY <3>1, FS_Subset
  <2>4. Cardinality(U) = Cardinality(T) + 1
    <3> HIDE DEF T, U, i
    <3> QED
      BY <2>1, <2>3, FS_AddElement
  <2> QED
    BY <1>2, <1>8, <2>2, <2>4
<1>13. Fills(t)'
  <2> DEFINE y(j) == bound[t][j]
  <2>1. SUFFICES ASSUME NEW j \in Index, y(j) # None
                 PROVE  IF slot'[t][j] # None /\ buffer[t].val[slot'[t][j]] \notin Bad
                        THEN y(j) \in hit'[t] /\ shown'[t][y(j)] = buffer[t].val[slot'[t][j]]
                        ELSE y(j) \notin hit'[t]
    BY <1>2 DEF Fills
  <2>2. /\ hit[t] \in SUBSET Target /\ shown[t] \in [Target -> MaybeValue] /\ y(j) \in Target
        /\ hit \in [Thread -> SUBSET Target] /\ shown \in [Thread -> [Target -> MaybeValue]]
    BY <2>1 DEF UseInv, Shapes
  <2>3. CASE j = i
    <3>1. x = y(j) /\ slot'[t][j] = c
      BY <1>6, <1>8, <2>3
    <3>2. hit'[t] = IF v \in Bad THEN hit[t] \ {x} ELSE hit[t] \cup {x}
      BY <1>1, <2>1, <2>2, <3>1
    <3>3. v \notin Bad => shown'[t][x] = v
      BY <1>1, <2>1, <2>2, <3>1
    <3> HIDE DEF x, c, i
    <3> QED
      BY <1>6, <3>1, <3>2, <3>3
  <2>4. CASE j # i
    <3>1. slot'[t][j] = slot[t][j]
      BY <1>8, <2>4
    <3>2. x = None \/ y(j) # x
      BY <1>6, <2>1, <2>4 DEF WalkInv, Bindings
    <3>3. y(j) \in hit'[t] <=> y(j) \in hit[t]
      BY <1>1, <2>2, <3>2
    <3>4. shown'[t][y(j)] = shown[t][y(j)]
      BY <1>1, <2>2, <3>2
    <3> QED
      BY <1>3, <2>1, <3>1, <3>3, <3>4 DEF Fills
  <2> QED
    BY <2>3, <2>4
<1> QED
  BY <1>10, <1>11, <1>12, <1>13 DEF Following, Walking

\* A walk changes nothing of the other threads.
LEMMA WalkStep ==
    ASSUME FieldsOnce, DistinctTags, UseInv, WalkInv, NEW t \in Thread, Walk(t)
    PROVE  WalkInv'
<1>1. UNCHANGED <<trieVars, bound, buffer>>
  BY DEF Walk, SkipTLV, MeetLeaf, Enter, Return
<1>2. ASSUME NEW u \in Thread, u # t
      PROVE  /\ stack'[u] = stack[u] /\ slot'[u] = slot[u] /\ found'[u] = found[u]
             /\ hit'[u] = hit[u] /\ shown'[u] = shown[u]
  BY <1>2, WalkTouchesOwn DEF UseInv, Untouched
<1>3. /\ handles' = handles /\ paths' = paths /\ finalized' = finalized
      /\ bound' = bound /\ buffer' = buffer
  BY <1>1 DEF trieVars
<1>4. ASSUME NEW u \in Thread, u # t PROVE Following(u)'
  BY <1>2, <1>3, <1>4, Unmoved DEF WalkInv
<1>5. Following(t)'
  BY MovingFollows, LeafFollows DEF Walk
<1>6. Registered' /\ Bindings'
  BY <1>3 DEF WalkInv, Registered, Bindings
<1> QED
  BY <1>4, <1>5, <1>6 DEF WalkInv

-----------------------------------------------------------------------------
\* While the trie is built there is nothing to follow.
LEMMA BuildStep ==
    ASSUME DistinctTags, UseInv, WalkInv, Build
    PROVE  WalkInv'
<1>1. ~finalized /\ threadVars' = threadVars
  BY DEF Build, AddPath, AddThrows, AddInterior, AddLeaf, Finalize, UseInv, Settled
<1>2. /\ bound' = bound /\ buffer' = buffer /\ stack' = stack
      /\ \A t \in Thread : buffer[t] = None /\ stack[t] = <<>> /\ \A i \in Index : bound[t][i] = None
  BY <1>1 DEF threadVars, UseInv, Settled, WalkInv, Bindings
<1>3. ASSUME NEW t \in Thread PROVE Following(t)'
  BY <1>2 DEF Following
<1>4. Bindings'
  BY <1>2 DEF Bindings
<1>5. Registered'
  <2>1. CASE AddLeaf
    <3> DEFINE c == adding.path
    <3>1. /\ paths' = paths \/ paths' = Append(paths, c)
          /\ DOMAIN handles' = DOMAIN handles \cup {c}
          /\ adding # None
      BY <2>1 DEF AddLeaf
    <3>2. paths \in Seq(Asked) /\ c \in Asked /\ DOMAIN paths = 1..Len(paths) /\ Len(paths) \in Nat
      BY <3>1, Component, LenProperties DEF UseInv, TrieInv, TrieType
    <3>3. CASE paths' = paths
      BY <3>1, <3>3 DEF WalkInv, Registered
    <3>4. CASE paths' = Append(paths, c)
      <4>1. /\ DOMAIN paths' = 1..(Len(paths) + 1)
            /\ \A i \in 1..Len(paths) : paths'[i] = paths[i]
            /\ paths'[Len(paths) + 1] = c
        BY <3>2, <3>4, AppendProperties, LenProperties
      <4>2. \A i \in 1..(Len(paths) + 1) : i \in 1..Len(paths) \/ i = Len(paths) + 1
        BY <3>2
      <4> QED
        BY <3>1, <3>2, <4>1, <4>2 DEF WalkInv, Registered
    <3> QED
      BY <3>1, <3>3, <3>4
  <2>2. CASE ~AddLeaf
    <3>1. paths' = paths /\ handles' = handles
      BY <2>2 DEF Build, AddPath, AddThrows, AddInterior, Finalize
    <3> QED
      BY <3>1 DEF WalkInv, Registered
  <2> QED
    BY <2>1, <2>2
<1> QED
  BY <1>3, <1>4, <1>5 DEF WalkInv

\* apply starts with every field of the frame ahead of the outermost call.
LEMMA ApplyFollows ==
    ASSUME UseInv, WalkInv, NEW t \in Thread, NEW f \in Frame, NEW content \in [Sent -> Value],
           NEW rw \in BOOLEAN, Apply(t, f, content, rw)
    PROVE  Following(t)'
<1> DEFINE w == [at |-> <<>>, next |-> 1, node |-> 1]
           empty == [i \in Index |-> None]
<1>1. /\ handles' = handles /\ paths' = paths /\ bound' = bound /\ shown' = shown
      /\ buffer'[t].frame = f /\ slot'[t] = empty /\ found'[t] = 0 /\ stack'[t] = <<w>>
      /\ hit'[t] = {x \in hit[t] : Unbound(t, x)}
  BY DEF Apply, trieVars, UseInv, Shapes
<1>2. <<>> \in Seq(Name) /\ Len(<<>>) = 0
  OBVIOUS
<1>3. Reached(f, w)
  <2>1. ASSUME NEW q \in DOMAIN handles PROVE ~IsPrefix(q, <<>>)
    <3>1. q \in Seq(Name) \ {<<>>}
      BY HandleFacts DEF UseInv
    <3>2. Len(q) \in Nat \ {0}
      BY <3>1, EmptySeq
    <3> QED
      BY <1>2, <3>2 DEF IsPrefix
  <2>2. \A j \in DOMAIN Layout(f, <<>>) : ~(j < 1)
    <3>1. \A j \in DOMAIN Layout(f, <<>>) : j \in Nat \ {0}
      BY LayoutFacts
    <3> QED
      BY <3>1
  <2> QED
    BY <1>2, <2>1, <2>2 DEF Reached
<1>4. Nested(f, <<w>>)
  <2> HIDE DEF w
  <2> QED
    BY <1>3 DEF Nested
<1>5. Covers(f, <<w>>, empty)
  <2>1. ASSUME NEW p \in DOMAIN handles, Delivers(f, p) PROVE Ahead(f, w, p)
    <3>1. p \in Seq(Name) /\ Len(p) \in Nat \ {0}
      BY HandleFacts, EmptySeq DEF UseInv
    <3>2. 1 \in 1..Len(p) /\ 0 < Len(p)
      BY <3>1
    <3>3. Near(f, Cut(p, 1))
      BY <2>1, <3>1, <3>2, ReadableIsNear DEF Delivers
    <3>4. Parent(Cut(p, 0 + 1)) = Cut(p, 0) /\ Cut(p, 0) = <<>> /\ 0 + 1 = 1
      BY <3>1, <3>2, CutParent, SubSeqEmpty DEF Cut
    <3>5. PICK i \in DOMAIN Layout(f, <<>>) : Layout(f, <<>>)[i] = Cut(p, 1)
      BY <3>3, <3>4 DEF Near
    <3>6. i >= 1
      BY LayoutFacts
    <3> QED
      BY <1>2, <3>2, <3>4, <3>5, <3>6 DEF Ahead
  <2>2. \A p \in DOMAIN handles : handles[p] \in Index
    BY HandleFacts DEF UseInv
  <2>3. \A p : Awaited(f, <<w>>, p) <=> Ahead(f, w, p)
    <3> HIDE DEF w
    <3> QED
      BY DEF Awaited
  <2> HIDE DEF w
  <2> QED
    BY <2>1, <2>2, <2>3 DEF Covers
<1>6. Covers(buffer[t].frame, stack[t], slot[t])'
  BY <1>1, <1>5, CoversAfter
<1>7. Nested(buffer[t].frame, stack[t])'
  BY <1>1, <1>4, NestedAfter
<1>8. (found[t] = Cardinality({i \in 1..Len(paths) : slot[t][i] # None}))'
  <2>1. 1..Len(paths) \subseteq Index
    BY IndicesFit DEF UseInv
  <2>2. {i \in 1..Len(paths') : slot'[t][i] # None} = {}
    BY <1>1, <2>1
  <2> QED
    BY <1>1, <2>2, FS_EmptySet
<1>9. Fills(t)'
  <2>1. \A i \in Index : slot'[t][i] = None /\ bound[t][i] \notin hit'[t]
    BY <1>1 DEF Unbound
  <2> QED
    BY <1>1, <2>1 DEF Fills
<1> QED
  BY <1>6, <1>7, <1>8, <1>9 DEF Following, Walking

LEMMA UseStepFollows ==
    ASSUME DistinctTags, UseInv, WalkInv, NEW t \in Thread, Use(t)
    PROVE  WalkInv'
<1>1. /\ handles' = handles /\ paths' = paths /\ finalized' = finalized
      /\ \A u \in Thread : u # t =>
            /\ buffer'[u] = buffer[u] /\ stack'[u] = stack[u] /\ slot'[u] = slot[u]
            /\ found'[u] = found[u] /\ hit'[u] = hit[u] /\ shown'[u] = shown[u]
            /\ bound'[u] = bound[u]
  BY UseTouchesOwn DEF trieVars, UseInv, Untouched
<1>2. Registered'
  BY <1>1 DEF WalkInv, Registered
<1>3. ASSUME NEW u \in Thread, u # t PROVE Following(u)'
  BY <1>1, <1>3, Unmoved DEF WalkInv
<1>4. Bindings'
  <2>1. CASE \E p \in DOMAIN handles, x \in Target : Bind(t, p, x)
    <3>1. PICK p \in DOMAIN handles, x \in Target : Bind(t, p, x)
      BY <2>1
    <3>2. handles[p] \in Index
      BY HandleFacts DEF UseInv
    <3>3. /\ finalized /\ \A i \in Index \ {handles[p]} : bound[t][i] # x
          /\ bound \in [Thread -> [Index -> Target \cup {None}]]
          /\ bound' = [bound EXCEPT ![t][handles[p]] = x]
      BY <3>1 DEF Bind, UseInv, Shapes
    <3>4. /\ \A u \in Thread : u # t => bound'[u] = bound[u]
          /\ \A i \in Index : bound'[t][i] = IF i = handles[p] THEN x ELSE bound[t][i]
      BY <3>2, <3>3
    <3>5. ASSUME NEW u \in Thread, NEW i \in Index, NEW j \in Index
          PROVE  /\ bound'[u][i] # None /\ bound'[u][i] = bound'[u][j] => i = j
                 /\ bound'[u][i] # None => \E q \in DOMAIN handles : handles[q] = i
      BY <3>3, <3>4 DEF WalkInv, Bindings
    <3> QED
      BY <1>1, <3>3, <3>5 DEF Bindings
  <2>2. CASE bound' = bound
    BY <1>1, <2>2 DEF WalkInv, Bindings
  <2> QED
    BY <2>1, <2>2 DEF Use, Load, Apply, Modify, Commit
<1>5. Following(t)'
  <2>1. ASSUME stack'[t] = <<>>, slot' = slot, buffer' = buffer \/ buffer'[t].frame = buffer[t].frame,
               buffer[t] = None => buffer' = buffer, stack' = stack
        PROVE  Following(t)'
    <3>1. ASSUME buffer'[t] # None PROVE Covers(buffer[t].frame, stack[t], slot[t])'
      <4>1. Covers(buffer[t].frame, stack[t], slot[t])
        BY <2>1, <3>1 DEF WalkInv, Following
      <4> QED
        BY <1>1, <2>1, <4>1, CoversAfter
    <3> QED
      BY <2>1, <3>1 DEF Following
  <2>2. CASE \E p \in DOMAIN handles, x \in Target : Bind(t, p, x) \/ Load(t, p, x)
    BY <2>1, <2>2 DEF Bind, Load, Idle
  <2>3. CASE \E x \in Target, v \in Value \ Bad : Modify(t, x, v)
    BY <2>1, <2>3 DEF Modify, Idle
  <2>4. CASE \E p \in DOMAIN handles : Commit(t, p)
    <3>1. PICK p \in DOMAIN handles : Commit(t, p)
      BY <2>4
    <3>2. /\ stack[t] = <<>> /\ stack' = stack /\ slot' = slot /\ buffer[t] # None
          /\ buffer' = [buffer EXCEPT ![t].val[slot[t][handles[p]]] = shown[t][bound[t][handles[p]]]]
      BY <3>1 DEF Commit, Idle
    <3>3. buffer[t] \in Reading
      BY <3>2 DEF UseInv, Shapes
    <3>4. buffer'[t].frame = buffer[t].frame
      BY <3>2, <3>3 DEF Reading, UseInv, Shapes
    <3> QED
      BY <2>1, <3>2, <3>4
  <2>5. ASSUME NEW f \in Frame, NEW rw \in BOOLEAN, Apply(t, f, Content[f], rw)
        PROVE  Following(t)'
    <3>1. Content[f] \in [Sent -> Value]
      BY FrameAssumption DEF FrameAssumption
    <3> QED
      BY <2>5, <3>1, ApplyFollows
  <2>6. ASSUME buffer[t] # None, NEW rw \in BOOLEAN, Apply(t, buffer[t].frame, buffer[t].val, rw)
        PROVE  Following(t)'
    <3>1. buffer[t].frame \in Frame /\ buffer[t].val \in [Sent -> Value]
      BY <2>6 DEF UseInv, Shapes, Reading
    <3> QED
      BY <2>6, <3>1, ApplyFollows
  <2> QED
    BY <2>2, <2>3, <2>4, <2>5, <2>6 DEF Use
<1> QED
  BY <1>2, <1>3, <1>4, <1>5 DEF WalkInv

LEMMA RefineStep ==
    ASSUME FieldsOnce, DistinctTags, RefineInv, [Next]_vars
    PROVE  RefineInv'
<1>1. UseInv'
  BY UseStep DEF RefineInv
<1>2. ASSUME UNCHANGED vars PROVE WalkInv'
  <2>1. UNCHANGED <<handles, paths, finalized, bound, slot, buffer, stack, found, hit, shown>>
    BY <1>2 DEF vars, trieVars, threadVars
  <2>2. \A u \in Thread : Following(u)'
    BY <2>1, Unmoved DEF RefineInv, WalkInv
  <2> QED
    BY <2>1, <2>2 DEF RefineInv, WalkInv, Registered, Bindings
<1>3. WalkInv'
  BY <1>2, BuildStep, WalkStep, UseStepFollows DEF Next, RefineInv
<1> QED
  BY <1>1, <1>3 DEF RefineInv

LEMMA RefineStart ==
    ASSUME Init
    PROVE  RefineInv
<1>1. UseInv
  BY TrieStart, DistinctStart, UseStart DEF UseInv
<1>2. /\ \A t \in Thread : buffer[t] = None /\ stack[t] = <<>> /\ \A i \in Index : bound[t][i] = None
      /\ DOMAIN paths = {}
  BY NothingInside DEF Init
<1>3. WalkInv
  BY <1>2 DEF WalkInv, Registered, Bindings, Following
<1> QED
  BY <1>1, <1>3 DEF RefineInv

-----------------------------------------------------------------------------
\* The variables of Projection, as BerProjection's.
Reads(t) == IF buffer[t] = None THEN None ELSE [frame |-> buffer[t].frame, val |-> buffer[t].val]
Seeing(t, x) == IF x \notin hit[t] \/ (~Idle(t) /\ ~Unbound(t, x)) THEN None ELSE shown[t][x]

\* A target shows the field of the handle it is bound to.
LEMMA ShowsFacts ==
    ASSUME RefineInv, NEW t \in Thread, NEW x \in Target
    PROVE  /\ Unbound(t, x) <=> Shows(t, x) = None
           /\ ~Unbound(t, x) => Shows(t, x) \in DOMAIN handles /\ bound[t][handles[Shows(t, x)]] = x
           /\ \A p \in DOMAIN handles : bound[t][handles[p]] = x => ~Unbound(t, x) /\ Shows(t, x) = p
<1>1. x # None
  BY NoneAssumption DEF NoneAssumption
<1>2. \A p \in DOMAIN handles : handles[p] \in Index /\ p # None /\ paths[handles[p]] = p
  BY HandleFacts DEF RefineInv, UseInv
<1>3. ASSUME ~Unbound(t, x) PROVE \E p \in DOMAIN handles : bound[t][handles[p]] = x
  BY <1>1, <1>3 DEF Unbound, RefineInv, WalkInv, Bindings
<1>4. \A p, q \in DOMAIN handles :
        bound[t][handles[p]] = x /\ bound[t][handles[q]] = x => p = q
  <2>1. SUFFICES ASSUME NEW p \in DOMAIN handles, NEW q \in DOMAIN handles,
                        bound[t][handles[p]] = x, bound[t][handles[q]] = x
                 PROVE  p = q
    OBVIOUS
  <2>2. handles[p] = handles[q]
    BY <1>1, <1>2, <2>1 DEF RefineInv, WalkInv, Bindings
  <2> QED
    BY <1>2, <2>2
<1>5. ASSUME NEW p \in DOMAIN handles, bound[t][handles[p]] = x
      PROVE  ~Unbound(t, x)
  BY <1>2, <1>5 DEF Unbound
<1> DEFINE q == CHOOSE q \in DOMAIN handles : bound[t][handles[q]] = x
<1>6. ASSUME ~Unbound(t, x) PROVE q \in DOMAIN handles /\ bound[t][handles[q]] = x
  BY <1>3, <1>6
<1>7. Shows(t, x) = IF Unbound(t, x) THEN None ELSE q
  BY DEF Shows
<1> HIDE DEF q
<1> QED
  BY <1>2, <1>4, <1>5, <1>6, <1>7

LEMMA AbstractStart ==
    ASSUME Init
    PROVE  Abstract!Init
<1>1. /\ handles = <<>> /\ finalized = FALSE
      /\ \A t \in Thread : buffer[t] = None /\ stack[t] = <<>> /\ hit[t] = {}
      /\ \A t \in Thread : \A i \in Index : bound[t][i] = None
  BY DEF Init
<1>2. \A t \in Thread : \A x \in Target : Unbound(t, x)
  BY <1>1, NoneAssumption DEF Unbound, NoneAssumption
<1> QED
  BY <1>1, <1>2, NothingInside DEF Abstract!Init, Shows, Idle

\* What a thread has is the same for Projection before and after a step.
Same(u) ==
    /\ Reads(u)' = Reads(u) /\ (Idle(u)' <=> Idle(u))
    /\ \A x \in Target : Shows(u, x)' = Shows(u, x) /\ Seeing(u, x)' = Seeing(u, x)

LEMMA SameIfUntouched ==
    ASSUME NEW u \in Thread, handles' = handles, buffer'[u] = buffer[u], bound'[u] = bound[u],
           hit'[u] = hit[u], shown'[u] = shown[u], Idle(u)' <=> Idle(u)
    PROVE  Same(u)
<1>1. \A x \in Target : Unbound(u, x)' <=> Unbound(u, x)
  BY DEF Unbound
<1>2. \A x \in Target : Shows(u, x)' = Shows(u, x)
  BY <1>1 DEF Shows
<1>3. \A x \in Target : Seeing(u, x)' = Seeing(u, x)
  BY <1>1 DEF Seeing
<1> QED
  BY <1>2, <1>3 DEF Same, Reads

\* The variables of Projection as functions.
ReadingNow == [t \in Thread |-> Reads(t)]
Busy == {t \in Thread : ~Idle(t)}
Showing == [t \in Thread |-> [x \in Target |-> Shows(t, x)]]
View == [t \in Thread |-> [x \in Target |-> Seeing(t, x)]]

LEMMA Now ==
    /\ \A u \in Thread : \A x \in Target :
          /\ View[u][x] = Seeing(u, x) /\ View'[u][x] = Seeing(u, x)'
          /\ Showing[u][x] = Shows(u, x) /\ Showing'[u][x] = Shows(u, x)'
    /\ \A u \in Thread : ReadingNow[u] = Reads(u) /\ ReadingNow'[u] = Reads(u)'
    /\ ReadingNow = [u \in Thread |-> ReadingNow[u]] /\ ReadingNow' = [u \in Thread |-> ReadingNow'[u]]
    /\ View = [u \in Thread |-> View[u]] /\ View' = [u \in Thread |-> View'[u]]
    /\ Showing = [u \in Thread |-> Showing[u]] /\ Showing' = [u \in Thread |-> Showing'[u]]
    /\ \A u \in Thread :
          /\ View[u] = [x \in Target |-> View[u][x]] /\ View'[u] = [x \in Target |-> View'[u][x]]
          /\ Showing[u] = [x \in Target |-> Showing[u][x]]
          /\ Showing'[u] = [x \in Target |-> Showing'[u][x]]
BY DEF View, Showing, ReadingNow

LEMMA Changed ==
    ASSUME NEW T, NEW t \in T, NEW g, NEW h, NEW e,
           g = [u \in T |-> g[u]], h = [u \in T |-> h[u]],
           \A u \in T : u # t => h[u] = g[u], h[t] = e
    PROVE  h = [g EXCEPT ![t] = e]
OBVIOUS

LEMMA AbstractStutter ==
    ASSUME DOMAIN handles' = DOMAIN handles, finalized' = finalized, \A u \in Thread : Same(u)
    PROVE  UNCHANGED Abstract!vars
BY DEF Abstract!vars, Same, Reads, Seeing

\* A slot is filled when the frame delivers its field.
LEMMA SeenFacts ==
    ASSUME RefineInv, NEW t \in Thread, NEW p \in DOMAIN handles, buffer[t] # None,
           Covers(buffer[t].frame, <<>>, slot[t])
    PROVE  /\ slot[t][handles[p]] # None <=> Abstract!Delivers(buffer[t].frame, p)
           /\ slot[t][handles[p]] # None => slot[t][handles[p]] = p
           /\ Abstract!Seen(t, p) =
                IF slot[t][handles[p]] # None /\ buffer[t].val[p] \notin Bad
                THEN buffer[t].val[p] ELSE None
<1>1. ~Awaited(buffer[t].frame, <<>>, p)
  BY DEF Awaited
<1>2. slot[t][handles[p]] # None <=> Delivers(buffer[t].frame, p)
  BY <1>1 DEF Covers
<1>3. Abstract!Delivers(buffer[t].frame, p) <=> Delivers(buffer[t].frame, p)
  BY DEF Abstract!Delivers, Delivers, Abstract!IsStrictPrefix, Abstract!IsPrefix,
         IsStrictPrefix, IsPrefix
<1>4. handles[p] \in Index /\ paths[handles[p]] = p
  BY HandleFacts DEF RefineInv, UseInv
<1>5. slot[t][handles[p]] # None => slot[t][handles[p]] = p
  BY <1>4 DEF RefineInv, UseInv, SlotsNamePlaces
<1>6. Abstract!Seen(t, p) = IF Abstract!Delivers(buffer[t].frame, p) /\ buffer[t].val[p] \notin Bad
                            THEN buffer[t].val[p] ELSE None
  BY DEF Abstract!Seen
<1> QED
  BY <1>2, <1>3, <1>5, <1>6

\* The outermost call returns: the targets show what was found.
LEMMA EndMaps ==
    ASSUME FieldsOnce, RefineInv, NEW t \in Thread, Return(t), Front(stack[t]) = <<>>,
           \A u \in Thread : u # t => Same(u)
    PROVE  Abstract!End(t)
<1>1. /\ ~Idle(t) /\ ~Continues(t) /\ stack' = [stack EXCEPT ![t] = Front(@)]
      /\ UNCHANGED <<trieVars, bound, slot, buffer, found, hit, shown>>
  BY DEF Return
<1>2. /\ handles' = handles /\ finalized' = finalized /\ bound' = bound /\ slot' = slot
      /\ buffer' = buffer /\ hit' = hit /\ shown' = shown
  BY <1>1 DEF trieVars
<1>3. Idle(t)'
  BY <1>1 DEF Idle, RefineInv, UseInv, Shapes
<1>4. buffer[t] # None /\ Walking(t) /\ Covers(buffer[t].frame, stack[t], slot[t])
  BY <1>1, BusyReads DEF RefineInv, WalkInv, Following, Idle
<1>5. Covers(buffer[t].frame, <<>>, slot[t])
  BY <1>1, <1>4, ReturnedCovers DEF RefineInv
<1>6. \A x \in Target : Shows(t, x)' = Shows(t, x) /\ (Unbound(t, x)' <=> Unbound(t, x))
  BY <1>2 DEF Shows, Unbound
<1>7. ASSUME NEW x \in Target
      PROVE  Seeing(t, x)' = IF Shows(t, x) = None THEN Seeing(t, x)
                             ELSE Abstract!Seen(t, Shows(t, x))
  <2>1. CASE Shows(t, x) = None
    <3>1. Unbound(t, x)
      BY <2>1, ShowsFacts
    <3> QED
      BY <1>2, <1>3, <1>6, <2>1, <3>1 DEF Seeing
  <2>2. CASE Shows(t, x) # None
    <3> DEFINE p == Shows(t, x)
               i == handles[p]
    <3>1. ~Unbound(t, x) /\ p \in DOMAIN handles /\ bound[t][i] = x
      BY <2>2, ShowsFacts
    <3>2. x # None /\ i \in Index
      BY <3>1, HandleFacts, NoneAssumption DEF NoneAssumption, RefineInv, UseInv
    <3>3. /\ slot[t][i] # None => slot[t][i] = p
          /\ Abstract!Seen(t, p) = IF slot[t][i] # None /\ buffer[t].val[p] \notin Bad
                                   THEN buffer[t].val[p] ELSE None
      BY <1>4, <1>5, <3>1, SeenFacts
    <3>4. IF slot[t][i] # None /\ buffer[t].val[slot[t][i]] \notin Bad
          THEN x \in hit[t] /\ shown[t][x] = buffer[t].val[slot[t][i]]
          ELSE x \notin hit[t]
      BY <1>4, <3>1, <3>2 DEF Walking, Fills
    <3>5. Seeing(t, x)' = IF x \notin hit[t] THEN None ELSE shown[t][x]
      BY <1>2, <1>3 DEF Seeing
    <3> HIDE DEF p, i
    <3>6. Seeing(t, x)' = Abstract!Seen(t, p)
      BY <3>3, <3>4, <3>5
    <3> QED
      BY <2>2, <3>6 DEF p
  <2> QED
    BY <2>1, <2>2
<1>8. \A u \in Thread : (Idle(u)' <=> (Idle(u) \/ u = t))
  BY <1>3 DEF Same
<1>9. \A u \in Thread : Reads(u)' = Reads(u) /\ \A x \in Target : Shows(u, x)' = Shows(u, x)
  BY <1>2, <1>6 DEF Same, Reads
<1>10. \A u \in Thread : u # t => \A x \in Target : Seeing(u, x)' = Seeing(u, x)
  BY DEF Same
<1>11. t \in Busy /\ Busy' = Busy \ {t}
  BY <1>1, <1>8 DEF Busy
<1>12. ReadingNow' = ReadingNow /\ Showing' = Showing
  <2>1. \A u \in Thread : ReadingNow'[u] = ReadingNow[u] /\ Showing'[u] = Showing[u]
    BY <1>9, Now
  <2> QED
    BY <2>1, Now
<1> DEFINE after == [x \in Target |-> IF Showing[t][x] = None THEN View[t][x]
                                     ELSE Abstract!Seen(t, Showing[t][x])]
<1>13. View'[t] = after
  <2>1. \A x \in Target : View'[t][x] = after[x]
    BY <1>7, Now
  <2> QED
    BY <2>1, Now
<1>14. \A u \in Thread : u # t => View'[u] = View[u]
  BY <1>10, Now
<1>15. View' = [View EXCEPT ![t] = after]
  <2> HIDE DEF after
  <2> QED
    BY <1>13, <1>14, Now, Changed
<1> QED
  BY <1>2, <1>11, <1>12, <1>15
  DEF Abstract!End, Busy, ReadingNow, Showing, View, Reads, Seeing

LEMMA SameShowing ==
    ASSUME NEW t \in Thread, \A u \in Thread : u # t => Same(u),
           \A x \in Target : Shows(t, x)' = Shows(t, x)
    PROVE  Showing' = Showing
<1>1. \A u \in Thread : \A x \in Target : Shows(u, x)' = Shows(u, x)
  BY DEF Same
<1> QED
  BY <1>1 DEF Showing

LEMMA SameReading ==
    ASSUME NEW t \in Thread, \A u \in Thread : u # t => Same(u), Reads(t)' = Reads(t)
    PROVE  ReadingNow' = ReadingNow
<1>1. \A u \in Thread : Reads(u)' = Reads(u)
  BY DEF Same
<1> QED
  BY <1>1 DEF ReadingNow

LEMMA SameView ==
    ASSUME NEW t \in Thread, \A u \in Thread : u # t => Same(u),
           \A x \in Target : Seeing(t, x)' = Seeing(t, x)
    PROVE  View' = View
<1>1. \A u \in Thread : \A x \in Target : Seeing(u, x)' = Seeing(u, x)
  BY DEF Same
<1> QED
  BY <1>1 DEF View

\* Steps of one thread that change what it sees and nothing else.
LEMMA OnlyView ==
    ASSUME NEW t \in Thread, \A u \in Thread : u # t => Same(u),
           Reads(t)' = Reads(t), Idle(t)' <=> Idle(t),
           \A x \in Target : Shows(t, x)' = Shows(t, x), NEW e, View'[t] = e
    PROVE  /\ ReadingNow' = ReadingNow /\ Busy' = Busy /\ Showing' = Showing
           /\ View' = [View EXCEPT ![t] = e]
<1>1. \A u \in Thread : u # t => View'[u] = View[u]
  <2>1. \A u \in Thread : u # t => \A x \in Target : View'[u][x] = View[u][x]
    BY Now DEF Same
  <2> QED
    BY <2>1, Now
<1>2. View' = [View EXCEPT ![t] = e]
  BY <1>1, Now, Changed
<1>3. Busy' = Busy
  BY DEF Busy, Same
<1> QED
  BY <1>2, <1>3, SameReading, SameShowing

\* apply: the bound targets are cleared, the others stay.
LEMMA BeginMaps ==
    ASSUME RefineInv, NEW t \in Thread, NEW f \in Frame, NEW content \in [Sent -> Value],
           NEW rw \in BOOLEAN, Apply(t, f, content, rw),
           \A u \in Thread : u # t => Same(u)
    PROVE  Abstract!Begin(t, f, content)
<1> DEFINE r == [frame |-> f, val |-> content]
           cleared == [x \in Target |-> IF Showing[t][x] = None THEN View[t][x] ELSE None]
<1>1. /\ finalized /\ Idle(t) /\ handles' = handles /\ finalized' = finalized
      /\ bound' = bound /\ shown' = shown
      /\ buffer'[t] = [frame |-> f, val |-> content, rw |-> rw]
      /\ stack'[t] # <<>>
      /\ hit'[t] = {x \in hit[t] : Unbound(t, x)}
  BY DEF Apply, trieVars, RefineInv, UseInv, Shapes
<1>2. Reads(t)' = r
  <2>1. buffer'[t] \in Reading
    BY <1>1 DEF Reading
  <2>2. buffer'[t] # None
    BY <2>1, NoneAssumption DEF NoneAssumption
  <2> QED
    BY <1>1, <2>2 DEF Reads
<1>3. ~Idle(t)'
  BY <1>1 DEF Idle
<1>4. \A x \in Target : Shows(t, x)' = Shows(t, x) /\ (Unbound(t, x)' <=> Unbound(t, x))
  BY <1>1 DEF Shows, Unbound
<1>5. ASSUME NEW x \in Target
      PROVE  Seeing(t, x)' = IF Shows(t, x) = None THEN Seeing(t, x) ELSE None
  <2>1. Unbound(t, x) <=> Shows(t, x) = None
    BY ShowsFacts
  <2> QED
    BY <1>1, <1>3, <1>4, <2>1 DEF Seeing
<1>6. ReadingNow' = [ReadingNow EXCEPT ![t] = r]
  <2>1. ReadingNow'[t] = r /\ \A u \in Thread : u # t => ReadingNow'[u] = ReadingNow[u]
    BY <1>2, Now DEF Same
  <2> HIDE DEF r
  <2> QED
    BY <2>1, Now, Changed
<1>7. Busy' = Busy \cup {t}
  BY <1>3 DEF Busy, Same
<1>8. Showing' = Showing
  BY <1>4, SameShowing
<1>9. View' = [View EXCEPT ![t] = cleared]
  <2>1. \A x \in Target : View'[t][x] = cleared[x]
    BY <1>5, Now
  <2>2. View'[t] = cleared
    BY <2>1, Now
  <2>3. \A u \in Thread : u # t => \A x \in Target : View'[u][x] = View[u][x]
    BY Now DEF Same
  <2>4. \A u \in Thread : u # t => View'[u] = View[u]
    BY <2>3, Now
  <2> HIDE DEF cleared
  <2> QED
    BY <2>2, <2>4, Now, Changed
<1>10. t \notin Busy
  BY <1>1 DEF Busy
<1> QED
  BY <1>1, <1>6, <1>7, <1>8, <1>9, <1>10
  DEF Abstract!Begin, Busy, ReadingNow, Showing, View, Reads, Seeing

\* A field loaded on demand is what an apply would have shown.
LEMMA LoadMaps ==
    ASSUME RefineInv, NEW t \in Thread, NEW p \in DOMAIN handles, NEW x \in Target, Load(t, p, x),
           \A u \in Thread : u # t => Same(u)
    PROVE  Abstract!Load(t, p, x)
<1> DEFINE c == slot[t][handles[p]]
           ok == c # None /\ buffer[t].val[c] \notin Bad
           seen == Abstract!Seen(t, p)
<1>1. /\ Idle(t) /\ buffer[t] # None
      /\ hit' = [hit EXCEPT ![t] = IF ok THEN @ \cup {x} ELSE @ \ {x}]
      /\ shown' = IF ok THEN [shown EXCEPT ![t][x] = buffer[t].val[c]] ELSE shown
      /\ UNCHANGED <<trieVars, bound, slot, buffer, stack, found>>
  BY DEF Load
<1>2. /\ handles' = handles /\ finalized' = finalized /\ bound' = bound /\ buffer' = buffer
      /\ stack' = stack /\ hit \in [Thread -> SUBSET Target]
      /\ shown \in [Thread -> [Target -> MaybeValue]] /\ buffer[t] \in Reading
  BY <1>1 DEF trieVars, RefineInv, UseInv, Shapes
<1>3. seen = IF ok THEN buffer[t].val[c] ELSE None
  <2>1. Covers(buffer[t].frame, <<>>, slot[t])
    BY <1>1 DEF RefineInv, WalkInv, Following, Idle
  <2>2. /\ c # None => c = p
        /\ seen = IF c # None /\ buffer[t].val[p] \notin Bad THEN buffer[t].val[p] ELSE None
    BY <1>1, <2>1, SeenFacts
  <2> HIDE DEF seen, c
  <2> QED
    BY <2>2
<1>4. ASSUME NEW y \in Target
      PROVE  Seeing(t, y)' = IF y = x THEN seen ELSE Seeing(t, y)
  <2> HIDE DEF ok, seen, c
  <2>1. hit'[t] = IF ok THEN hit[t] \cup {x} ELSE hit[t] \ {x}
    BY <1>1, <1>2
  <2>2. shown'[t][y] = IF ok /\ y = x THEN buffer[t].val[c] ELSE shown[t][y]
    BY <1>1, <1>2
  <2>3. Idle(t)'
    BY <1>1, <1>2 DEF Idle
  <2> QED
    BY <1>1, <1>3, <2>1, <2>2, <2>3 DEF Seeing
<1>5. Reads(t)' = Reads(t) /\ (Idle(t)' <=> Idle(t)) /\ \A y \in Target : Shows(t, y)' = Shows(t, y)
  BY <1>2 DEF Reads, Idle, Shows, Unbound
<1>6. View'[t] = [View[t] EXCEPT ![x] = seen]
  <2>1. \A y \in Target : View'[t][y] = IF y = x THEN seen ELSE View[t][y]
    BY <1>4, Now
  <2> HIDE DEF seen
  <2> QED
    BY <2>1, Now, Changed
<1>7. /\ ReadingNow' = ReadingNow /\ Busy' = Busy /\ Showing' = Showing
      /\ View' = [View EXCEPT ![t] = [View[t] EXCEPT ![x] = seen]]
  BY <1>5, <1>6, OnlyView
<1>8. t \notin Busy /\ ReadingNow[t] # None
  <2>1. Reads(t) # None
    <3>1. Reads(t) \in [frame : Frame, val : [Sent -> Value]]
      BY <1>1, <1>2 DEF Reads, Reading
    <3> QED
      BY <3>1, NoneAssumption DEF NoneAssumption
  <2> QED
    BY <1>1, <2>1, Now DEF Busy
<1> QED
  BY <1>2, <1>7, <1>8
  DEF Abstract!Load, Busy, ReadingNow, Showing, View, Reads, Seeing

LEMMA ModifyMaps ==
    ASSUME RefineInv, NEW t \in Thread, NEW x \in Target, NEW v \in Value \ Bad, Modify(t, x, v),
           \A u \in Thread : u # t => Same(u)
    PROVE  Abstract!Modify(t, x, v)
<1>1. /\ Idle(t) /\ x \in hit[t] /\ shown' = [shown EXCEPT ![t][x] = v]
      /\ UNCHANGED <<trieVars, bound, slot, buffer, stack, found, hit>>
  BY DEF Modify
<1>2. /\ handles' = handles /\ finalized' = finalized /\ bound' = bound /\ buffer' = buffer
      /\ stack' = stack /\ hit' = hit
      /\ shown \in [Thread -> [Target -> MaybeValue]] /\ shown[t][x] \in Value
  BY <1>1 DEF trieVars, RefineInv, UseInv, Shapes
<1>3. ASSUME NEW y \in Target
      PROVE  Seeing(t, y)' = IF y = x THEN v ELSE Seeing(t, y)
  <2>1. shown'[t][y] = IF y = x THEN v ELSE shown[t][y]
    BY <1>1, <1>2
  <2>2. Idle(t)'
    BY <1>1, <1>2 DEF Idle
  <2> QED
    BY <1>1, <1>2, <2>1, <2>2 DEF Seeing
<1>4. Reads(t)' = Reads(t) /\ (Idle(t)' <=> Idle(t)) /\ \A y \in Target : Shows(t, y)' = Shows(t, y)
  BY <1>2 DEF Reads, Idle, Shows, Unbound
<1>5. View'[t] = [View[t] EXCEPT ![x] = v]
  <2>1. \A y \in Target : View'[t][y] = IF y = x THEN v ELSE View[t][y]
    BY <1>3, Now
  <2> QED
    BY <2>1, Now, Changed
<1>6. /\ ReadingNow' = ReadingNow /\ Busy' = Busy /\ Showing' = Showing
      /\ View' = [View EXCEPT ![t] = [View[t] EXCEPT ![x] = v]]
  BY <1>4, <1>5, OnlyView
<1>7. t \notin Busy /\ View[t][x] # None
  <2>1. Seeing(t, x) # None
    BY <1>1, <1>2, ValueAssumption DEF Seeing, ValueAssumption
  <2> QED
    BY <1>1, <2>1, Now DEF Busy
<1> QED
  BY <1>2, <1>6, <1>7
  DEF Abstract!Modify, Busy, ReadingNow, Showing, View, Reads, Seeing

\* A commit writes to the place of the field the target shows.
LEMMA CommitMaps ==
    ASSUME RefineInv, NEW t \in Thread, NEW p \in DOMAIN handles, Commit(t, p),
           NEW x, x = bound[t][handles[p]],
           \A u \in Thread : u # t => Same(u)
    PROVE  x \in Target /\ Abstract!Commit(t, x)
<1> DEFINE i == handles[p]
           c == slot[t][i]
           v == shown[t][x]
<1>1. /\ Idle(t) /\ buffer[t] # None /\ x # None /\ x \in hit[t] /\ c # None
      /\ Size[v] = Size[buffer[t].val[c]]
      /\ buffer' = [buffer EXCEPT ![t].val[c] = v]
      /\ UNCHANGED <<trieVars, bound, slot, stack, found, hit, shown>>
  BY DEF Commit
<1>2. /\ handles' = handles /\ finalized' = finalized /\ bound' = bound /\ shown' = shown
      /\ stack' = stack /\ hit' = hit /\ buffer[t] \in Reading
      /\ buffer \in [Thread -> Reading \cup {None}]
  BY <1>1 DEF trieVars, RefineInv, UseInv, Shapes
<1>3. i \in Index /\ p \in Sent
  BY HandleFacts DEF RefineInv, UseInv
<1>4. x \in Target /\ v \in Value
  <2>1. x \in Target
    BY <1>1, <1>3 DEF RefineInv, UseInv, Shapes
  <2> QED
    BY <1>1, <2>1 DEF RefineInv, UseInv, Shapes
<1>5. Shows(t, x) = p
  BY <1>4, ShowsFacts
<1>6. c = p /\ Abstract!Delivers(buffer[t].frame, p)
  <2>1. Covers(buffer[t].frame, <<>>, slot[t])
    BY <1>1 DEF RefineInv, WalkInv, Following, Idle
  <2> QED
    BY <1>1, <2>1, SeenFacts
<1>7. Seeing(t, x) = v
  BY <1>1 DEF Seeing
<1> DEFINE r == [frame |-> buffer[t].frame, val |-> [buffer[t].val EXCEPT ![p] = v]]
<1>8. Reads(t)' = r /\ Reads(t) = [frame |-> buffer[t].frame, val |-> buffer[t].val]
  <2>1. Reads(t) = [frame |-> buffer[t].frame, val |-> buffer[t].val]
    BY <1>1 DEF Reads
  <2> HIDE DEF v, c, i
  <2>2. buffer'[t] = [buffer[t] EXCEPT !.val = [buffer[t].val EXCEPT ![p] = v]]
    BY <1>1, <1>2, <1>6
  <2>3. /\ buffer'[t].frame = buffer[t].frame
        /\ buffer'[t].val = [buffer[t].val EXCEPT ![p] = v]
        /\ buffer'[t] \in Reading
    BY <1>2, <1>3, <1>4, <2>2 DEF Reading
  <2>4. buffer'[t] # None
    BY <2>3, NoneAssumption DEF NoneAssumption
  <2> QED
    BY <2>1, <2>3, <2>4 DEF Reads
<1>9. ReadingNow' = [ReadingNow EXCEPT ![t].val[p] = v]
  <2>1. /\ ReadingNow'[t] = r /\ ReadingNow[t] = [frame |-> buffer[t].frame, val |-> buffer[t].val]
        /\ \A u \in Thread : u # t => ReadingNow'[u] = ReadingNow[u]
    BY <1>8, Now DEF Same
  <2> HIDE DEF v
  <2>2. [ReadingNow[t] EXCEPT !.val[p] = v] = r
    BY <2>1
  <2> HIDE DEF r
  <2>3. ReadingNow' = [ReadingNow EXCEPT ![t] = r]
    BY <2>1, Now, Changed
  <2> QED
    BY <2>2, <2>3
<1>10. (Idle(t)' <=> Idle(t)) /\ \A y \in Target : Shows(t, y)' = Shows(t, y) /\ Seeing(t, y)' = Seeing(t, y)
  BY <1>2 DEF Idle, Shows, Unbound, Seeing
<1>11. Showing' = Showing /\ View' = View /\ Busy' = Busy
  <2>1. Busy' = Busy
    BY <1>10 DEF Busy, Same
  <2> QED
    BY <1>10, <2>1, SameShowing, SameView
<1>12. /\ t \notin Busy /\ ReadingNow[t] # None /\ Showing[t][x] = p /\ View[t][x] = v
       /\ v # None /\ p # None
       /\ ReadingNow[t].frame = buffer[t].frame /\ ReadingNow[t].val = buffer[t].val
  <2>1. Reads(t) # None
    <3>1. Reads(t) \in [frame : Frame, val : [Sent -> Value]]
      BY <1>2, <1>8 DEF Reading
    <3> QED
      BY <3>1, NoneAssumption DEF NoneAssumption
  <2>2. v # None /\ p # None
    BY <1>3, <1>4, ValueAssumption, PlaceAssumption DEF ValueAssumption, PlaceAssumption
  <2>3. Showing[t][x] = p /\ View[t][x] = v
    BY <1>4, <1>5, <1>7, Now
  <2>4. ReadingNow[t] = Reads(t) /\ t \notin Busy
    BY <1>1, Now DEF Busy
  <2>5. Reads(t).frame = buffer[t].frame /\ Reads(t).val = buffer[t].val
    BY <1>8
  <2> HIDE DEF v
  <2> QED
    BY <2>1, <2>2, <2>3, <2>4, <2>5
<1>13. Size[v] = Size[buffer[t].val[p]]
  BY <1>1, <1>6
<1> HIDE DEF v
<1>14. Abstract!Commit(t, x)
  BY <1>2, <1>6, <1>9, <1>11, <1>12, <1>13
  DEF Abstract!Commit, Busy, ReadingNow, Showing, View, Reads, Seeing
<1> QED
  BY <1>4, <1>14

ShowsBound ==
    \A t \in Thread, x \in Target :
        /\ Unbound(t, x) <=> Shows(t, x) = None
        /\ \A p \in DOMAIN handles : bound[t][handles[p]] = x => Shows(t, x) = p

LEMMA ShowsNow == RefineInv => ShowsBound
BY ShowsFacts DEF ShowsBound

\* The target shows the field it is bound to now, and the one bound before it
\* shows none.
LEMMA BindMaps ==
    ASSUME RefineInv, RefineInv', NEW t \in Thread, NEW p \in DOMAIN handles, NEW x \in Target,
           Bind(t, p, x), \A u \in Thread : u # t => Same(u)
    PROVE  Abstract!Bind(t, p, x)
<1> DEFINE i == handles[p]
<1>1. /\ finalized /\ Idle(t) /\ \A j \in Index \ {i} : bound[t][j] # x
      /\ handles' = handles /\ finalized' = finalized /\ buffer' = buffer /\ stack' = stack
      /\ hit' = hit /\ shown' = shown /\ bound' = [bound EXCEPT ![t][i] = x]
  BY DEF Bind, trieVars
<1>2. i \in Index /\ p # None
  BY HandleFacts DEF RefineInv, UseInv
<1>3. \A j \in Index : bound'[t][j] = IF j = i THEN x ELSE bound[t][j]
  <2>1. bound \in [Thread -> [Index -> Target \cup {None}]]
    BY DEF RefineInv, UseInv, Shapes
  <2> HIDE DEF i
  <2> QED
    BY <1>1, <2>1
<1>4. \A y \in Target :
        /\ (Unbound(t, y) <=> Shows(t, y) = None)'
        /\ (\A q \in DOMAIN handles : bound[t][handles[q]] = y => Shows(t, y) = q)'
  <2>1. ShowsBound'
    BY ShowsNow, PTL
  <2> QED
    BY <2>1 DEF ShowsBound
<1>5. ASSUME NEW y \in Target
      PROVE  Shows(t, y)' = IF y = x THEN p ELSE IF Shows(t, y) = p THEN None ELSE Shows(t, y)
  <2>1. CASE y = x
    <3>1. bound'[t][handles'[p]] = y
      BY <1>1, <1>2, <1>3, <2>1
    <3> QED
      BY <1>1, <1>4, <2>1, <3>1
  <2>2. CASE y # x /\ Shows(t, y) = p
    <3>1. bound[t][i] = y
      BY <1>2, <2>2, ShowsFacts
    <3>2. \A j \in Index : bound[t][j] = y => j = i
      BY <1>2, <3>1, NoneAssumption DEF RefineInv, WalkInv, Bindings, NoneAssumption
    <3>3. \A j \in Index : bound'[t][j] # y
      BY <1>3, <2>2, <3>2
    <3>4. Unbound(t, y)'
      BY <3>3 DEF Unbound
    <3> QED
      BY <1>4, <2>2, <3>4
  <2>3. CASE y # x /\ Shows(t, y) # p
    <3>1. bound[t][i] # y
      BY <2>3, ShowsFacts
    <3>2. \A j \in Index : bound'[t][j] = y <=> bound[t][j] = y
      BY <1>3, <2>3, <3>1
    <3>3. Unbound(t, y)' <=> Unbound(t, y)
      BY <3>2 DEF Unbound
    <3>4. CASE Unbound(t, y)
      BY <1>4, <2>3, <3>3, <3>4, ShowsFacts
    <3>5. CASE ~Unbound(t, y)
      <4> DEFINE q == Shows(t, y)
      <4>1. q \in DOMAIN handles /\ bound[t][handles[q]] = y
        BY <3>5, ShowsFacts
      <4>2. handles[q] \in Index
        BY <4>1, HandleFacts DEF RefineInv, UseInv
      <4>3. q \in DOMAIN handles' /\ bound'[t][handles'[q]] = y
        BY <1>1, <3>2, <4>1, <4>2
      <4> HIDE DEF q
      <4>4. Shows(t, y)' = q
        BY <1>4, <4>3
      <4> QED
        BY <2>3, <4>4 DEF q
    <3> QED
      BY <3>4, <3>5
  <2> QED
    BY <2>1, <2>2, <2>3
<1>6. /\ Reads(t)' = Reads(t) /\ (Idle(t)' <=> Idle(t))
      /\ \A y \in Target : Seeing(t, y)' = Seeing(t, y)
  BY <1>1 DEF Reads, Idle, Seeing
<1>7. ReadingNow' = ReadingNow /\ View' = View /\ Busy' = Busy
  <2>1. Busy' = Busy
    BY <1>6 DEF Busy, Same
  <2> QED
    BY <1>6, <2>1, SameReading, SameView
<1> DEFINE shows == [y \in Target |-> IF y = x THEN p
                                     ELSE IF Showing[t][y] = p THEN None ELSE Showing[t][y]]
<1>8. Showing' = [Showing EXCEPT ![t] = shows]
  <2>1. \A y \in Target : Showing'[t][y] = shows[y]
    BY <1>5, Now
  <2>2. Showing'[t] = shows
    BY <2>1, Now
  <2>3. \A u \in Thread : u # t => \A y \in Target : Showing'[u][y] = Showing[u][y]
    <3>1. ASSUME NEW u \in Thread, u # t, NEW y \in Target PROVE Shows(u, y)' = Shows(u, y)
      BY <3>1 DEF Same
    <3> QED
      BY <3>1, Now
  <2>4. \A u \in Thread : u # t => Showing'[u] = Showing[u]
    BY <2>3, Now
  <2> HIDE DEF shows
  <2> QED
    BY <2>2, <2>4, Now, Changed
<1>9. t \notin Busy
  BY <1>1 DEF Busy
<1> QED
  BY <1>1, <1>7, <1>8, <1>9
  DEF Abstract!Bind, Busy, ReadingNow, Showing, View, Reads, Seeing

\* Before the trie is sealed, nothing is bound and nothing read.
LEMMA BuildMaps ==
    ASSUME RefineInv, Build
    PROVE  Abstract!Next \/ UNCHANGED Abstract!vars
<1>1. ~finalized /\ threadVars' = threadVars
  BY DEF Build, AddPath, AddThrows, AddInterior, AddLeaf, Finalize, RefineInv, UseInv, Settled
<1>2. /\ bound' = bound /\ buffer' = buffer /\ stack' = stack /\ hit' = hit /\ shown' = shown
      /\ \A t \in Thread : \A i \in Index : bound[t][i] = None
  BY <1>1 DEF threadVars, RefineInv, WalkInv, Bindings
<1>3. ASSUME NEW t \in Thread PROVE Same(t)
  <2>1. \A x \in Target : Unbound(t, x) /\ Unbound(t, x)'
    BY <1>2, NoneAssumption DEF Unbound, NoneAssumption
  <2>2. \A x \in Target : Shows(t, x) = None /\ Shows(t, x)' = None
    BY <2>1 DEF Shows
  <2> QED
    BY <1>2, <2>1, <2>2 DEF Same, Reads, Idle, Seeing
<1>4. /\ ReadingNow' = ReadingNow /\ Busy' = Busy /\ Showing' = Showing /\ View' = View
  <2>1. \A t \in Thread : Reads(t)' = Reads(t) /\ (Idle(t)' <=> Idle(t))
    BY <1>3 DEF Same
  <2>2. \A t \in Thread : \A x \in Target : Shows(t, x)' = Shows(t, x)
    BY <1>3 DEF Same
  <2>3. \A t \in Thread : \A x \in Target : Seeing(t, x)' = Seeing(t, x)
    BY <1>3 DEF Same
  <2> QED
    BY <2>1, <2>2, <2>3 DEF ReadingNow, Busy, Showing, View
<1>5. CASE AddLeaf
  <2>1. PICK p \in Field : p = adding.path
    BY <1>5 DEF AddLeaf
  <2>2. DOMAIN handles' = DOMAIN handles \cup {p} /\ finalized' = finalized
    BY <1>5, <2>1 DEF AddLeaf
  <2>3. Abstract!Register(p)
    BY <1>1, <1>4, <2>2
    DEF Abstract!Register, Busy, ReadingNow, Showing, View, Reads, Seeing
  <2> QED
    BY <2>3 DEF Abstract!Next
<1>6. CASE Finalize
  <2>1. handles' = handles /\ finalized' = TRUE
    BY <1>6 DEF Finalize
  <2>2. Abstract!Seal
    BY <1>1, <1>4, <2>1
    DEF Abstract!Seal, Busy, ReadingNow, Showing, View, Reads, Seeing
  <2> QED
    BY <2>2 DEF Abstract!Next
<1>7. CASE ~AddLeaf /\ ~Finalize
  <2>1. handles' = handles /\ finalized' = finalized
    BY <1>7 DEF Build, AddPath, AddThrows, AddInterior
  <2> QED
    BY <1>3, <2>1, AbstractStutter
<1> QED
  BY <1>5, <1>6, <1>7

\* A walk is one step of Projection, taken when the outermost call returns.
LEMMA WalkMaps ==
    ASSUME FieldsOnce, DistinctTags, RefineInv, NEW t \in Thread, Walk(t)
    PROVE  Abstract!Next \/ UNCHANGED Abstract!vars
<1>1. ~Idle(t) /\ UNCHANGED <<trieVars, bound, buffer>>
  BY DEF Walk, SkipTLV, MeetLeaf, Enter, Return
<1>2. handles' = handles /\ finalized' = finalized /\ bound' = bound /\ buffer' = buffer
  BY <1>1 DEF trieVars
<1>3. ASSUME NEW u \in Thread, u # t PROVE Same(u)
  <2>1. stack'[u] = stack[u] /\ hit'[u] = hit[u] /\ shown'[u] = shown[u]
    BY <1>3, WalkTouchesOwn DEF RefineInv, UseInv, Untouched
  <2>2. Idle(u)' <=> Idle(u)
    BY <2>1 DEF Idle
  <2> QED
    BY <1>2, <2>1, <2>2, SameIfUntouched
<1>4. CASE Return(t) /\ Front(stack[t]) = <<>>
  <2>1. Abstract!End(t)
    BY <1>3, <1>4, EndMaps
  <2> QED
    BY <2>1 DEF Abstract!Next
<1>5. CASE ~(Return(t) /\ Front(stack[t]) = <<>>)
  <2>1. ~Idle(t)'
    <3>1. CASE SkipTLV(t) \/ MeetLeaf(t)
      <4>1. stack'[t] = Advanced(t)
        BY <3>1 DEF SkipTLV, MeetLeaf, RefineInv, UseInv, Shapes
      <4>2. Len(Advanced(t)) # 0
        BY <1>1, AdvancedFacts DEF RefineInv
      <4> QED
        BY <4>1, <4>2 DEF Idle
    <3>2. CASE Enter(t)
      <4>1. PICK v : stack'[t] = Append(Advanced(t), v)
        BY <3>2 DEF Enter, RefineInv, UseInv, Shapes
      <4>2. Advanced(t) \in Seq(Call)
        BY <1>1, AdvancedFacts DEF RefineInv
      <4>3. stack'[t] # <<>>
        BY <4>1, <4>2
      <4> QED
        BY <4>3 DEF Idle
    <3>3. CASE Return(t)
      <4>1. stack'[t] = Front(stack[t])
        BY <3>3 DEF Return, RefineInv, UseInv, Shapes
      <4> QED
        BY <1>5, <3>3, <4>1 DEF Idle
    <3> QED
      BY <3>1, <3>2, <3>3 DEF Walk
  <2>2. \A x \in Target : Shows(t, x)' = Shows(t, x) /\ (Unbound(t, x)' <=> Unbound(t, x))
    BY <1>2 DEF Shows, Unbound
  <2>3. ASSUME NEW x \in Target PROVE Seeing(t, x)' = Seeing(t, x)
    <3>1. CASE Unbound(t, x)
      <4>1. (x \in hit'[t] <=> x \in hit[t]) /\ shown'[t][x] = shown[t][x]
        <5>1. CASE MeetLeaf(t)
          <6> DEFINE c == Members(t, Top(t).at)[Top(t).next]
                     i == nodes[TheMatch(Top(t).node, TagOf[c])].index
                     y == bound[t][i]
                     v == buffer[t].val[c]
          <6>1. /\ Continues(t) /\ Matching(Top(t).node, TagOf[c]) # {} /\ i # 0
                /\ hit' = IF y = None THEN hit
                          ELSE [hit EXCEPT ![t] = IF v \in Bad THEN @ \ {y} ELSE @ \cup {y}]
                /\ shown' = IF y = None \/ v \in Bad THEN shown ELSE [shown EXCEPT ![t][y] = v]
            BY <5>1 DEF MeetLeaf
          <6>2. y # x
            <7>1. i \in Index
              BY <5>1, LeafIndex DEF RefineInv
            <7> QED
              BY <3>1, <7>1 DEF Unbound
          <6>3. hit \in [Thread -> SUBSET Target] /\ shown \in [Thread -> [Target -> MaybeValue]]
            BY DEF RefineInv, UseInv, Shapes
          <6> HIDE DEF y, v
          <6> QED
            BY <6>1, <6>2, <6>3
        <5>2. CASE ~MeetLeaf(t)
          BY <5>2 DEF Walk, SkipTLV, Enter, Return
        <5> QED
          BY <5>1, <5>2
      <4> QED
        BY <2>2, <3>1, <4>1 DEF Seeing
    <3>2. CASE ~Unbound(t, x)
      BY <1>1, <2>1, <2>2, <3>2 DEF Seeing
    <3> QED
      BY <3>1, <3>2
  <2>4. Same(t)
    BY <1>1, <1>2, <2>1, <2>2, <2>3 DEF Same, Reads
  <2>5. \A u \in Thread : Same(u)
    BY <1>3, <2>4
  <2> QED
    BY <1>2, <2>5, AbstractStutter
<1> QED
  BY <1>4, <1>5

LEMMA UseMaps ==
    ASSUME RefineInv, RefineInv', NEW t \in Thread, Use(t)
    PROVE  Abstract!Next
<1>1. ASSUME NEW u \in Thread, u # t PROVE Same(u)
  <2>1. /\ handles' = handles /\ buffer'[u] = buffer[u] /\ bound'[u] = bound[u]
        /\ stack'[u] = stack[u] /\ hit'[u] = hit[u] /\ shown'[u] = shown[u]
    BY <1>1, UseTouchesOwn DEF trieVars, RefineInv, UseInv, Untouched
  <2>2. Idle(u)' <=> Idle(u)
    BY <2>1 DEF Idle
  <2> QED
    BY <2>1, <2>2, SameIfUntouched
<1>2. CASE \E p \in DOMAIN handles, x \in Target : Bind(t, p, x) \/ Load(t, p, x)
  <2>1. PICK p \in DOMAIN handles, x \in Target : Bind(t, p, x) \/ Load(t, p, x)
    BY <1>2
  <2>2. Abstract!Bind(t, p, x) \/ Abstract!Load(t, p, x)
    BY <1>1, <2>1, BindMaps, LoadMaps
  <2> QED
    BY <2>2 DEF Abstract!Next
<1>3. CASE \E f \in Frame, rw \in BOOLEAN : Apply(t, f, Content[f], rw)
  <2>1. PICK f \in Frame, rw \in BOOLEAN : Apply(t, f, Content[f], rw)
    BY <1>3
  <2>2. Content[f] \in [Sent -> Value]
    BY FrameAssumption DEF FrameAssumption
  <2>3. Abstract!Begin(t, f, Content[f])
    BY <1>1, <2>1, <2>2, BeginMaps
  <2> QED
    BY <2>3 DEF Abstract!Next
<1>4. CASE buffer[t] # None /\ \E rw \in BOOLEAN : Apply(t, buffer[t].frame, buffer[t].val, rw)
  <2>1. buffer[t] \in Reading /\ buffer[t] # None
    BY <1>4 DEF RefineInv, UseInv, Shapes
  <2>2. PICK f \in Frame, v \in [Sent -> Value] : f = buffer[t].frame /\ v = buffer[t].val
    BY <2>1 DEF Reading
  <2>3. PICK rw \in BOOLEAN : Apply(t, f, v, rw)
    BY <1>4, <2>2
  <2>4. Abstract!Begin(t, f, v)
    BY <1>1, <2>3, BeginMaps
  <2>5. ReadingNow[t] # None /\ ReadingNow[t].frame = f /\ ReadingNow[t].val = v
    <3>1. Reads(t) = [frame |-> f, val |-> v]
      BY <2>1, <2>2 DEF Reads
    <3>2. Reads(t) # None
      BY <3>1, NoneAssumption DEF NoneAssumption
    <3> QED
      BY <3>1, <3>2, Now
  <2> QED
    BY <2>4, <2>5 DEF Abstract!Next, Abstract!Begin, ReadingNow, Reads
<1>5. CASE \E x \in Target, v \in Value \ Bad : Modify(t, x, v)
  <2>1. PICK x \in Target, v \in Value \ Bad : Modify(t, x, v)
    BY <1>5
  <2>2. Abstract!Modify(t, x, v)
    BY <1>1, <2>1, ModifyMaps
  <2> QED
    BY <2>2 DEF Abstract!Next
<1>6. CASE \E p \in DOMAIN handles : Commit(t, p)
  <2>1. PICK p \in DOMAIN handles : Commit(t, p)
    BY <1>6
  <2>2. PICK x : x = bound[t][handles[p]]
    OBVIOUS
  <2>3. x \in Target /\ Abstract!Commit(t, x)
    BY <1>1, <2>1, <2>2, CommitMaps
  <2> QED
    BY <2>3 DEF Abstract!Next
<1> QED
  BY <1>2, <1>3, <1>4, <1>5, <1>6 DEF Use

\* Every thread sees exactly the fields of its own frames: what the targets show
\* after an apply or a load are the fields they are bound to, of the frame last
\* applied, each from its own place, whatever the other threads do and however
\* deep the walk was when it stopped.
THEOREM EveryThreadSeesItsFrame ==
    ASSUME FieldsOnce, DistinctTags
    PROVE  Spec => Implements
<1>1. Init => RefineInv /\ Abstract!Init
  BY RefineStart, AbstractStart
<1>2. RefineInv /\ [Next]_vars => RefineInv'
  BY RefineStep
<1>3. RefineInv /\ RefineInv' /\ [Next]_vars => [Abstract!Next]_(Abstract!vars)
  <2>1. ASSUME RefineInv, UNCHANGED vars PROVE UNCHANGED Abstract!vars
    <3>1. UNCHANGED <<handles, finalized, buffer, bound, hit, shown, stack>>
      BY <2>1 DEF vars, trieVars, threadVars
    <3>2. \A u \in Thread : Idle(u)' <=> Idle(u)
      BY <3>1 DEF Idle
    <3>3. \A u \in Thread : Same(u)
      BY <3>1, <3>2, SameIfUntouched
    <3> QED
      BY <3>1, <3>3, AbstractStutter
  <2> QED
    BY <2>1, BuildMaps, WalkMaps, UseMaps DEF Next
<1> QED
  BY <1>1, <1>2, <1>3, PTL DEF Spec, Implements, Abstract!Spec

=============================================================================
