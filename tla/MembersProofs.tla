---------------------------- MODULE MembersProofs ----------------------------
(***************************************************************************)
(* The four decoders read what the four encoders mean, for any table of    *)
(* members, any lists and any number of changes to a message.              *)
(*                                                                         *)
(* What a message says does not depend on the order of its items, only on  *)
(* the set of them; each decoder is shown to accept the sets that are      *)
(* complete and undamaged, and to make of them what they say.              *)
(***************************************************************************)
EXTENDS Members, SequenceTheorems, FiniteSetTheorems, WellFoundedInduction, TLAPS

\* Induction, with the set of the numbers that have the property.
LEMMA Inductive ==
    ASSUME NEW S, 0 \in S, \A n \in Nat : n \in S => n + 1 \in S
    PROVE  Nat \subseteq S
<1> DEFINE R == {p \in Nat \X Nat : p[1] < p[2]}
           T == Nat \ S
<1>1. OpToRel(<, Nat) = R
  BY DEF OpToRel
<1>2. IsWellFoundedOn(R, Nat)
  BY <1>1, NatLessThanWellFounded
<1>3. \A a, b \in Nat : a < b => <<a, b>> \in R
  OBVIOUS
<1>4. SUFFICES ASSUME T # {} PROVE FALSE
  OBVIOUS
<1>5. T \subseteq Nat
  OBVIOUS
<1> HIDE DEF R
<1>6. PICK k \in T : \A j \in T : ~(<<j, k>> \in R)
  BY <1>2, <1>4, <1>5, WFMin
<1>7. k # 0 /\ k \in Nat /\ k - 1 \in Nat
  BY <1>6
<1>8. k - 1 \in S
  <2>1. k - 1 < k
    BY <1>7
  <2>2. <<k - 1, k>> \in R
    BY <1>3, <1>7, <2>1
  <2> QED
    BY <1>6, <1>7, <2>2
<1>9. (k - 1) + 1 \in S
  BY <1>7, <1>8
<1> QED
  BY <1>6, <1>7, <1>9

-----------------------------------------------------------------------------
(* Sequences put in order.                                                 *)

LEMMA Places ==
    ASSUME NEW n \in Nat, NEW rank \in [1..n -> Nat]
    PROVE  /\ \A i \in 1..n : Place(rank, i) \in 1..n
           /\ \A i, j \in 1..n :
                 rank[i] < rank[j] \/ (rank[i] = rank[j] /\ i < j) => Place(rank, i) < Place(rank, j)
           /\ \A i, j \in 1..n : Place(rank, i) = Place(rank, j) => i = j
           /\ \A k \in 1..n : \E i \in 1..n : Place(rank, i) = k
<1> DEFINE Below(i) == {j \in 1..n : rank[j] < rank[i] \/ (rank[j] = rank[i] /\ j <= i)}
           Before(i, j) == rank[i] < rank[j] \/ (rank[i] = rank[j] /\ i < j)
<1>1. IsFiniteSet(1..n) /\ Cardinality(1..n) = n
  BY FS_Interval
<1>2. ASSUME NEW i \in 1..n
      PROVE  /\ IsFiniteSet(Below(i)) /\ i \in Below(i)
             /\ Place(rank, i) = Cardinality(Below(i)) /\ Place(rank, i) \in 1..n
  <2>1. Below(i) \in SUBSET (1..n)
    OBVIOUS
  <2>2. IsFiniteSet(Below(i)) /\ Cardinality(Below(i)) <= n
    BY <1>1, <2>1, FS_Subset
  <2>3. i \in Below(i)
    OBVIOUS
  <2>4. Place(rank, i) = Cardinality(Below(i))
    BY DEF Place
  <2>5. Cardinality(Below(i)) \in Nat /\ Cardinality(Below(i)) # 0
    BY <2>2, <2>3, FS_CardinalityType, FS_EmptySet
  <2> HIDE DEF Below
  <2> QED
    BY <2>2, <2>3, <2>4, <2>5
<1>3. ASSUME NEW i \in 1..n, NEW j \in 1..n, Before(i, j)
      PROVE  Place(rank, i) < Place(rank, j)
  <2>1. Below(i) \in SUBSET (Below(j) \ {j})
    BY <1>3
  <2>2. IsFiniteSet(Below(j) \ {j}) /\ Cardinality(Below(j) \ {j}) = Cardinality(Below(j)) - 1
    BY <1>2, FS_RemoveElement
  <2>3. Cardinality(Below(i)) <= Cardinality(Below(j) \ {j})
    BY <2>1, <2>2, FS_Subset
  <2> HIDE DEF Below
  <2> QED
    BY <1>2, <2>2, <2>3
<1>4. ASSUME NEW i \in 1..n, NEW j \in 1..n, i # j
      PROVE  Before(i, j) \/ Before(j, i)
  BY <1>4
<1>5. \A i, j \in 1..n : Place(rank, i) = Place(rank, j) => i = j
  <2> HIDE DEF Before, Below
  <2> SUFFICES ASSUME NEW i \in 1..n, NEW j \in 1..n, i # j PROVE Place(rank, i) # Place(rank, j)
    OBVIOUS
  <2>1. Place(rank, i) < Place(rank, j) \/ Place(rank, j) < Place(rank, i)
    BY <1>3, <1>4
  <2> QED
    BY <1>2, <2>1
<1>6. \A k \in 1..n : \E i \in 1..n : Place(rank, i) = k
  <2> DEFINE f == [i \in 1..n |-> Place(rank, i)]
  <2>1. f \in Injection(1..n, 1..n)
    <3> HIDE DEF Below
    <3> QED
      BY <1>2, <1>5 DEF Injection, IsInjective
  <2>2. f \in Surjection(1..n, 1..n)
    <3> HIDE DEF f
    <3> QED
      BY <1>1, <2>1, FS_Injection
  <2> QED
    BY <2>2 DEF Surjection
<1> QED
  BY <1>2, <1>3, <1>5, <1>6

\* Where the k-th of a sequence in order was.
Origin(rank) == [k \in DOMAIN rank |-> CHOOSE i \in DOMAIN rank : Place(rank, i) = k]

LEMMA Origins ==
    ASSUME NEW n \in Nat, NEW rank \in [1..n -> Nat]
    PROVE  /\ Origin(rank) \in [1..n -> 1..n]
           /\ \A k, l \in 1..n :
                 k < l => \/ rank[Origin(rank)[k]] < rank[Origin(rank)[l]]
                          \/ /\ rank[Origin(rank)[k]] = rank[Origin(rank)[l]]
                             /\ Origin(rank)[k] < Origin(rank)[l]
           /\ \A i \in 1..n : \E k \in 1..n : Origin(rank)[k] = i
<1> DEFINE at == Origin(rank)
<1>1. DOMAIN rank = 1..n
  OBVIOUS
<1>2. /\ \A i \in 1..n : Place(rank, i) \in 1..n
      /\ \A i, j \in 1..n :
            rank[i] < rank[j] \/ (rank[i] = rank[j] /\ i < j) => Place(rank, i) < Place(rank, j)
      /\ \A i, j \in 1..n : Place(rank, i) = Place(rank, j) => i = j
      /\ \A k \in 1..n : \E i \in 1..n : Place(rank, i) = k
  BY Places
<1>3. \A k \in 1..n : at[k] \in 1..n /\ Place(rank, at[k]) = k
  BY <1>1, <1>2 DEF Origin
<1>4. at \in [1..n -> 1..n]
  BY <1>1, <1>3 DEF Origin
<1> HIDE DEF at
<1>7. ASSUME NEW k \in 1..n, NEW l \in 1..n, k < l
      PROVE  \/ rank[at[k]] < rank[at[l]]
             \/ rank[at[k]] = rank[at[l]] /\ at[k] < at[l]
  <2>1. rank[at[k]] \in Nat /\ rank[at[l]] \in Nat /\ at[k] \in 1..n /\ at[l] \in 1..n
    BY <1>3
  <2>2. /\ k \in Int /\ l \in Int
        /\ Place(rank, at[k]) = k /\ Place(rank, at[l]) = l
    BY <1>1, <1>3
  <2>3. \/ rank[at[k]] < rank[at[l]]
        \/ rank[at[k]] = rank[at[l]] /\ at[k] < at[l]
        \/ at[k] = at[l]
        \/ rank[at[l]] < rank[at[k]]
        \/ rank[at[l]] = rank[at[k]] /\ at[l] < at[k]
    BY <1>1, <2>1
  <2>4. ~(l < k) /\ k # l
    BY <1>1, <1>7
  <2>5. Place(rank, at[l]) # Place(rank, at[k]) /\ ~(Place(rank, at[l]) < Place(rank, at[k]))
    BY <2>2, <2>4
  <2>6. /\ rank[at[l]] < rank[at[k]] \/ (rank[at[l]] = rank[at[k]] /\ at[l] < at[k])
           => Place(rank, at[l]) < Place(rank, at[k])
    BY <1>2, <2>1
  <2> QED
    BY <2>3, <2>5, <2>6
<1>8. \A i \in 1..n : \E k \in 1..n : at[k] = i
  <2> TAKE i \in 1..n
  <2>1. PICK k \in 1..n : k = Place(rank, i)
    BY <1>2
  <2>2. at[k] \in 1..n /\ Place(rank, at[k]) = Place(rank, i)
    BY <1>3, <2>1
  <2> QED
    BY <1>2, <2>2
<1> QED
  BY <1>4, <1>7, <1>8 DEF at

LEMMA ArrangedFacts ==
    ASSUME NEW X, NEW s \in Seq(X), NEW rank \in [1..Len(s) -> Nat]
    PROVE  /\ Arranged(s, rank) \in Seq(X) /\ Len(Arranged(s, rank)) = Len(s)
           /\ \A k \in 1..Len(s) : Arranged(s, rank)[k] = s[Origin(rank)[k]]
<1> DEFINE n == Len(s)
           w == Arranged(s, rank)
           at == Origin(rank)
<1>1. n \in Nat /\ DOMAIN s = 1..n /\ \A i \in 1..n : s[i] \in X
  BY LenProperties, ElementOfSeq
<1>2. DOMAIN rank = 1..n
  OBVIOUS
<1>3. w = [k \in 1..n |-> s[at[k]]]
  BY <1>1, <1>2 DEF Arranged, Origin
<1>4. at \in [1..n -> 1..n]
  <2> HIDE DEF n
  <2>1. rank \in [1..n -> Nat]
    BY DEF n
  <2> QED
    BY <1>1, <2>1, Origins
<1> HIDE DEF at, w, n
<1>5. w \in [1..n -> X]
  BY <1>1, <1>3, <1>4
<1>6. w \in Seq(X) /\ Len(w) = n
  BY <1>1, <1>5
<1> QED
  BY <1>3, <1>6 DEF w, n, at

\* The same items, in another order.
LEMMA ArrangedKeeps ==
    ASSUME NEW X, NEW s \in Seq(X), NEW rank \in [1..Len(s) -> Nat]
    PROVE  ToSet(Arranged(s, rank)) = ToSet(s)
<1> DEFINE w == Arranged(s, rank)
           at == Origin(rank)
           n == Len(s)
<1>1. w \in Seq(X) /\ Len(w) = n /\ \A k \in 1..n : w[k] = s[at[k]]
  BY ArrangedFacts
<1>2. n \in Nat /\ DOMAIN s = 1..n /\ DOMAIN w = 1..n
  BY <1>1, LenProperties
<1>3. at \in [1..n -> 1..n] /\ \A i \in 1..n : \E k \in 1..n : at[k] = i
  <2> HIDE DEF n
  <2>1. rank \in [1..n -> Nat]
    BY DEF n
  <2> QED
    BY <1>2, <2>1, Origins
<1> HIDE DEF w, at, n
<1>4. ToSet(w) = {w[k] : k \in 1..n} /\ ToSet(s) = {s[k] : k \in 1..n}
  BY <1>2 DEF ToSet
<1>5. ASSUME NEW k \in 1..n PROVE w[k] \in {s[i] : i \in 1..n}
  BY <1>1, <1>3
<1>6. ASSUME NEW i \in 1..n PROVE s[i] \in {w[k] : k \in 1..n}
  BY <1>1, <1>3
<1> QED
  BY <1>4, <1>5, <1>6 DEF w

LEMMA OrderedStays ==
    ASSUME NEW w \in Seq(Nat), \A k, l \in 1..Len(w) : k < l => w[k] <= w[l]
    PROVE  Bag(w) = w
<1> DEFINE n == Len(w)
<1>1. n \in Nat /\ DOMAIN w = 1..n /\ \A i \in 1..n : w[i] \in Nat
  BY LenProperties, ElementOfSeq
<1>2. ASSUME NEW i \in 1..n PROVE Place(w, i) = i
  <2>1. {j \in DOMAIN w : w[j] < w[i] \/ (w[j] = w[i] /\ j <= i)} = 1..i
    <3>1. ASSUME NEW j \in 1..n PROVE (w[j] < w[i] \/ (w[j] = w[i] /\ j <= i)) <=> j <= i
      <4>1. w[i] \in Nat /\ w[j] \in Nat /\ (i < j => w[i] <= w[j]) /\ (j < i => w[j] <= w[i])
        BY <1>1
      <4> HIDE DEF n
      <4> QED
        BY <4>1, <1>1
    <3>2. 1..i \subseteq 1..n
      BY <1>1
    <3> HIDE DEF n
    <3> QED
      BY <1>1, <3>1, <3>2
  <2>2. Cardinality(1..i) = i
    BY <1>1, FS_Interval
  <2> QED
    BY <2>1, <2>2 DEF Place
<1>3. Bag(w) = [k \in 1..n |-> w[k]]
  <2> DEFINE at == [k \in DOMAIN w |-> CHOOSE i \in DOMAIN w : Place(w, i) = k]
  <2>1. Bag(w) = [k \in DOMAIN w |-> w[at[k]]]
    BY DEF Bag, Arranged
  <2>2. \A k \in DOMAIN w : at[k] = k
    BY <1>1, <1>2
  <2> HIDE DEF n, at
  <2> QED
    BY <1>1, <2>1, <2>2
<1> QED
  BY <1>1, <1>3

LEMMA SeqWithin ==
    ASSUME NEW X, NEW Y, X \subseteq Y, NEW s \in Seq(X)
    PROVE  s \in Seq(Y) /\ s \in [1..Len(s) -> Y] /\ Len(s) \in Nat
<1>1. s \in [1..Len(s) -> X] /\ Len(s) \in Nat
  BY LenProperties
<1>2. s \in [1..Len(s) -> Y]
  BY <1>1
<1> QED
  BY <1>1, <1>2, IsASeq

\* Sorting a SET OF value once is enough.
LEMMA BagFacts ==
    ASSUME NEW X \in SUBSET Nat, NEW v \in Seq(X)
    PROVE  Bag(v) \in Seq(X) /\ Bag(Bag(v)) = Bag(v)
<1>1. v \in Seq(Nat) /\ v \in [1..Len(v) -> Nat] /\ Len(v) \in Nat
  BY SeqWithin
<1> DEFINE w == Bag(v)
<1>2. w \in Seq(X) /\ Len(w) = Len(v) /\ \A k \in 1..Len(v) : w[k] = v[Origin(v)[k]]
  BY <1>1, ArrangedFacts DEF Bag
<1>3. /\ Origin(v) \in [1..Len(v) -> 1..Len(v)]
      /\ \A k, l \in 1..Len(v) :
            k < l => v[Origin(v)[k]] < v[Origin(v)[l]] \/ v[Origin(v)[k]] = v[Origin(v)[l]]
  <2> DEFINE l == Len(v)
  <2>1. l \in Nat /\ v \in [1..l -> Nat]
    BY <1>1
  <2> HIDE DEF l, w
  <2> DEFINE o == Origin(v)
  <2>2. /\ o \in [1..l -> 1..l]
        /\ \A j, k \in 1..l :
              j < k => v[o[j]] < v[o[k]] \/ (v[o[j]] = v[o[k]] /\ o[j] < o[k])
        /\ \A a \in 1..l : \E k \in 1..l : o[k] = a
    BY <2>1, Origins, Zenon
  <2> HIDE DEF o
  <2>3. /\ o \in [1..l -> 1..l]
        /\ \A j, k \in 1..l : j < k => v[o[j]] < v[o[k]] \/ v[o[j]] = v[o[k]]
    BY <2>2
  <2>4. /\ Origin(v) \in [1..l -> 1..l]
        /\ \A j, k \in 1..l :
              j < k => v[Origin(v)[j]] < v[Origin(v)[k]] \/ v[Origin(v)[j]] = v[Origin(v)[k]]
    BY <2>3 DEF o
  <2> QED
    BY <2>4 DEF l
<1> HIDE DEF w
<1>4. w \in Seq(Nat) /\ \A k, l \in 1..Len(w) : k < l => w[k] <= w[l]
  <2>1. w \in Seq(Nat)
    BY <1>2, SeqWithin
  <2>2. ASSUME NEW k \in 1..Len(w), NEW l \in 1..Len(w), k < l PROVE w[k] <= w[l]
    <3>1. w[k] \in Nat /\ w[l] \in Nat
      BY <2>1, ElementOfSeq
    <3>2. w[k] < w[l] \/ w[k] = w[l]
      BY <1>2, <1>3, <2>2
    <3> QED
      BY <3>1, <3>2
  <2> QED
    BY <2>1, <2>2
<1>5. Bag(w) = w
  BY <1>4, OrderedStays
<1> QED
  BY <1>2, <1>5 DEF w

-----------------------------------------------------------------------------
(* What a message says.                                                    *)

AnyScalar == UNION {Scalar[m] : m \in Member \ List}
AnyValue == AnyScalar \cup Seq(Elem) \cup {Absent}

\* An item as it may be on the wire, damaged or not.
Item ==
    {x \in [id : Member \cup {Foreign},
            val : AnyScalar \cup Seq(Elem \cup {Broken}) \cup {Broken, Null}] :
        \/ x.val = Broken
        \/ x.val = Null /\ x.id \notin Nullable
        \/ x.id \in List /\ x.val \in Seq(Elem \cup {Broken})
        \/ x.id \in Member \ List /\ x.val \in Scalar[x.id]}

Message == [rule : Rules, items : Seq(Item), meant : [Member -> AnyValue],
            sound : BOOLEAN, edits : Nat]

\* No member comes twice.
Once(items) == \A i, j \in 1..Len(items) : items[i].id = items[j].id => i = j

\* The items go by the table, additions last.
Rank(x) == IF x.id \in Member THEN x.id ELSE N + 1
InOrder(items) == \A i, j \in 1..Len(items) : i < j => Rank(items[i]) < Rank(items[j])

Undamaged(m, v) == v # Broken /\ (v = Null => m \in Nullable) /\ (m \in List => ~HasBad(v))

\* A decoder takes an item; JSON has null for an absent member.
Takes(r, x) == Undamaged(x.id, x.val) \/ (r = "jer" /\ x.id \in Optional /\ x.val = Null)

\* Messages that are complete and undamaged.
Acceptable(r, all) ==
    /\ \A m \in Member \ Optional : \E x \in all : x.id = m
    /\ \A x \in all : x.id \in Member => Takes(r, x)

Says(x) == IF x.val = Null /\ x.id \notin Nullable THEN DefaultOrAbsent(x.id) ELSE x.val

\* The items, and what is not among them, are what was meant.
Conveys(all, meant) ==
    \A m \in Member :
        /\ \A x \in all : x.id = m => Same(m, Says(x), meant[m])
        /\ (\A x \in all : x.id # m) => Same(m, DefaultOrAbsent(m), meant[m])

\* What the items have to do with what was meant.
Fits(r, items, meant, sound) ==
    /\ Once(items)
    /\ r \in {"per", "xer"} \/ (r = "ber" /\ ~IsSet) => InOrder(items)
    /\ r \in {"per", "xer"} => \A x \in ToSet(items) : x.id # Foreign
    /\ sound = Acceptable(r, ToSet(items))
    /\ sound => Conveys(ToSet(items), meant)

Wire(q) == Fits(q.rule, q.items, q.meant, q.sound)

\* An object that may be sent: of a program's or a message's making.
Valid(c) == \A m \in Member : c[m] \in Vals(m) \/ (m \in Optional /\ c[m] = Absent)

ObjectInv ==
    /\ content = [m \in Member |-> content[m]]
    /\ told \in [Member -> AnyValue]
    /\ held = "new" => content = Fresh
    /\ vouched => Valid(content)

MembersInv ==
    ObjectInv /\ MeansWhatWasSent /\ AcceptsTheSound /\ \A q \in msg : q \in Message /\ Wire(q)

-----------------------------------------------------------------------------
(* Values.                                                                 *)

LEMMA TableFacts ==
    /\ N \in Nat /\ Member = 1..N /\ Member \subseteq Nat /\ 0 \notin Member /\ N + 1 \notin Member
    /\ Default \subseteq Optional /\ Optional \subseteq Member /\ List \subseteq Member
    /\ SetOf \subseteq List /\ Nullable \subseteq Member \ List /\ Elem \subseteq Nat
    /\ Foreign \notin Member
BY TableAssumption, TokenAssumption DEF Member

\* A value of a member is none of the tokens, but for the null of a Nullable.
LEMMA ValueFacts ==
    ASSUME NEW m \in Member, NEW v \in Vals(m)
    PROVE  /\ v # Absent /\ v # Broken /\ (v = Null => m \in Nullable)
           /\ Undamaged(m, v) /\ v \in AnyValue
<1>1. CASE m \in List
  <2>1. v \in Seq(Elem)
    BY <1>1 DEF Vals
  <2>2. v \in Seq(Elem \cup {Broken}) /\ Len(v) \in Nat /\ v \in [1..Len(v) -> Elem]
    BY <2>1, SeqWithin
  <2>3. v # Absent /\ v # Broken /\ v # Null
    BY <2>2, TokenAssumption
  <2>4. ~HasBad(v)
    BY <2>2, TokenAssumption DEF HasBad
  <2> QED
    BY <2>1, <2>3, <2>4 DEF Undamaged, AnyValue
<1>2. CASE m \notin List
  <2>1. v \in Scalar[m] /\ m \in Member \ List
    BY <1>2 DEF Vals
  <2>2. v # Absent /\ v # Broken /\ (v = Null => m \in Nullable)
    BY <2>1, TokenAssumption
  <2> QED
    BY <1>2, <2>1, <2>2 DEF Undamaged, AnyValue, AnyScalar
<1> QED
  BY <1>1, <1>2

LEMMA AbsenceFacts ==
    ASSUME NEW m \in Member
    PROVE  /\ DefaultOrAbsent(m) \in AnyValue
           /\ DefaultOrAbsent(m) # Absent => DefaultOrAbsent(m) \in Vals(m)
           /\ m \in Default => DefaultOrAbsent(m) = Dflt[m] /\ Dflt[m] \in Vals(m)
BY ValueFacts, TableAssumption DEF DefaultOrAbsent, AnyValue

LEMMA SameFacts ==
    ASSUME NEW m, NEW u, NEW v, NEW w
    PROVE  /\ Same(m, u, u)
           /\ Same(m, u, v) => Same(m, v, u)
           /\ Same(m, u, v) /\ Same(m, v, w) => Same(m, u, w)
BY DEF Same

LEMMA OnWireFacts ==
    ASSUME NEW m \in Member, NEW v \in Vals(m), NEW r
    PROVE  OnWire(r, m, v) \in Vals(m) /\ Same(m, OnWire(r, m, v), v)
<1>1. CASE r \in {"ber", "per"} /\ m \in SetOf
  <2>1. m \in List /\ v \in Seq(Elem) /\ OnWire(r, m, v) = Bag(v)
    BY <1>1, TableFacts DEF Vals, OnWire, ListOnWire
  <2>2. Bag(v) \in Seq(Elem) /\ Bag(Bag(v)) = Bag(v)
    BY <2>1, TableFacts, BagFacts
  <2>3. Bag(v) \in Vals(m)
    BY <2>1, <2>2 DEF Vals
  <2>4. Bag(v) # Absent /\ v # Absent
    BY <2>3, ValueFacts
  <2> QED
    BY <1>1, <2>1, <2>2, <2>3, <2>4 DEF Same
<1>2. CASE ~(r \in {"ber", "per"} /\ m \in SetOf)
  BY <1>2 DEF OnWire, ListOnWire, Same
<1> QED
  BY <1>1, <1>2

\* What is sent of a value is an item, and taken by every decoder.
LEMMA SentItem ==
    ASSUME NEW m \in Member, NEW v \in Vals(m), NEW r
    PROVE  LET x == [id |-> m, val |-> v]
           IN  x \in Item /\ Takes(r, x) /\ Says(x) = v
<1> DEFINE x == [id |-> m, val |-> v]
<1>1. /\ v # Absent /\ v # Broken /\ (v = Null => m \in Nullable) /\ Undamaged(m, v)
  BY ValueFacts
<1>2. x \in Item
  <2>1. CASE m \in List
    <3>1. v \in Seq(Elem \cup {Broken})
      BY <2>1, SeqWithin DEF Vals
    <3> QED
      BY <2>1, <3>1 DEF Item
  <2>2. CASE m \notin List
    <3>1. v \in Scalar[m] /\ v \in AnyScalar
      BY <2>2 DEF Vals, AnyScalar
    <3> QED
      BY <2>2, <3>1 DEF Item
  <2> QED
    BY <2>1, <2>2
<1> QED
  BY <1>1, <1>2 DEF Takes, Says

\* A value that is taken is one of the member's.
LEMMA TakenValue ==
    ASSUME NEW x \in Item, x.id \in Member, Undamaged(x.id, x.val)
    PROVE  x.val \in Vals(x.id)
<1> DEFINE m == x.id
           v == x.val
<1>1. CASE m \in List
  <2>1. v \in Seq(Elem \cup {Broken}) /\ ~HasBad(v)
    BY <1>1, TableFacts DEF Item, Undamaged
  <2>2. Len(v) \in Nat /\ v \in [1..Len(v) -> Elem \cup {Broken}]
    BY <2>1, LenProperties
  <2>3. \A i \in 1..Len(v) : v[i] \in Elem
    BY <2>1, <2>2 DEF HasBad
  <2>4. v \in [1..Len(v) -> Elem]
    BY <2>2, <2>3
  <2>5. v \in Seq(Elem)
    BY <2>2, <2>4
  <2> QED
    BY <1>1, <2>5 DEF Vals
<1>2. CASE m \notin List
  <2>1. v \in Scalar[m]
    BY <1>2 DEF Item, Undamaged
  <2> QED
    BY <1>2, <2>1 DEF Vals, Undamaged
<1> QED
  BY <1>1, <1>2

-----------------------------------------------------------------------------
(* Sequences of items: what the changes of a message do to the set of them *)

LEMMA ItemsAre ==
    ASSUME NEW X, NEW s \in Seq(X)
    PROVE  /\ Len(s) \in Nat /\ DOMAIN s = 1..Len(s) /\ ToSet(s) = {s[i] : i \in 1..Len(s)}
           /\ \A i \in 1..Len(s) : s[i] \in X /\ s[i] \in ToSet(s)
           /\ \A x \in ToSet(s) : x \in X /\ \E i \in 1..Len(s) : s[i] = x
<1>1. Len(s) \in Nat /\ DOMAIN s = 1..Len(s) /\ \A i \in 1..Len(s) : s[i] \in X
  BY LenProperties, ElementOfSeq
<1>2. ToSet(s) = {s[i] : i \in 1..Len(s)}
  BY <1>1 DEF ToSet
<1> QED
  BY <1>1, <1>2

Inserts(s, i, e, w) ==
    /\ Len(w) = Len(s) + 1
    /\ \A k \in 1..(Len(s) + 1) : w[k] = IF k < i THEN s[k] ELSE IF k = i THEN e ELSE s[k - 1]

LEMMA Inserted ==
    ASSUME NEW X, NEW s \in Seq(X), NEW i \in 1..(Len(s) + 1), NEW e \in X
    PROVE  /\ InsertAt(s, i, e) \in Seq(X) /\ Inserts(s, i, e, InsertAt(s, i, e))
           /\ ToSet(InsertAt(s, i, e)) = ToSet(s) \cup {e}
<1> DEFINE w == InsertAt(s, i, e)
           a == SubSeq(s, 1, i - 1)
           b == SubSeq(s, i, Len(s))
           n == Len(s)
<1>1. n \in Nat /\ i \in Nat /\ i # 0 /\ i <= n + 1 /\ \A k \in 1..n : s[k] \in X
  BY LenProperties, ElementOfSeq
<1>2. a \in Seq(X) /\ Len(a) = i - 1 /\ \A k \in 1..(i - 1) : a[k] = s[k]
  BY <1>1
<1>3. b \in Seq(X) /\ Len(b) = n + 1 - i /\ \A k \in 1..(n + 1 - i) : b[k] = s[k + i - 1]
  BY <1>1
<1>4. w = (a \o <<e>>) \o b
  BY DEF InsertAt
<1> HIDE DEF w, a, b, n
<1>5. /\ a \o <<e>> \in Seq(X) /\ Len(a \o <<e>>) = i
      /\ \A k \in 1..i : (a \o <<e>>)[k] = IF k < i THEN a[k] ELSE e
  BY <1>1, <1>2
<1>6. /\ w \in Seq(X) /\ Len(w) = n + 1
      /\ \A k \in 1..(n + 1) : w[k] = IF k <= i THEN (a \o <<e>>)[k] ELSE b[k - i]
  <2> DEFINE c == a \o <<e>>
  <2>1. c \in Seq(X) /\ Len(c) = i /\ w = c \o b
    BY <1>4, <1>5
  <2> HIDE DEF c
  <2>2. /\ w \in Seq(X) /\ Len(w) = Len(c) + Len(b)
        /\ \A k \in 1..(Len(c) + Len(b)) : w[k] = IF k <= Len(c) THEN c[k] ELSE b[k - Len(c)]
    BY <1>3, <2>1, ConcatProperties
  <2>3. Len(c) + Len(b) = n + 1
    BY <1>1, <1>3, <2>1
  <2> QED
    BY <2>1, <2>2, <2>3 DEF c
<1>7. \A k \in 1..(n + 1) : w[k] = IF k < i THEN s[k] ELSE IF k = i THEN e ELSE s[k - 1]
  <2> TAKE k \in 1..(n + 1)
  <2>1. CASE k < i
    BY <1>1, <1>2, <1>5, <1>6, <2>1
  <2>2. CASE k = i
    BY <1>1, <1>5, <1>6, <2>2
  <2>3. CASE k > i
    <3>1. w[k] = b[k - i] /\ k - i \in 1..(n + 1 - i)
      BY <1>1, <1>6, <2>3
    <3>2. b[k - i] = s[(k - i) + i - 1] /\ (k - i) + i - 1 = k - 1
      BY <1>1, <1>3, <3>1
    <3> QED
      BY <1>1, <2>3, <3>1, <3>2
  <2> QED
    BY <1>1, <2>1, <2>2, <2>3
<1>8. ToSet(w) = ToSet(s) \cup {e}
  <2>1. ToSet(w) = {w[k] : k \in 1..(n + 1)} /\ ToSet(s) = {s[k] : k \in 1..n}
    <3>1. ToSet(w) = {w[k] : k \in 1..Len(w)} /\ ToSet(s) = {s[k] : k \in 1..n}
      BY <1>6, ItemsAre DEF n
    <3> QED
      BY <1>6, <3>1
  <2>2. ASSUME NEW k \in 1..(n + 1) PROVE w[k] \in ToSet(s) \cup {e}
    <3>1. k < i => k \in 1..n
      BY <1>1
    <3>2. k > i => k - 1 \in 1..n
      BY <1>1
    <3> QED
      BY <1>1, <1>7, <2>1, <3>1, <3>2
  <2>3. ASSUME NEW k \in 1..n PROVE s[k] \in ToSet(w)
    <3>1. CASE k < i
      <4>1. k \in 1..(n + 1) /\ w[k] = s[k]
        BY <1>1, <1>7, <3>1
      <4> QED
        BY <2>1, <4>1
    <3>2. CASE k >= i
      <4>1. k + 1 \in 1..(n + 1) /\ ~(k + 1 < i) /\ k + 1 # i /\ (k + 1) - 1 = k
        BY <1>1, <3>2
      <4>2. w[k + 1] = s[k]
        BY <1>7, <4>1
      <4> QED
        BY <2>1, <4>1, <4>2
    <3> QED
      BY <1>1, <3>1, <3>2
  <2>4. e \in ToSet(w)
    BY <1>1, <1>7, <2>1
  <2> QED
    BY <2>1, <2>2, <2>3, <2>4
<1>9. Inserts(s, i, e, w)
  BY <1>6, <1>7 DEF Inserts, n
<1> QED
  BY <1>6, <1>8, <1>9 DEF w

Removes(s, i, w) ==
    /\ Len(w) = Len(s) - 1
    /\ \A k \in 1..(Len(s) - 1) : w[k] = s[IF k < i THEN k ELSE k + 1]

LEMMA Removed ==
    ASSUME NEW X, NEW s \in Seq(X), NEW i \in 1..Len(s),
           \A k, l \in 1..Len(s) : s[k] = s[l] => k = l
    PROVE  /\ RemoveAt(s, i) \in Seq(X) /\ Removes(s, i, RemoveAt(s, i))
           /\ ToSet(RemoveAt(s, i)) = ToSet(s) \ {s[i]}
<1> DEFINE w == RemoveAt(s, i)
           a == SubSeq(s, 1, i - 1)
           b == SubSeq(s, i + 1, Len(s))
           n == Len(s)
<1>1. n \in Nat /\ i \in Nat /\ i # 0 /\ i <= n /\ \A k \in 1..n : s[k] \in X
  BY LenProperties, ElementOfSeq
<1>2. a \in Seq(X) /\ Len(a) = i - 1 /\ \A k \in 1..(i - 1) : a[k] = s[k]
  BY <1>1
<1>3. b \in Seq(X) /\ Len(b) = n - i /\ \A k \in 1..(n - i) : b[k] = s[k + i]
  BY <1>1
<1>4. w = a \o b
  BY DEF RemoveAt
<1>5. \A k, l \in 1..n : s[k] = s[l] => k = l
  OBVIOUS
<1> HIDE DEF w, a, b, n
<1>6. /\ w \in Seq(X) /\ Len(w) = n - 1
      /\ \A k \in 1..(n - 1) : w[k] = IF k <= i - 1 THEN a[k] ELSE b[k - (i - 1)]
  <2>1. /\ w \in Seq(X) /\ Len(w) = Len(a) + Len(b)
        /\ \A k \in 1..(Len(a) + Len(b)) : w[k] = IF k <= Len(a) THEN a[k] ELSE b[k - Len(a)]
    BY <1>2, <1>3, <1>4, ConcatProperties
  <2>2. Len(a) + Len(b) = n - 1
    BY <1>1, <1>2, <1>3
  <2> QED
    BY <1>2, <2>1, <2>2
<1>7. \A k \in 1..(n - 1) : w[k] = s[IF k < i THEN k ELSE k + 1]
  <2> TAKE k \in 1..(n - 1)
  <2>1. CASE k < i
    BY <1>1, <1>2, <1>6, <2>1
  <2>2. CASE k >= i
    <3>1. w[k] = b[k - (i - 1)] /\ k - (i - 1) \in 1..(n - i)
      BY <1>1, <1>6, <2>2
    <3>2. b[k - (i - 1)] = s[(k - (i - 1)) + i] /\ (k - (i - 1)) + i = k + 1
      BY <1>1, <1>3, <3>1
    <3> QED
      BY <1>1, <2>2, <3>1, <3>2
  <2> QED
    BY <1>1, <2>1, <2>2
<1>8. ToSet(w) = ToSet(s) \ {s[i]}
  <2>1. ToSet(w) = {w[k] : k \in 1..(n - 1)} /\ ToSet(s) = {s[k] : k \in 1..n}
    <3>1. ToSet(w) = {w[k] : k \in 1..Len(w)} /\ ToSet(s) = {s[k] : k \in 1..n}
      BY <1>6, ItemsAre DEF n
    <3> QED
      BY <1>6, <3>1
  <2>2. ASSUME NEW k \in 1..(n - 1) PROVE w[k] \in ToSet(s) \ {s[i]}
    <3>1. PICK l \in 1..n : l # i /\ w[k] = s[l]
      <4>1. CASE k < i
        BY <1>1, <1>7, <4>1
      <4>2. CASE k >= i
        <5>1. k + 1 \in 1..n /\ k + 1 # i
          BY <1>1, <4>2
        <5> QED
          BY <1>1, <1>7, <4>2, <5>1
      <4> QED
        BY <1>1, <4>1, <4>2
    <3> QED
      BY <1>1, <1>5, <2>1, <3>1
  <2>3. ASSUME NEW k \in 1..n, s[k] # s[i] PROVE s[k] \in ToSet(w)
    <3>1. CASE k < i
      BY <1>1, <1>7, <2>1, <3>1
    <3>2. CASE k > i
      <4>1. k - 1 \in 1..(n - 1) /\ ~(k - 1 < i) /\ (k - 1) + 1 = k
        BY <1>1, <3>2
      <4>2. w[k - 1] = s[k]
        BY <1>7, <4>1
      <4> QED
        BY <2>1, <4>1, <4>2
    <3>3. k # i
      BY <2>3
    <3> QED
      BY <1>1, <3>1, <3>2, <3>3
  <2> QED
    BY <2>1, <2>2, <2>3
<1>9. Removes(s, i, w)
  BY <1>6, <1>7 DEF Removes, n
<1> QED
  BY <1>6, <1>8, <1>9 DEF w

-----------------------------------------------------------------------------
(* What an encoder writes.                                                 *)

Sent(r, c, m) == [id |-> m, val |-> OnWire(r, m, c[m])]

Coding(r, c, n, f) ==
    f = [m \in 0..n |-> IF m = 0 THEN <<>> ELSE EncodeMember(r, c, f[m - 1], m)]

\* The recursion of Encode has a solution, which is what its CHOOSE takes.
LEMMA CodingExists ==
    ASSUME NEW r, NEW c
    PROVE  \E f : Coding(r, c, N, f)
<1> DEFINE S == {n \in Nat : \E f : Coding(r, c, n, f)}
<1>1. 0 \in S
  <2>1. Coding(r, c, 0, [m \in 0..0 |-> <<>>])
    BY DEF Coding
  <2> QED
    BY <2>1
<1>2. ASSUME NEW n \in Nat, n \in S PROVE n + 1 \in S
  <2>1. PICK f : Coding(r, c, n, f)
    BY <1>2
  <2> DEFINE g == [m \in 0..(n + 1) |-> IF m <= n THEN f[m] ELSE EncodeMember(r, c, f[n], n + 1)]
             h == [m \in 0..(n + 1) |-> IF m = 0 THEN <<>> ELSE EncodeMember(r, c, g[m - 1], m)]
  <2>2. \A m \in 0..n : f[m] = IF m = 0 THEN <<>> ELSE EncodeMember(r, c, f[m - 1], m)
    BY <2>1 DEF Coding
  <2>3. ASSUME NEW m \in 0..(n + 1) PROVE g[m] = h[m]
    <3>1. CASE m <= n
      BY <2>2, <3>1
    <3>2. CASE m = n + 1
      BY <3>2
    <3> QED
      BY <3>1, <3>2
  <2>4. g = h
    BY <2>3
  <2> HIDE DEF g
  <2>5. Coding(r, c, n + 1, g)
    BY <2>4 DEF Coding
  <2> QED
    BY <2>5
<1> HIDE DEF S
<1>3. N \in S
  BY <1>1, <1>2, Inductive, TableFacts
<1> QED
  BY <1>3 DEF S

\* After n members, the items of those that are not left out, in order.
Coded(r, c, items, n) ==
    /\ items \in Seq(Item)
    /\ \A i \in 1..Len(items) : \E m \in 1..n : ~LeftOut(r, c, m) /\ items[i] = Sent(r, c, m)
    /\ \A m \in 1..n : ~LeftOut(r, c, m) => \E i \in 1..Len(items) : items[i] = Sent(r, c, m)
    /\ \A i, j \in 1..Len(items) : i < j => items[i].id < items[j].id

LEMMA CodedNext ==
    ASSUME NEW r, NEW c, Valid(c), NEW n \in Nat, n + 1 <= N, NEW items, Coded(r, c, items, n)
    PROVE  Coded(r, c, EncodeMember(r, c, items, n + 1), n + 1)
<1> DEFINE k == n + 1
           x == Sent(r, c, k)
           w == EncodeMember(r, c, items, k)
           l == Len(items)
<1>1. k \in Member /\ 1..n \subseteq 1..k /\ \A m \in 1..k : m = k \/ m \in 1..n
  BY TableFacts
<1>2. CASE LeftOut(r, c, k)
  <2>1. w = items
    BY <1>2 DEF EncodeMember
  <2> HIDE DEF k, w
  <2>2. /\ \A i \in 1..l : \E m \in 1..k : ~LeftOut(r, c, m) /\ items[i] = Sent(r, c, m)
        /\ \A m \in 1..k : ~LeftOut(r, c, m) => \E i \in 1..l : items[i] = Sent(r, c, m)
    BY <1>1, <1>2 DEF Coded
  <2> QED
    BY <2>1, <2>2 DEF Coded, k, w
<1>3. CASE ~LeftOut(r, c, k)
  <2>1. w = Append(items, x)
    BY <1>3 DEF EncodeMember, Sent
  <2>2. x \in Item /\ x.id = k
    <3>1. c[k] \in Vals(k)
      BY <1>1, <1>3 DEF LeftOut, Valid
    <3>2. OnWire(r, k, c[k]) \in Vals(k)
      BY <1>1, <3>1, OnWireFacts
    <3> HIDE DEF k
    <3> QED
      BY <1>1, <3>2, SentItem DEF Sent
  <2>3. l \in Nat /\ items \in Seq(Item)
    BY LenProperties DEF Coded
  <2> HIDE DEF x, w, l
  <2>4. /\ w \in Seq(Item) /\ Len(w) = l + 1 /\ w[l + 1] = x
        /\ \A i \in 1..l : w[i] = items[i]
    BY <2>1, <2>2, <2>3, AppendProperties DEF l
  <2>5. \A i \in 1..(l + 1) : i = l + 1 \/ i \in 1..l
    BY <2>3
  <2>6. ASSUME NEW i \in 1..(l + 1)
        PROVE  \E m \in 1..k : ~LeftOut(r, c, m) /\ w[i] = Sent(r, c, m)
    <3>1. CASE i = l + 1
      <4>1. k \in 1..k
        BY <1>1, TableFacts
      <4> QED
        BY <1>3, <2>4, <3>1, <4>1 DEF x
    <3>2. CASE i \in 1..l
      <4>1. PICK m \in 1..n : ~LeftOut(r, c, m) /\ items[i] = Sent(r, c, m)
        BY <3>2 DEF Coded, l
      <4> QED
        BY <1>1, <2>4, <3>2, <4>1
    <3> QED
      BY <2>5, <3>1, <3>2
  <2>7. ASSUME NEW m \in 1..k, ~LeftOut(r, c, m)
        PROVE  \E i \in 1..(l + 1) : w[i] = Sent(r, c, m)
    <3>1. CASE m = k
      <4>1. l + 1 \in 1..(l + 1)
        BY <2>3
      <4> QED
        BY <2>4, <3>1, <4>1 DEF x
    <3>2. CASE m \in 1..n
      <4>1. PICK i \in 1..l : items[i] = Sent(r, c, m)
        BY <2>7, <3>2 DEF Coded, l
      <4>2. i \in 1..(l + 1)
        BY <2>3
      <4> QED
        BY <2>4, <4>1, <4>2
    <3> QED
      BY <1>1, <3>1, <3>2
  <2>8. ASSUME NEW i \in 1..(l + 1), NEW j \in 1..(l + 1), i < j
        PROVE  w[i].id < w[j].id
    <3>1. i \in 1..l
      BY <2>3, <2>8
    <3>2. CASE j = l + 1
      <4>1. PICK m \in 1..n : items[i] = Sent(r, c, m)
        BY <3>1 DEF Coded, l
      <4>2. items[i].id = m
        BY <4>1 DEF Sent
      <4>3. m < k
        BY <4>1
      <4> QED
        BY <2>2, <2>4, <3>1, <3>2, <4>2, <4>3
    <3>3. CASE j \in 1..l
      BY <2>4, <2>8, <3>1, <3>3 DEF Coded, l
    <3> QED
      BY <2>5, <3>2, <3>3
  <2> QED
    BY <2>4, <2>6, <2>7, <2>8 DEF Coded, w
<1> QED
  BY <1>2, <1>3

LEMMA EncodeCodes ==
    ASSUME NEW r, NEW c, Valid(c)
    PROVE  Coded(r, c, Encode(r, c), N)
<1> DEFINE g == CHOOSE f : Coding(r, c, N, f)
           S == {n \in Nat : n <= N => Coded(r, c, g[n], n)}
<1>1. Coding(r, c, N, g)
  BY CodingExists
<1>2. Encode(r, c) = g[N]
  BY DEF Encode, Coding
<1> HIDE DEF g
<1>3. \A m \in 0..N : g[m] = IF m = 0 THEN <<>> ELSE EncodeMember(r, c, g[m - 1], m)
  BY <1>1 DEF Coding
<1>4. 0 \in S
  <2>1. g[0] = <<>>
    BY <1>3, TableFacts
  <2>2. g[0] \in Seq(Item) /\ Len(g[0]) = 0
    BY <2>1, EmptySeq
  <2>3. \A i \in 1..0 : FALSE
    OBVIOUS
  <2>4. Coded(r, c, g[0], 0)
    BY <2>2, <2>3 DEF Coded
  <2> QED
    BY <2>4
<1>5. ASSUME NEW n \in Nat, n \in S PROVE n + 1 \in S
  <2> SUFFICES ASSUME n + 1 <= N PROVE Coded(r, c, g[n + 1], n + 1)
    OBVIOUS
  <2>1. Coded(r, c, g[n], n)
    BY <1>5, TableFacts
  <2>2. g[n + 1] = EncodeMember(r, c, g[n], n + 1)
    <3>1. n + 1 \in 0..N /\ n + 1 # 0 /\ (n + 1) - 1 = n
      BY TableFacts
    <3> QED
      BY <1>3, <3>1
  <2> QED
    BY <2>1, <2>2, CodedNext
<1> HIDE DEF S
<1>6. N \in S
  BY <1>4, <1>5, Inductive, TableFacts
<1> QED
  BY <1>2, <1>6, TableFacts DEF S

-----------------------------------------------------------------------------
(* What a decoder along the table reads.                                   *)

Tabular == {"ber", "per", "xer"}

\* Only an undamaged value decodes, and it is what the member then holds,
\* whatever it held before; under XER, if a list it had was empty.
LEMMA DecodeValueFacts ==
    ASSUME NEW r \in Tabular \cup {"jer"}, NEW x \in Item, x.id \in Member, NEW old,
           r = "xer" /\ x.id \in List => Allocated(x.id, old) = <<>>
    PROVE  LET d == DecodeValue(r, x.id, old, x.val)
           IN  (d.ok <=> Undamaged(x.id, x.val)) /\ (d.ok => d.val = x.val) /\ d.ok \in BOOLEAN
<1> DEFINE m == x.id
           v == x.val
           d == DecodeValue(r, m, old, v)
<1>1. CASE v = Broken \/ (v = Null /\ m \notin Nullable)
  BY <1>1 DEF DecodeValue, Undamaged
<1>2. CASE v # Broken /\ ~(v = Null /\ m \notin Nullable) /\ m \in List
  <2>1. v \in Seq(Elem \cup {Broken}) /\ d = Refill(r, Allocated(m, old), v)
    BY <1>2, TableFacts DEF Item, DecodeValue
  <2>2. Undamaged(m, v) <=> ~HasBad(v)
    BY <1>2 DEF Undamaged
  <2>3. v = <<>> => ~HasBad(v)
    BY DEF HasBad
  <2>4. (d.ok <=> ~HasBad(v)) /\ (d.ok => d.val = v) /\ d.ok \in BOOLEAN
    <3>1. CASE r = "ber"
      BY <2>1, <3>1 DEF Refill, BerRefill
    <3>2. CASE r = "per"
      BY <2>1, <3>2 DEF Refill, PerRefill
    <3>3. CASE r = "xer"
      BY <1>2, <2>1, <2>3, <3>3 DEF Refill, XerRefill
    <3>4. CASE r = "jer"
      BY <2>1, <3>4 DEF Refill, JerRefill
    <3> QED
      BY <3>1, <3>2, <3>3, <3>4 DEF Tabular
  <2> QED
    BY <2>2, <2>4
<1>3. CASE v # Broken /\ ~(v = Null /\ m \notin Nullable) /\ m \notin List
  BY <1>3 DEF DecodeValue, Undamaged
<1> QED
  BY <1>1, <1>2, <1>3

LEMMA RankFacts ==
    ASSUME NEW x \in Item
    PROVE  /\ Rank(x) \in 1..(N + 1)
           /\ \A m \in Member : Rank(x) = m <=> x.id = m
           /\ Rank(x) = N + 1 <=> x.id = Foreign
BY TableFacts DEF Rank, Item

\* The member is what its item says, or what absence means.
Settled(r, items, c, m) ==
    /\ \A i \in 1..Len(items) :
          items[i].id = m => Undamaged(m, items[i].val) /\ c[m] = items[i].val
    /\ (\A i \in 1..Len(items) : items[i].id # m) => m \in Optional /\ c[m] = AbsentIn(r, m)

\* After n members: all items of theirs are read, and no other.
Walked(r, c, items, s, n) ==
    /\ s = [ok |-> s.ok, at |-> s.at, c |-> s.c]
    /\ s.c = [m \in Member |-> s.c[m]]
    /\ s.ok \in BOOLEAN
    /\ s.ok =>
         /\ s.at \in 1..(Len(items) + 1)
         /\ \A j \in 1..Len(items) : j < s.at <=> Rank(items[j]) <= n
         /\ \A m \in 1..n : Settled(r, items, s.c, m)
         /\ \A m \in Member : m > n => s.c[m] = c[m]
    /\ ~s.ok => ~Acceptable(r, ToSet(items))

\* The member's item is the next one, or there is none.
LEMMA NextItem ==
    ASSUME NEW items \in Seq(Item), InOrder(items), NEW n \in Nat, n + 1 \in Member,
           NEW at \in 1..(Len(items) + 1),
           \A j \in 1..Len(items) : j < at <=> Rank(items[j]) <= n
    PROVE  /\ \A j \in 1..Len(items) : items[j].id = n + 1 => j = at
           /\ at <= Len(items) /\ items[at].id = n + 1 =>
                \A j \in 1..Len(items) : j < at + 1 <=> Rank(items[j]) <= n + 1
           /\ ~(at <= Len(items) /\ items[at].id = n + 1) =>
                \A j \in 1..Len(items) : j < at <=> Rank(items[j]) <= n + 1
<1> DEFINE l == Len(items)
           R(j) == Rank(items[j])
<1>1. l \in Nat /\ \A j \in 1..l : items[j] \in Item
  BY ItemsAre
<1>2. ASSUME NEW j \in 1..l
      PROVE  R(j) \in Nat /\ (R(j) = n + 1 <=> items[j].id = n + 1) /\ (j < at <=> R(j) <= n)
  BY <1>1, RankFacts, TableFacts
<1>3. \A i, j \in 1..l : i < j => R(i) < R(j)
  BY DEF InOrder
<1> HIDE DEF l, R
<1>4. ASSUME NEW j \in 1..l, items[j].id = n + 1 PROVE j = at
  <2>1. R(j) = n + 1 /\ ~(j < at)
    BY <1>2, <1>4
  <2>2. SUFFICES ASSUME at < j PROVE FALSE
    BY <1>1, <2>1
  <2>3. at \in 1..l
    BY <1>1, <2>2
  <2>4. R(at) < R(j) /\ ~(R(at) <= n) /\ R(at) \in Nat
    BY <1>2, <1>3, <2>2, <2>3
  <2> QED
    BY <2>1, <2>4
<1>5. ASSUME at <= l, items[at].id = n + 1, NEW j \in 1..l
      PROVE  j < at + 1 <=> R(j) <= n + 1
  <2>1. at \in 1..l /\ R(at) = n + 1
    BY <1>1, <1>2, <1>5
  <2>2. CASE j < at
    BY <1>1, <1>2, <2>2
  <2>3. CASE j = at
    BY <1>1, <2>1, <2>3
  <2>4. CASE at < j
    <3>1. R(at) < R(j) /\ R(j) \in Nat
      BY <1>2, <1>3, <2>1, <2>4
    <3> QED
      BY <1>1, <2>1, <2>4, <3>1
  <2> QED
    BY <1>1, <2>2, <2>3, <2>4
<1>6. ASSUME ~(at <= l /\ items[at].id = n + 1), NEW j \in 1..l
      PROVE  j < at <=> R(j) <= n + 1
  <2>1. R(j) # n + 1
    <3>1. items[j].id = n + 1 => j = at /\ j <= l
      BY <1>1, <1>4
    <3> QED
      BY <1>2, <1>6, <3>1
  <2> QED
    BY <1>2, <2>1
<1> QED
  BY <1>4, <1>5, <1>6 DEF l, R

\* Under XER a list is only added to: it must have been empty.
ListsFit(r, c) == r = "xer" => \A m \in List : Allocated(m, c[m]) = <<>>

LEMMA WalkStep ==
    ASSUME NEW r \in Tabular, NEW c, c = [m \in Member |-> c[m]], ListsFit(r, c),
           NEW items \in Seq(Item), InOrder(items),
           NEW n \in Nat, n + 1 <= N, NEW s, Walked(r, c, items, s, n)
    PROVE  Walked(r, c, items, WalkMember(r, items, s, n + 1), n + 1)
<1> DEFINE k == n + 1
           l == Len(items)
           e == WalkMember(r, items, s, k)
           R == ToSet(items)
<1>1. k \in Member /\ l \in Nat /\ (\A i \in 1..l : items[i] \in Item /\ items[i] \in R)
      /\ (\A m \in 1..k : m = k \/ m \in 1..n) /\ (\A m \in Member : m > k => m > n /\ m # k)
  BY ItemsAre, TableFacts
<1>2. /\ s = [ok |-> s.ok, at |-> s.at, c |-> s.c]
      /\ s.c = [m \in Member |-> s.c[m]]
  BY DEF Walked
<1>3. CASE ~s.ok
  <2>1. e = s
    BY <1>3 DEF WalkMember
  <2> HIDE DEF e
  <2> QED
    BY <1>3, <2>1 DEF Walked, e
<1>4. CASE s.ok
  <2>1. /\ s.at \in 1..(l + 1)
        /\ \A j \in 1..l : j < s.at <=> Rank(items[j]) <= n
        /\ \A m \in 1..n : Settled(r, items, s.c, m)
        /\ \A m \in Member : m > n => s.c[m] = c[m]
    BY <1>4 DEF Walked
  <2>2. /\ \A j \in 1..l : items[j].id = k => j = s.at
        /\ s.at <= l /\ items[s.at].id = k =>
             \A j \in 1..l : j < s.at + 1 <=> Rank(items[j]) <= k
        /\ ~(s.at <= l /\ items[s.at].id = k) =>
             \A j \in 1..l : j < s.at <=> Rank(items[j]) <= k
    BY <1>1, <2>1, NextItem
  <2>3. ASSUME NEW d, \A m \in Member \ {k} : d[m] = s.c[m]
        PROVE  /\ \A m \in 1..n : Settled(r, items, d, m)
               /\ \A m \in Member : m > k => d[m] = c[m]
    <3>1. \A m \in 1..n : m \in Member \ {k}
      BY TableFacts
    <3>2. \A m \in 1..n : d[m] = s.c[m]
      BY <2>3, <3>1
    <3>3. \A m \in Member : m > k => d[m] = c[m]
      BY <1>1, <2>1, <2>3
    <3> QED
      BY <2>1, <3>2, <3>3 DEF Settled
  <2>4. CASE s.at <= l /\ items[s.at].id = k
    <3> DEFINE x == items[s.at]
               d == DecodeValue(r, k, s.c[k], x.val)
    <3>1. s.at \in 1..l /\ x \in Item /\ x \in R /\ x.id = k
      BY <1>1, <2>1, <2>4
    <3>2. (d.ok <=> Undamaged(k, x.val)) /\ (d.ok => d.val = x.val) /\ d.ok \in BOOLEAN
      <4>1. r = "xer" /\ k \in List => Allocated(k, s.c[k]) = <<>>
        <5>1. s.c[k] = c[k]
          BY <1>1, <2>1, TableFacts
        <5> QED
          BY <5>1 DEF ListsFit
      <4> HIDE DEF x, k
      <4>2. r \in Tabular \cup {"jer"} /\ x.id \in Member
        BY <1>1, <3>1
      <4>3. (DecodeValue(r, x.id, s.c[k], x.val).ok <=> Undamaged(x.id, x.val))
            /\ (DecodeValue(r, x.id, s.c[k], x.val).ok => DecodeValue(r, x.id, s.c[k], x.val).val = x.val)
            /\ DecodeValue(r, x.id, s.c[k], x.val).ok \in BOOLEAN
        BY <3>1, <4>1, <4>2, DecodeValueFacts
      <4> QED
        BY <3>1, <4>3
    <3>3. e = [ok |-> d.ok, at |-> s.at + 1, c |-> [s.c EXCEPT ![k] = d.val]]
      BY <1>4, <2>4 DEF WalkMember
    <3> HIDE DEF d, e
    <3>4. /\ e.ok = d.ok /\ e.at = s.at + 1 /\ e.c = [s.c EXCEPT ![k] = d.val]
          /\ e = [ok |-> e.ok, at |-> e.at, c |-> e.c]
      BY <3>3
    <3>5. e.c = [m \in Member |-> e.c[m]] /\ e.c[k] = d.val /\ \A m \in Member \ {k} : e.c[m] = s.c[m]
      BY <1>1, <1>2, <3>4
    <3>6. ASSUME e.ok PROVE Settled(r, items, e.c, k)
      BY <2>2, <3>1, <3>2, <3>4, <3>5, <3>6 DEF Settled
    <3>7. ASSUME ~e.ok PROVE ~Acceptable(r, R)
      <4>1. ~Undamaged(x.id, x.val) /\ r # "jer"
        BY <3>1, <3>2, <3>4, <3>7 DEF Tabular
      <4> QED
        BY <1>1, <3>1, <4>1 DEF Acceptable, Takes
    <3>8. e.at \in 1..(l + 1) /\ \A j \in 1..l : j < e.at <=> Rank(items[j]) <= k
      BY <1>1, <2>1, <2>2, <2>4, <3>4
    <3>9. /\ \A m \in 1..n : Settled(r, items, e.c, m)
          /\ \A m \in Member : m > k => e.c[m] = c[m]
      BY <2>3, <3>5
    <3>10. e.ok => \A m \in 1..k : Settled(r, items, e.c, m)
      BY <1>1, <3>6, <3>9
    <3> HIDE DEF k, l, R
    <3> QED
      BY <3>2, <3>4, <3>5, <3>7, <3>8, <3>9, <3>10 DEF Walked, e, k, l, R
  <2>5. CASE ~(s.at <= l /\ items[s.at].id = k) /\ k \in Optional
    <3>1. e = [s EXCEPT !.c[k] = AbsentIn(r, k)]
      BY <1>4, <2>5 DEF WalkMember
    <3> HIDE DEF e
    <3>2. e = [ok |-> s.ok, at |-> s.at, c |-> [s.c EXCEPT ![k] = AbsentIn(r, k)]]
      BY <1>2, <3>1
    <3>3. e.c = [m \in Member |-> e.c[m]] /\ e.c[k] = AbsentIn(r, k)
          /\ \A m \in Member \ {k} : e.c[m] = s.c[m]
      BY <1>1, <1>2, <3>2
    <3>4. e.ok = s.ok /\ e.at = s.at /\ e = [ok |-> e.ok, at |-> e.at, c |-> e.c]
      BY <3>2
    <3>5. \A j \in 1..l : items[j].id # k
      BY <1>1, <2>2, <2>5
    <3>6. Settled(r, items, e.c, k)
      BY <2>5, <3>3, <3>5 DEF Settled
    <3>7. /\ \A m \in 1..n : Settled(r, items, e.c, m)
          /\ \A m \in Member : m > k => e.c[m] = c[m]
      BY <2>3, <3>3
    <3>8. \A m \in 1..k : Settled(r, items, e.c, m)
      BY <1>1, <3>6, <3>7
    <3>9. e.at \in 1..(l + 1) /\ \A j \in 1..l : j < e.at <=> Rank(items[j]) <= k
      BY <2>1, <2>2, <2>5, <3>4
    <3> HIDE DEF k, l, R
    <3> QED
      BY <1>4, <3>3, <3>4, <3>7, <3>8, <3>9 DEF Walked, e, k, l, R
  <2>6. CASE ~(s.at <= l /\ items[s.at].id = k) /\ k \notin Optional
    <3>1. e = [s EXCEPT !.ok = FALSE]
      BY <1>4, <2>6 DEF WalkMember
    <3> HIDE DEF e
    <3>2. e = [ok |-> FALSE, at |-> s.at, c |-> s.c]
      BY <1>2, <3>1
    <3>3. ~e.ok /\ e.c = s.c /\ e.at = s.at /\ e.ok \in BOOLEAN
      BY <3>2
    <3>4. \A j \in 1..l : items[j].id # k
      BY <1>1, <2>2, <2>6
    <3>5. \A x \in R : x.id # k
      BY <3>4, ItemsAre
    <3>6. ~Acceptable(r, R)
      BY <1>1, <2>6, <3>5 DEF Acceptable
    <3> HIDE DEF k, l, R
    <3> QED
      BY <1>2, <3>2, <3>3, <3>6 DEF Walked, e, k, l, R
  <2> QED
    BY <2>4, <2>5, <2>6
<1> QED
  BY <1>2, <1>3, <1>4 DEF Walked

Walking(r, c, items, n, f) ==
    f = [m \in 0..n |-> IF m = 0 THEN [ok |-> TRUE, at |-> 1, c |-> c]
                        ELSE WalkMember(r, items, f[m - 1], m)]

LEMMA WalkingExists ==
    ASSUME NEW r, NEW c, NEW items
    PROVE  \E f : Walking(r, c, items, N, f)
<1> DEFINE S == {n \in Nat : \E f : Walking(r, c, items, n, f)}
           begin == [ok |-> TRUE, at |-> 1, c |-> c]
<1>1. 0 \in S
  <2>1. Walking(r, c, items, 0, [m \in 0..0 |-> begin])
    BY DEF Walking
  <2> QED
    BY <2>1
<1>2. ASSUME NEW n \in Nat, n \in S PROVE n + 1 \in S
  <2>1. PICK f : Walking(r, c, items, n, f)
    BY <1>2
  <2> DEFINE g == [m \in 0..(n + 1) |-> IF m <= n THEN f[m] ELSE WalkMember(r, items, f[n], n + 1)]
             h == [m \in 0..(n + 1) |-> IF m = 0 THEN begin ELSE WalkMember(r, items, g[m - 1], m)]
  <2>2. \A m \in 0..n : f[m] = IF m = 0 THEN begin ELSE WalkMember(r, items, f[m - 1], m)
    BY <2>1 DEF Walking
  <2> HIDE DEF begin
  <2>3. ASSUME NEW m \in 0..(n + 1) PROVE g[m] = h[m]
    <3>1. CASE m <= n
      BY <2>2, <3>1
    <3>2. CASE m = n + 1
      BY <3>2
    <3> QED
      BY <3>1, <3>2
  <2>4. g = h
    BY <2>3
  <2> HIDE DEF g
  <2>5. Walking(r, c, items, n + 1, g)
    BY <2>4 DEF Walking, begin
  <2> QED
    BY <2>5
<1> HIDE DEF S
<1>3. N \in S
  BY <1>1, <1>2, Inductive, TableFacts
<1> QED
  BY <1>3 DEF S

LEMMA WalkWalks ==
    ASSUME NEW r \in Tabular, NEW c, c = [m \in Member |-> c[m]], ListsFit(r, c),
           NEW items \in Seq(Item), InOrder(items)
    PROVE  Walked(r, c, items, Walk(r, c, items), N)
<1> DEFINE g == CHOOSE f : Walking(r, c, items, N, f)
           S == {n \in Nat : n <= N => Walked(r, c, items, g[n], n)}
<1>1. Walking(r, c, items, N, g)
  BY WalkingExists
<1>2. Walk(r, c, items) = g[N]
  BY DEF Walk, Walking
<1> HIDE DEF g
<1>3. \A m \in 0..N : g[m] = IF m = 0 THEN [ok |-> TRUE, at |-> 1, c |-> c]
                             ELSE WalkMember(r, items, g[m - 1], m)
  BY <1>1 DEF Walking
<1>4. 0 \in S
  <2>1. g[0] = [ok |-> TRUE, at |-> 1, c |-> c]
    <3>1. 0 \in 0..N
      BY TableFacts
    <3>2. g[0] = IF 0 = 0 THEN [ok |-> TRUE, at |-> 1, c |-> c]
                 ELSE WalkMember(r, items, g[0 - 1], 0)
      BY <1>3, <3>1
    <3> QED
      BY <3>2
  <2>2. /\ g[0] = [ok |-> g[0].ok, at |-> g[0].at, c |-> g[0].c]
        /\ g[0].ok = TRUE /\ g[0].at = 1 /\ g[0].c = c
    BY <2>1
  <2>3. Len(items) \in Nat /\ \A j \in 1..Len(items) : Rank(items[j]) \in 1..(N + 1)
    BY ItemsAre, RankFacts
  <2>4. 1 \in 1..(Len(items) + 1) /\ \A j \in 1..Len(items) : j < 1 <=> Rank(items[j]) <= 0
    BY <2>3, TableFacts
  <2>5. \A m \in 1..0 : FALSE
    OBVIOUS
  <2>6. Walked(r, c, items, g[0], 0)
    BY <2>2, <2>4, <2>5 DEF Walked
  <2> QED
    BY <2>6
<1>5. ASSUME NEW n \in Nat, n \in S PROVE n + 1 \in S
  <2> SUFFICES ASSUME n + 1 <= N PROVE Walked(r, c, items, g[n + 1], n + 1)
    OBVIOUS
  <2>1. Walked(r, c, items, g[n], n)
    BY <1>5, TableFacts
  <2>2. g[n + 1] = WalkMember(r, items, g[n], n + 1)
    <3>1. n + 1 \in 0..N /\ n + 1 # 0 /\ (n + 1) - 1 = n
      BY TableFacts
    <3> QED
      BY <1>3, <3>1
  <2> QED
    BY <2>1, <2>2, WalkStep
<1> HIDE DEF S
<1>6. N \in S
  BY <1>4, <1>5, Inductive, TableFacts
<1> QED
  BY <1>2, <1>6, TableFacts DEF S

\* set_in_table_order puts the items of a message in the order of the table.
LEMMA TableOrder ==
    ASSUME NEW items \in Seq(Item), Once(items)
    PROVE  /\ InTableOrder(items) \in Seq(Item)
           /\ ToSet(InTableOrder(items)) = ToSet(items)
           /\ InOrder(InTableOrder(items))
<1> DEFINE l == Len(items)
           slots == Slots(items)
           w == InTableOrder(items)
           at == Origin(slots)
<1>1. l \in Nat /\ DOMAIN items = 1..l /\ \A i \in 1..l : items[i] \in Item
  BY ItemsAre
<1>2. slots = [i \in 1..l |-> Rank(items[i])]
  <2>1. ASSUME NEW i \in 1..l, items[i].id \in Member
        PROVE  \A j \in 1..(i - 1) : items[j].id # items[i].id
    <3> TAKE j \in 1..(i - 1)
    <3>1. j \in 1..l /\ j # i
      BY <1>1
    <3> QED
      BY <3>1 DEF Once
  <2> HIDE DEF l
  <2> QED
    BY <1>1, <2>1 DEF Slots, Rank
<1>3. \A i \in 1..l : Rank(items[i]) \in Nat
  BY <1>1, RankFacts, TableFacts
<1> HIDE DEF l, slots, at
<1>4. slots \in [1..l -> Nat]
  BY <1>2, <1>3
<1>5. /\ at \in [1..l -> 1..l]
      /\ \A i, j \in 1..l : i < j => \/ slots[at[i]] < slots[at[j]]
                                     \/ slots[at[i]] = slots[at[j]] /\ at[i] < at[j]
  BY <1>1, <1>4, Origins DEF at
<1>6. /\ w \in Seq(Item) /\ Len(w) = l /\ ToSet(w) = ToSet(items)
      /\ \A k \in 1..l : w[k] = items[at[k]]
  BY <1>4, ArrangedFacts, ArrangedKeeps DEF InTableOrder, l, at, slots
<1> HIDE DEF w
<1>7. ASSUME NEW i \in 1..l, NEW j \in 1..l, i < j
      PROVE  Rank(w[i]) < Rank(w[j])
  <2>1. at[i] \in 1..l /\ at[j] \in 1..l /\ w[i] = items[at[i]] /\ w[j] = items[at[j]]
    BY <1>5, <1>6
  <2>2. slots[at[i]] = Rank(w[i]) /\ slots[at[j]] = Rank(w[j])
    BY <1>2, <2>1
  <2>3. Rank(w[i]) < Rank(w[j]) \/ (Rank(w[i]) = Rank(w[j]) /\ at[i] < at[j])
    BY <1>5, <1>7, <2>2
  <2>4. ASSUME Rank(w[i]) = Rank(w[j]), at[i] < at[j] PROVE FALSE
    <3>1. w[i].id = w[j].id
      BY <1>1, <2>1, <2>4, TableFacts DEF Rank, Item
    <3>2. at[i] = at[j]
      BY <2>1, <3>1 DEF Once, l
    <3> QED
      BY <1>1, <2>1, <2>4, <3>2
  <2> QED
    BY <2>3, <2>4
<1> QED
  BY <1>6, <1>7 DEF InOrder, w

\* What a decode makes of the items of a message.
Decoded(r, all, c) ==
    /\ c = [m \in Member |-> c[m]]
    /\ \A m \in Member :
         /\ \A x \in all : x.id = m =>
               c[m] = IF x.val = Null /\ m \notin Nullable THEN Absent ELSE x.val
         /\ (\A x \in all : x.id # m) => c[m] = AbsentIn(r, m)

LEMMA TableDecodes ==
    ASSUME NEW r \in Tabular, NEW c, c = [m \in Member |-> c[m]], ListsFit(r, c),
           NEW items \in Seq(Item), Once(items),
           r \in {"per", "xer"} \/ (r = "ber" /\ ~IsSet) => InOrder(items),
           r = "xer" => \A x \in ToSet(items) : x.id # Foreign
    PROVE  LET d == Decode(r, c, items)
           IN  /\ d.ok = Acceptable(r, ToSet(items))
               /\ d.ok => Decoded(r, ToSet(items), d.c)
               /\ d.c = [m \in Member |-> d.c[m]]
<1> DEFINE all == ToSet(items)
           read == Read(r, items)
           s == Walk(r, c, read)
           d == Decode(r, c, items)
           l == Len(read)
<1>1. read \in Seq(Item) /\ InOrder(read) /\ ToSet(read) = all
  BY TableOrder DEF Read, Tabular
<1>2. d = [ok |-> s.ok /\ (r = "xer" => s.at > l), c |-> s.c]
  <2>1. r # "jer"
    BY DEF Tabular
  <2>2. r = "xer" => read = items
    BY DEF Read
  <2>3. d = [ok |-> s.ok /\ (r = "xer" => s.at > Len(items)), c |-> s.c]
    BY <2>1 DEF Decode, WalkTable
  <2> HIDE DEF read, s, d
  <2> QED
    BY <2>2, <2>3
<1> HIDE DEF read
<1>3. Walked(r, c, read, s, N)
  BY <1>1, WalkWalks
<1>4. /\ l \in Nat /\ \A i \in 1..l : read[i] \in Item /\ read[i] \in all
      /\ \A x \in all : x \in Item /\ \E i \in 1..l : read[i] = x
  BY <1>1, ItemsAre
<1> HIDE DEF s, d, all, l
<1>5. d.ok = (s.ok /\ (r = "xer" => s.at > l)) /\ d.c = s.c
  BY <1>2
<1>6. s.ok \in BOOLEAN /\ s.c = [m \in Member |-> s.c[m]] /\ (~s.ok => ~Acceptable(r, all))
  BY <1>1, <1>3 DEF Walked
<1>7. ASSUME s.ok
      PROVE  Acceptable(r, all) /\ Decoded(r, all, s.c) /\ (r = "xer" => s.at > l)
  <2>1. \A m \in Member : Settled(r, read, s.c, m)
    BY <1>3, <1>7, TableFacts DEF Walked
  <2>2. ASSUME NEW x \in all, x.id \in Member
        PROVE  Undamaged(x.id, x.val) /\ s.c[x.id] = x.val
    BY <1>4, <2>1, <2>2 DEF Settled, l
  <2>3. ASSUME NEW m \in Member, \A x \in all : x.id # m
        PROVE  m \in Optional /\ s.c[m] = AbsentIn(r, m)
    BY <1>4, <2>1, <2>3 DEF Settled, l
  <2>4. Acceptable(r, all)
    BY <2>2, <2>3 DEF Acceptable, Takes
  <2>5. Decoded(r, all, s.c)
    BY <1>6, <2>2, <2>3 DEF Decoded, Undamaged
  <2>6. ASSUME r = "xer" PROVE s.at > l
    <3>1. s.at \in 1..(l + 1) /\ \A j \in 1..l : j < s.at <=> Rank(read[j]) <= N
      BY <1>3, <1>7 DEF Walked, l
    <3>2. SUFFICES ASSUME s.at <= l PROVE FALSE
      BY <1>4, <3>1
    <3>3. s.at \in 1..l
      BY <1>4, <3>1, <3>2
    <3>4. read[s.at].id \in Member
      BY <1>4, <2>6, <3>3 DEF Item, all
    <3>5. Rank(read[s.at]) <= N
      BY <3>4, TableFacts DEF Rank
    <3> QED
      BY <1>4, <3>1, <3>3, <3>5
  <2> QED
    BY <2>4, <2>5, <2>6
<1>8. Acceptable(r, all) \in BOOLEAN
  BY DEF Acceptable
<1> QED
  BY <1>5, <1>6, <1>7, <1>8 DEF d, all

-----------------------------------------------------------------------------
(* What the JER decoder reads.                                             *)

\* After n keys: their members are what they say, the others are cleared.
JerRead(items, s, n) ==
    /\ s = [ok |-> s.ok, c |-> s.c, seen |-> s.seen]
    /\ s.c = [m \in Member |-> s.c[m]]
    /\ s.ok \in BOOLEAN
    /\ s.ok =>
         /\ \A i \in 1..n : items[i].id \in Member =>
               /\ Takes("jer", items[i])
               /\ s.c[items[i].id] = IF items[i].val = Null /\ items[i].id \notin Nullable
                                     THEN Absent ELSE items[i].val
               /\ items[i].id \in s.seen \cup Optional
         /\ \A m \in Member : (\A i \in 1..n : items[i].id # m) =>
               m \notin s.seen /\ (m \in Optional => s.c[m] = Absent)
    /\ ~s.ok => ~Acceptable("jer", ToSet(items))

LEMMA JerStep ==
    ASSUME NEW items \in Seq(Item), Once(items), NEW n \in Nat, n + 1 <= Len(items),
           NEW s, JerRead(items, s, n)
    PROVE  JerRead(items, JerKey(s, items[n + 1]), n + 1)
<1> DEFINE k == n + 1
           l == Len(items)
           x == items[k]
           m == x.id
           e == JerKey(s, x)
           all == ToSet(items)
           d == DecodeValue("jer", m, s.c[m], x.val)
           Value(y) == IF y.val = Null /\ y.id \notin Nullable THEN Absent ELSE y.val
<1>1. /\ l \in Nat /\ k \in 1..l /\ x \in Item /\ x \in all
      /\ (\A i \in 1..k : i = k \/ i \in 1..n) /\ (\A i \in 1..n : i \in 1..l /\ i \in 1..k /\ i # k)
      /\ k \in 1..k
  <2>1. l \in Nat /\ \A i \in 1..l : items[i] \in Item /\ items[i] \in all
    BY ItemsAre
  <2>2. k \in 1..l
    BY <2>1
  <2> HIDE DEF all
  <2> QED
    BY <2>1, <2>2
<1>2. \A i \in 1..n : items[i].id # m
  BY <1>1 DEF Once
<1>3. /\ s = [ok |-> s.ok, c |-> s.c, seen |-> s.seen]
      /\ s.c = [y \in Member |-> s.c[y]] /\ s.ok \in BOOLEAN
  BY DEF JerRead
<1>4. CASE ~s.ok
  <2>1. e = s
    BY <1>4 DEF JerKey
  <2> HIDE DEF e
  <2> QED
    BY <1>4, <2>1 DEF JerRead, e
<1>5. CASE s.ok
  <2>1. /\ \A i \in 1..n : items[i].id \in Member =>
              /\ Takes("jer", items[i]) /\ s.c[items[i].id] = Value(items[i])
              /\ items[i].id \in s.seen \cup Optional
        /\ \A y \in Member : (\A i \in 1..n : items[i].id # y) =>
              y \notin s.seen /\ (y \in Optional => s.c[y] = Absent)
    BY <1>5 DEF JerRead
  <2>2. CASE m = Foreign
    <3>1. e = s
      BY <2>2 DEF JerKey
    <3>2. m \notin Member
      BY <2>2, TableFacts
    <3> HIDE DEF e, x
    <3>3. \A i \in 1..k : items[i].id \in Member => i \in 1..n
      BY <1>1, <3>2 DEF x
    <3> HIDE DEF k
    <3> QED
      BY <1>1, <1>3, <1>5, <2>1, <3>1, <3>3 DEF JerRead, e, x, k
  <2> HIDE DEF Value
  \* What a step that settles m has to show.
  <2>3. ASSUME m \in Member, NEW c, NEW seen, c = [s.c EXCEPT ![m] = Value(x)],
               Takes("jer", x), seen \in {s.seen \cup {m}, s.seen \ {m}},
               m \in seen \cup Optional, e = [ok |-> TRUE, c |-> c, seen |-> seen]
        PROVE  JerRead(items, e, k)
    <3>1. c = [y \in Member |-> c[y]] /\ c[m] = Value(x) /\ \A y \in Member \ {m} : c[y] = s.c[y]
      BY <1>3, <2>3
    <3>2. \A y \in Member \ {m} : y \in seen <=> y \in s.seen
      BY <2>3
    <3> HIDE DEF e, x, m
    <3>3. e.ok /\ e.c = c /\ e.seen = seen /\ e.ok \in BOOLEAN /\ e = [ok |-> e.ok, c |-> e.c, seen |-> e.seen]
      BY <2>3
    <3>4. ASSUME NEW i \in 1..k, items[i].id \in Member
          PROVE  /\ Takes("jer", items[i]) /\ c[items[i].id] = Value(items[i])
                 /\ items[i].id \in seen \cup Optional
      <4>1. CASE i = k
        BY <2>3, <3>1, <4>1 DEF x, m
      <4>2. CASE i \in 1..n
        <5>1. items[i].id \in Member \ {m}
          BY <1>2, <3>4, <4>2
        <5> QED
          BY <2>1, <3>1, <3>2, <4>2, <5>1
      <4> QED
        BY <1>1, <4>1, <4>2
    <3>5. ASSUME NEW y \in Member, \A i \in 1..k : items[i].id # y
          PROVE  y \notin seen /\ (y \in Optional => c[y] = Absent)
      <4>1. y # m /\ \A i \in 1..n : items[i].id # y
        BY <1>1, <3>5 DEF x, m
      <4> QED
        BY <2>1, <3>1, <3>2, <4>1
    <3> HIDE DEF k
    <3> QED
      BY <3>1, <3>3, <3>4, <3>5 DEF JerRead, Value
  <2>4. CASE m # Foreign /\ m \in Optional /\ x.val = Null /\ m \notin Nullable
    <3>1. e = [s EXCEPT !.c[m] = Absent, !.seen = @ \ {m}]
      BY <1>5, <2>4 DEF JerKey
    <3>2. e = [ok |-> TRUE, c |-> [s.c EXCEPT ![m] = Absent], seen |-> s.seen \ {m}]
      <4> HIDE DEF e, x, m
      <4> QED
        BY <1>3, <1>5, <3>1
    <3>3. m \in Member /\ Value(x) = Absent /\ Takes("jer", x)
      BY <2>4, TableFacts DEF Value, Takes
    <3> HIDE DEF e, x, m, k
    <3>4. JerRead(items, e, k)
      BY <2>3, <2>4, <3>2, <3>3
    <3> QED
      BY <3>4 DEF e, x, k
  <2>5. CASE m # Foreign /\ ~(m \in Optional /\ x.val = Null /\ m \notin Nullable)
    <3>1. e = [ok |-> d.ok, c |-> [s.c EXCEPT ![m] = d.val],
               seen |-> IF d.ok THEN s.seen \cup {m} ELSE s.seen]
      BY <1>5, <2>5 DEF JerKey
    <3>2. m \in Member
      BY <1>1, <2>5 DEF Item
    <3>3. (d.ok <=> Undamaged(m, x.val)) /\ (d.ok => d.val = x.val) /\ d.ok \in BOOLEAN
      <4>1. "jer" \in Tabular \cup {"jer"} /\ "jer" # "xer"
        OBVIOUS
      <4> HIDE DEF x
      <4> QED
        BY <1>1, <3>2, <4>1, DecodeValueFacts
    <3> HIDE DEF d, e
    <3>4. CASE d.ok
      <4>1. Value(x) = x.val /\ Takes("jer", x)
        BY <3>3, <3>4 DEF Undamaged, Value, Takes
      <4>2. e = [ok |-> TRUE, c |-> [s.c EXCEPT ![m] = Value(x)], seen |-> s.seen \cup {m}]
        BY <3>1, <3>3, <3>4, <4>1
      <4> HIDE DEF x, m, k
      <4>3. JerRead(items, e, k)
        BY <2>3, <3>2, <4>1, <4>2
      <4> QED
        BY <4>3 DEF e, x, k
    <3>5. CASE ~d.ok
      <4>1. ~Takes("jer", x)
        <5>1. ~Undamaged(m, x.val)
          BY <3>3, <3>5
        <5>2. ASSUME x.val = Null, m \in Nullable PROVE Undamaged(m, x.val)
          BY <5>2, TableFacts, TokenAssumption DEF Undamaged
        <5> QED
          BY <2>5, <5>1, <5>2 DEF Takes
      <4>2. ~Acceptable("jer", all)
        BY <1>1, <3>2, <4>1 DEF Acceptable
      <4>3. ~e.ok /\ e.ok \in BOOLEAN /\ e.c = [s.c EXCEPT ![m] = d.val]
            /\ e = [ok |-> e.ok, c |-> e.c, seen |-> e.seen]
        BY <3>1, <3>3, <3>5
      <4> HIDE DEF x, m
      <4>4. e.c = [y \in Member |-> e.c[y]]
        BY <1>3, <4>3
      <4> HIDE DEF k
      <4>5. JerRead(items, e, k)
        BY <4>2, <4>3, <4>4 DEF JerRead
      <4> QED
        BY <4>5 DEF e, x, k
    <3> QED
      BY <3>4, <3>5
  <2> QED
    BY <2>2, <2>4, <2>5
<1> QED
  BY <1>3, <1>4, <1>5

JerReading(c, items, n, f) ==
    f = [i \in 0..n |-> IF i = 0 THEN [ok |-> TRUE, c |-> JerCleared(c), seen |-> {}]
                        ELSE JerKey(f[i - 1], items[i])]

LEMMA JerReadingExists ==
    ASSUME NEW c, NEW items, NEW l \in Nat
    PROVE  \E f : JerReading(c, items, l, f)
<1> DEFINE S == {n \in Nat : \E f : JerReading(c, items, n, f)}
           begin == [ok |-> TRUE, c |-> JerCleared(c), seen |-> {}]
<1>1. 0 \in S
  <2>1. JerReading(c, items, 0, [i \in 0..0 |-> begin])
    BY DEF JerReading
  <2> QED
    BY <2>1
<1>2. ASSUME NEW n \in Nat, n \in S PROVE n + 1 \in S
  <2>1. PICK f : JerReading(c, items, n, f)
    BY <1>2
  <2> DEFINE g == [i \in 0..(n + 1) |-> IF i <= n THEN f[i] ELSE JerKey(f[n], items[n + 1])]
             h == [i \in 0..(n + 1) |-> IF i = 0 THEN begin ELSE JerKey(g[i - 1], items[i])]
  <2>2. \A i \in 0..n : f[i] = IF i = 0 THEN begin ELSE JerKey(f[i - 1], items[i])
    BY <2>1 DEF JerReading
  <2> HIDE DEF begin
  <2>3. ASSUME NEW i \in 0..(n + 1) PROVE g[i] = h[i]
    <3>1. CASE i <= n
      BY <2>2, <3>1
    <3>2. CASE i = n + 1
      BY <3>2
    <3> QED
      BY <3>1, <3>2
  <2>4. g = h
    BY <2>3
  <2> HIDE DEF g
  <2>5. JerReading(c, items, n + 1, g)
    BY <2>4 DEF JerReading, begin
  <2> QED
    BY <2>5
<1> HIDE DEF S
<1>3. l \in S
  BY <1>1, <1>2, Inductive
<1> QED
  BY <1>3 DEF S

LEMMA JerWalkReads ==
    ASSUME NEW c, NEW items \in Seq(Item), Once(items)
    PROVE  JerRead(items, JerWalk(c, items), Len(items))
<1> DEFINE l == Len(items)
           g == CHOOSE f : JerReading(c, items, l, f)
           S == {n \in Nat : n <= l => JerRead(items, g[n], n)}
<1>1. l \in Nat
  BY LenProperties
<1>2. JerReading(c, items, l, g)
  <2> HIDE DEF l
  <2> QED
    BY <1>1, JerReadingExists
<1>3. JerWalk(c, items) = g[l]
  BY DEF JerWalk, JerReading
<1> HIDE DEF g, l
<1>4. \A i \in 0..l : g[i] = IF i = 0 THEN [ok |-> TRUE, c |-> JerCleared(c), seen |-> {}]
                             ELSE JerKey(g[i - 1], items[i])
  BY <1>2 DEF JerReading
<1>5. 0 \in S
  <2>1. g[0] = [ok |-> TRUE, c |-> JerCleared(c), seen |-> {}]
    <3>1. 0 \in 0..l
      BY <1>1
    <3> QED
      BY <1>4, <3>1
  <2>2. /\ g[0] = [ok |-> g[0].ok, c |-> g[0].c, seen |-> g[0].seen]
        /\ g[0].ok = TRUE /\ g[0].seen = {} /\ g[0].c = JerCleared(c)
    BY <2>1
  <2>3. JerCleared(c) = [m \in Member |-> JerCleared(c)[m]]
        /\ \A m \in Member : m \in Optional => JerCleared(c)[m] = Absent
    BY DEF JerCleared
  <2>4. \A i \in 1..0 : FALSE
    OBVIOUS
  <2>5. JerRead(items, g[0], 0)
    BY <2>2, <2>3, <2>4 DEF JerRead
  <2> QED
    BY <2>5
<1>6. ASSUME NEW n \in Nat, n \in S PROVE n + 1 \in S
  <2> SUFFICES ASSUME n + 1 <= l PROVE JerRead(items, g[n + 1], n + 1)
    OBVIOUS
  <2>1. JerRead(items, g[n], n)
    BY <1>1, <1>6
  <2>2. g[n + 1] = JerKey(g[n], items[n + 1])
    <3>1. n + 1 \in 0..l /\ n + 1 # 0 /\ (n + 1) - 1 = n
      BY <1>1
    <3> QED
      BY <1>4, <3>1
  <2> QED
    BY <2>1, <2>2, JerStep DEF l
<1> HIDE DEF S
<1>7. l \in S
  BY <1>1, <1>5, <1>6, Inductive
<1> QED
  BY <1>1, <1>3, <1>7 DEF S, l

LEMMA JerDecodes ==
    ASSUME NEW c, NEW items \in Seq(Item), Once(items)
    PROVE  LET d == Decode("jer", c, items)
           IN  /\ d.ok = Acceptable("jer", ToSet(items))
               /\ d.ok => Decoded("jer", ToSet(items), d.c)
               /\ d.c = [m \in Member |-> d.c[m]]
<1> DEFINE all == ToSet(items)
           s == JerWalk(c, items)
           d == Decode("jer", c, items)
           l == Len(items)
<1>1. d = [ok |-> s.ok /\ Member \ Optional \subseteq s.seen, c |-> s.c]
  BY DEF Decode, DecodeObject
<1>2. JerRead(items, s, l)
  BY JerWalkReads
<1>3. /\ l \in Nat /\ \A i \in 1..l : items[i] \in Item /\ items[i] \in all
      /\ \A x \in all : x \in Item /\ \E i \in 1..l : items[i] = x
  BY ItemsAre
<1> HIDE DEF s, d, all, l
<1>4. d.ok = (s.ok /\ Member \ Optional \subseteq s.seen) /\ d.c = s.c
  BY <1>1
<1>5. s.ok \in BOOLEAN /\ s.c = [m \in Member |-> s.c[m]] /\ (~s.ok => ~Acceptable("jer", all))
  BY <1>2 DEF JerRead, all
<1>6. ASSUME s.ok
      PROVE  /\ Member \ Optional \subseteq s.seen <=> Acceptable("jer", all)
             /\ Acceptable("jer", all) => Decoded("jer", all, s.c)
  <2>1. ASSUME NEW x \in all, x.id \in Member
        PROVE  /\ Takes("jer", x) /\ x.id \in s.seen \cup Optional
               /\ s.c[x.id] = IF x.val = Null /\ x.id \notin Nullable THEN Absent ELSE x.val
    <3>1. PICK i \in 1..l : items[i] = x
      BY <1>3
    <3>2. items[i].id \in Member
      BY <2>1, <3>1
    <3> QED
      BY <1>2, <1>6, <3>1, <3>2 DEF JerRead
  <2>2. ASSUME NEW m \in Member, \A x \in all : x.id # m
        PROVE  m \notin s.seen /\ (m \in Optional => s.c[m] = Absent)
    BY <1>2, <1>3, <1>6, <2>2 DEF JerRead
  <2>3. Member \ Optional \subseteq s.seen <=> Acceptable("jer", all)
    BY <2>1, <2>2 DEF Acceptable
  <2>4. ASSUME Acceptable("jer", all), NEW m \in Member, \A x \in all : x.id # m
        PROVE  s.c[m] = AbsentIn("jer", m)
    BY <2>2, <2>4 DEF AbsentIn, Acceptable
  <2>5. ASSUME NEW m \in Member, NEW x \in all, x.id = m
        PROVE  s.c[m] = IF x.val = Null /\ m \notin Nullable THEN Absent ELSE x.val
    BY <2>1, <2>5
  <2> QED
    BY <1>5, <2>3, <2>4, <2>5 DEF Decoded
<1>7. Acceptable("jer", all) \in BOOLEAN
  BY DEF Acceptable
<1> QED
  BY <1>4, <1>5, <1>6, <1>7 DEF d, all

-----------------------------------------------------------------------------
(* What is sent, and each change of it, fits what is meant.                *)

LEMMA SentFits ==
    ASSUME NEW r, NEW c, Valid(c), NEW meant, Alike(Meaning(c), meant)
    PROVE  Encode(r, c) \in Seq(Item) /\ Fits(r, Encode(r, c), meant, TRUE)
<1> DEFINE items == Encode(r, c)
           l == Len(items)
           all == ToSet(items)
<1>1. Coded(r, c, items, N)
  BY EncodeCodes
<1> HIDE DEF items
<1>2. items \in Seq(Item)
  BY <1>1 DEF Coded
<1>3. /\ l \in Nat /\ \A i \in 1..l : items[i] \in Item /\ items[i] \in all
      /\ \A x \in all : x \in Item /\ \E i \in 1..l : items[i] = x
  BY <1>2, ItemsAre
<1>4. /\ \A x \in all : \E m \in Member : ~LeftOut(r, c, m) /\ x = Sent(r, c, m)
      /\ \A m \in Member : ~LeftOut(r, c, m) => Sent(r, c, m) \in all
  <2>1. Member = 1..N
    BY TableFacts
  <2>2. /\ \A i \in 1..l : \E m \in Member : ~LeftOut(r, c, m) /\ items[i] = Sent(r, c, m)
        /\ \A m \in Member : ~LeftOut(r, c, m) => \E i \in 1..l : items[i] = Sent(r, c, m)
    BY <1>1, <2>1 DEF Coded
  <2> HIDE DEF l, all
  <2>3. \A x \in all : \E m \in Member : ~LeftOut(r, c, m) /\ x = Sent(r, c, m)
    BY <1>3, <2>2
  <2>4. \A m \in Member : ~LeftOut(r, c, m) => Sent(r, c, m) \in all
    BY <1>3, <2>2
  <2> QED
    BY <2>3, <2>4
<1>5. \A i, j \in 1..l : i < j => items[i].id < items[j].id
  BY <1>1 DEF Coded
<1>6. \A x \in all : x.id \in Member /\ x.id # Foreign /\ x.id \in Nat /\ Rank(x) = x.id
  BY <1>4, TableFacts DEF Sent, Rank
<1>7. ASSUME NEW m \in Member, ~LeftOut(r, c, m)
      PROVE  /\ c[m] \in Vals(m) /\ Sent(r, c, m).id = m
             /\ Takes(r, Sent(r, c, m)) /\ Says(Sent(r, c, m)) = OnWire(r, m, c[m])
             /\ Same(m, OnWire(r, m, c[m]), c[m])
  <2>1. c[m] \in Vals(m)
    BY <1>7 DEF Valid, LeftOut
  <2>2. OnWire(r, m, c[m]) \in Vals(m) /\ Same(m, OnWire(r, m, c[m]), c[m])
    BY <2>1, OnWireFacts
  <2> QED
    BY <2>1, <2>2, SentItem DEF Sent
<1>8. Once(items)
  <2> SUFFICES ASSUME NEW i \in 1..l, NEW j \in 1..l, items[i].id = items[j].id PROVE i = j
    BY DEF Once
  <2>1. items[i].id \in Nat /\ items[j].id \in Nat
    BY <1>3, <1>6
  <2> HIDE DEF l
  <2> QED
    BY <1>3, <1>5, <2>1
<1>9. InOrder(items)
  BY <1>3, <1>5, <1>6 DEF InOrder
<1> HIDE DEF all, l
<1>10. Acceptable(r, all)
  <2>1. ASSUME NEW m \in Member \ Optional PROVE \E x \in all : x.id = m
    <3>1. c[m] \in Vals(m)
      BY DEF Valid
    <3>2. ~LeftOut(r, c, m)
      BY <3>1, ValueFacts, TableFacts DEF LeftOut
    <3> QED
      BY <1>4, <1>7, <3>2
  <2> QED
    BY <1>4, <1>7, <2>1 DEF Acceptable
<1>11. Conveys(all, meant)
  <2>1. ASSUME NEW m \in Member, NEW x \in all, x.id = m PROVE Same(m, Says(x), meant[m])
    <3>1. ~LeftOut(r, c, m) /\ x = Sent(r, c, m)
      BY <1>4, <1>7, <2>1
    <3>2. Same(m, Says(x), c[m]) /\ c[m] \in Vals(m)
      BY <1>7, <3>1
    <3>3. Meaning(c)[m] = c[m]
      BY <3>2, ValueFacts DEF Meaning
    <3> QED
      BY <3>2, <3>3, SameFacts DEF Alike
  <2>2. ASSUME NEW m \in Member, \A x \in all : x.id # m
        PROVE  Same(m, DefaultOrAbsent(m), meant[m])
    <3>1. LeftOut(r, c, m)
      BY <1>4, <1>7, <2>2
    <3>2. Meaning(c)[m] = DefaultOrAbsent(m)
      BY <3>1 DEF LeftOut, Meaning, DefaultOrAbsent
    <3> QED
      BY <3>2 DEF Alike
  <2> QED
    BY <2>1, <2>2 DEF Conveys
<1> QED
  BY <1>2, <1>6, <1>8, <1>9, <1>10, <1>11 DEF Fits, items, all

LEMMA SwapFits ==
    ASSUME NEW q \in Message, Wire(q), q.rule = "jer" \/ (q.rule = "ber" /\ IsSet),
           NEW i \in 1..(Len(q.items) - 1)
    PROVE  LET w == [q.items EXCEPT ![i] = q.items[i + 1], ![i + 1] = q.items[i]]
           IN  w \in Seq(Item) /\ Fits(q.rule, w, q.meant, q.sound)
<1> DEFINE s == q.items
           l == Len(s)
           w == [s EXCEPT ![i] = s[i + 1], ![i + 1] = s[i]]
           from(k) == IF k = i THEN i + 1 ELSE IF k = i + 1 THEN i ELSE k
<1>1. s \in Seq(Item) /\ Fits(q.rule, s, q.meant, q.sound)
  BY DEF Message, Wire
<1>2. l \in Nat /\ s \in [1..l -> Item] /\ i \in 1..l /\ i + 1 \in 1..l /\ ToSet(s) = {s[k] : k \in 1..l}
  BY <1>1, ItemsAre
<1> HIDE DEF l
<1>3. w \in [1..l -> Item] /\ \A k \in 1..l : from(k) \in 1..l /\ w[k] = s[from(k)]
  BY <1>2
<1> HIDE DEF w
<1>4. w \in Seq(Item) /\ Len(w) = l
  BY <1>2, <1>3
<1>5. ToSet(w) = {w[k] : k \in 1..l}
  BY <1>4, ItemsAre
<1>6. \A k \in 1..l : from(k) \in 1..l /\ from(from(k)) = k
  BY <1>2
<1> HIDE DEF from
<1>7. ToSet(w) = ToSet(s)
  <2>1. \A k \in 1..l : \E j \in 1..l : w[k] = s[j]
    BY <1>3
  <2>2. \A k \in 1..l : \E j \in 1..l : s[k] = w[j]
    <3> SUFFICES ASSUME NEW k \in 1..l PROVE s[k] = w[from(k)] /\ from(k) \in 1..l
      OBVIOUS
    <3> QED
      BY <1>3, <1>6
  <2>3. ToSet(s) = {s[k] : k \in 1..l}
    BY <1>2
  <2> HIDE DEF s
  <2>4. \A x : x \in ToSet(w) <=> \E k \in 1..l : x = w[k]
    BY <1>5
  <2>5. \A x : x \in ToSet(s) <=> \E k \in 1..l : x = s[k]
    BY <2>3
  <2>6. \A x : x \in ToSet(w) <=> x \in ToSet(s)
    <3>1. ASSUME NEW x, x \in ToSet(w) PROVE x \in ToSet(s)
      <4>1. PICK k \in 1..l : x = w[k]
        BY <2>4, <3>1
      <4>2. PICK j \in 1..l : w[k] = s[j]
        BY <2>1
      <4> QED
        BY <2>5, <4>1, <4>2
    <3>2. ASSUME NEW x, x \in ToSet(s) PROVE x \in ToSet(w)
      <4>1. PICK k \in 1..l : x = s[k]
        BY <2>5, <3>2
      <4>2. PICK j \in 1..l : s[k] = w[j]
        BY <2>2
      <4> QED
        BY <2>4, <4>1, <4>2
    <3> QED
      BY <3>1, <3>2
  <2> QED
    BY <2>6
<1>8. Once(w)
  <2> SUFFICES ASSUME NEW j \in 1..l, NEW k \in 1..l, w[j].id = w[k].id PROVE j = k
    BY <1>4 DEF Once
  <2>1. \A a, b \in 1..l : s[a].id = s[b].id => a = b
    BY <1>1 DEF Fits, Once, l
  <2>2. from(j) \in 1..l /\ from(k) \in 1..l /\ s[from(j)].id = s[from(k)].id
    BY <1>3
  <2>3. from(j) = from(k)
    BY <2>1, <2>2
  <2> QED
    BY <1>6, <2>3
<1> QED
  BY <1>1, <1>4, <1>7, <1>8 DEF Fits, w

\* An item more, for a member that was absent: what absence means, spelled
\* out, or an addition.
LEMMA InsertedFits ==
    ASSUME NEW q \in Message, Wire(q), NEW i \in 1..(Len(q.items) + 1), NEW x \in Item,
           \A k \in 1..Len(q.items) : q.items[k].id # x.id,
           q.rule \in {"per", "xer"} \/ (q.rule = "ber" /\ ~IsSet) =>
               \A k \in 1..Len(q.items) : /\ k < i => Rank(q.items[k]) < Rank(x)
                                          /\ k >= i => Rank(x) < Rank(q.items[k]),
           q.rule \in {"per", "xer"} => x.id # Foreign,
           \/ x.id = Foreign
           \/ /\ x.id \in Optional /\ Takes(q.rule, x)
              /\ Same(x.id, Says(x), DefaultOrAbsent(x.id))
    PROVE  /\ InsertAt(q.items, i, x) \in Seq(Item)
           /\ Fits(q.rule, InsertAt(q.items, i, x), q.meant, q.sound)
<1> DEFINE r == q.rule
           s == q.items
           l == Len(s)
           w == InsertAt(s, i, x)
           all == ToSet(s)
           from(k) == IF k < i THEN k ELSE k - 1
<1>1. s \in Seq(Item) /\ Fits(r, s, q.meant, q.sound)
  BY DEF Message, Wire
<1>2. /\ l \in Nat /\ \A k \in 1..l : s[k] \in Item
      /\ \A y \in all : y \in Item /\ \E k \in 1..l : s[k] = y
  BY <1>1, ItemsAre
<1>3. /\ w \in Seq(Item) /\ Len(w) = l + 1 /\ ToSet(w) = all \cup {x}
      /\ \A k \in 1..(l + 1) : w[k] = IF k < i THEN s[k] ELSE IF k = i THEN x ELSE s[k - 1]
  <2>1. w \in Seq(Item) /\ Inserts(s, i, x, w) /\ ToSet(w) = all \cup {x}
    BY <1>1, Inserted
  <2> HIDE DEF w, all
  <2> QED
    BY <2>1 DEF Inserts
<1>4. \A y \in all : y.id # x.id
  BY <1>2
<1> HIDE DEF w, all, l, s, r
<1>5. i \in 1..(l + 1) /\ \A k \in 1..l : s[k].id # x.id
  BY DEF l, s
<1>6. Once(w)
  <2>1. \A j, k \in 1..l : s[j].id = s[k].id => j = k
    BY <1>1 DEF Fits, Once, l
  <2> SUFFICES ASSUME NEW j \in 1..(l + 1), NEW k \in 1..(l + 1), w[j].id = w[k].id PROVE j = k
    BY <1>3 DEF Once
  <2>2. ASSUME NEW h \in 1..(l + 1), h # i
        PROVE  from(h) \in 1..l /\ w[h] = s[from(h)] /\ w[h].id # x.id
    BY <1>2, <1>3, <1>5, <2>2
  <2>3. w[i] = x
    BY <1>3, <1>5
  <2>4. CASE j # i /\ k # i
    <3>1. from(j) = from(k)
      BY <2>1, <2>2, <2>4
    <3> QED
      BY <1>2, <1>5, <2>4, <3>1
  <2> QED
    BY <2>2, <2>3, <2>4
<1>7. ASSUME r \in {"per", "xer"} \/ (r = "ber" /\ ~IsSet) PROVE InOrder(w)
  <2>1. \A k \in 1..l : (k < i => Rank(s[k]) < Rank(x)) /\ (k >= i => Rank(x) < Rank(s[k]))
    BY <1>7 DEF l, s, r
  <2>2. \A j, k \in 1..l : j < k => Rank(s[j]) < Rank(s[k])
    BY <1>1, <1>7 DEF Fits, InOrder, l
  <2>3. Rank(x) \in Nat /\ \A k \in 1..l : Rank(s[k]) \in Nat
    BY <1>2, RankFacts, TableFacts
  <2> SUFFICES ASSUME NEW j \in 1..(l + 1), NEW k \in 1..(l + 1), j < k
               PROVE  Rank(w[j]) < Rank(w[k])
    BY <1>3 DEF InOrder
  <2>4. \A h \in 1..(l + 1) : h # i => from(h) \in 1..l /\ w[h] = s[from(h)]
    BY <1>2, <1>3, <1>5
  <2>5. w[i] = x
    BY <1>3, <1>5
  <2>6. CASE j = i
    <3>1. from(k) \in 1..l /\ from(k) >= i /\ w[k] = s[from(k)]
      BY <1>2, <1>5, <2>4, <2>6
    <3> QED
      BY <2>1, <2>5, <2>6, <3>1
  <2>7. CASE k = i
    <3>1. j \in 1..l /\ j < i /\ w[j] = s[j]
      BY <1>2, <1>3, <1>5, <2>7
    <3> QED
      BY <2>1, <2>5, <2>7, <3>1
  <2>8. CASE j # i /\ k # i
    <3>1. from(j) < from(k)
      BY <1>2, <1>5, <2>8
    <3> QED
      BY <2>2, <2>4, <2>8, <3>1
  <2> QED
    BY <2>6, <2>7, <2>8
<1>8. ASSUME r \in {"per", "xer"} PROVE \A y \in ToSet(w) : y.id # Foreign
  BY <1>1, <1>3, <1>8 DEF Fits, all, r
<1>9. /\ x.id \in Member => x.id \in Optional /\ Takes(r, x)
                            /\ Same(x.id, Says(x), DefaultOrAbsent(x.id))
  BY TableFacts DEF r
<1>10. Acceptable(r, ToSet(w)) = Acceptable(r, all)
  BY <1>3, <1>9 DEF Acceptable
<1>11. ASSUME Conveys(all, q.meant) PROVE Conveys(ToSet(w), q.meant)
  <2>1. ASSUME NEW m \in Member, NEW y \in ToSet(w), y.id = m PROVE Same(m, Says(y), q.meant[m])
    <3>1. CASE y = x
      <4>1. Same(m, Says(x), DefaultOrAbsent(m)) /\ Same(m, DefaultOrAbsent(m), q.meant[m])
        BY <1>4, <1>9, <1>11, <2>1, <3>1 DEF Conveys
      <4> QED
        BY <3>1, <4>1, SameFacts
    <3>2. CASE y # x
      BY <1>3, <1>11, <2>1, <3>2 DEF Conveys
    <3> QED
      BY <3>1, <3>2
  <2>2. ASSUME NEW m \in Member, \A y \in ToSet(w) : y.id # m
        PROVE  Same(m, DefaultOrAbsent(m), q.meant[m])
    BY <1>3, <1>11, <2>2 DEF Conveys
  <2> QED
    BY <2>1, <2>2 DEF Conveys
<1>12. Fits(r, w, q.meant, q.sound)
  BY <1>1, <1>6, <1>7, <1>8, <1>10, <1>11 DEF Fits, all
<1> QED
  BY <1>3, <1>12 DEF r, s, w

LEMMA AppendInserts ==
    ASSUME NEW X, NEW s \in Seq(X), NEW e \in X
    PROVE  Append(s, e) = InsertAt(s, Len(s) + 1, e)
<1> DEFINE n == Len(s)
           w == InsertAt(s, n + 1, e)
           v == Append(s, e)
<1>1. n \in Nat /\ n + 1 \in 1..(n + 1)
  BY LenProperties
<1>2. /\ w \in Seq(X) /\ Len(w) = n + 1
      /\ \A k \in 1..(n + 1) : w[k] = IF k < n + 1 THEN s[k] ELSE IF k = n + 1 THEN e ELSE s[k - 1]
  <2>1. w \in Seq(X) /\ Inserts(s, n + 1, e, w)
    BY <1>1, Inserted
  <2> HIDE DEF w
  <2> QED
    BY <2>1 DEF Inserts
<1>3. /\ v \in Seq(X) /\ Len(v) = n + 1 /\ v[n + 1] = e /\ \A k \in 1..n : v[k] = s[k]
  BY AppendProperties
<1> HIDE DEF w, v, n
<1>4. \A k \in 1..(n + 1) : w[k] = v[k]
  BY <1>1, <1>2, <1>3
<1>5. w = v
  BY <1>1, <1>2, <1>3, <1>4, SeqEqual
<1> QED
  BY <1>5 DEF w, v, n

LEMMA AddFits ==
    ASSUME NEW q \in Message, Wire(q),
           \A k \in 1..Len(q.items) : q.items[k].id # Foreign,
           NEW i,
           \/ q.rule = "jer" /\ i \in 1..(Len(q.items) + 1)
           \/ q.rule = "ber" /\ (IF IsSet THEN i \in 1..(Len(q.items) + 1) ELSE i = Len(q.items) + 1)
    PROVE  LET w == InsertAt(q.items, i, [id |-> Foreign, val |-> Broken])
           IN  w \in Seq(Item) /\ Fits(q.rule, w, q.meant, q.sound)
<1> DEFINE x == [id |-> Foreign, val |-> Broken]
<1>1. x \in Item
  BY DEF Item
<1>2. /\ q.items \in Seq(Item) /\ Len(q.items) \in Nat
      /\ \A k \in 1..Len(q.items) : q.items[k] \in Item
  BY ItemsAre DEF Message
<1>3. i \in 1..(Len(q.items) + 1) /\ q.rule \notin {"per", "xer"}
  BY <1>2
<1>4. ASSUME q.rule = "ber", ~IsSet, NEW k \in 1..Len(q.items)
      PROVE  k < i /\ Rank(q.items[k]) < Rank(x)
  <2>1. Rank(q.items[k]) \in 1..(N + 1) /\ Rank(q.items[k]) # N + 1 /\ Rank(x) = N + 1
    BY <1>1, <1>2, RankFacts
  <2> QED
    BY <1>2, <1>4, <2>1, TableFacts
<1>5. \A k \in 1..Len(q.items) : k < i => ~(k >= i)
  BY <1>2, <1>3
<1> QED
  BY <1>1, <1>3, <1>4, <1>5, InsertedFits

LEMMA SpellNullFits ==
    ASSUME NEW q \in Message, Wire(q), q.rule = "jer", NEW m \in Optional \ Nullable,
           \A k \in 1..Len(q.items) : q.items[k].id # m
    PROVE  LET w == Append(q.items, [id |-> m, val |-> Null])
           IN  w \in Seq(Item) /\ Fits(q.rule, w, q.meant, q.sound)
<1> DEFINE x == [id |-> m, val |-> Null]
<1>1. x \in Item /\ m \in Member
  BY TableFacts DEF Item
<1>2. Takes("jer", x) /\ Says(x) = DefaultOrAbsent(m) /\ Same(m, Says(x), DefaultOrAbsent(m))
  BY SameFacts DEF Takes, Says
<1>3. q.items \in Seq(Item) /\ Len(q.items) + 1 \in 1..(Len(q.items) + 1)
  BY ItemsAre DEF Message
<1>4. Append(q.items, x) = InsertAt(q.items, Len(q.items) + 1, x)
  BY <1>1, <1>3, AppendInserts
<1> QED
  BY <1>1, <1>2, <1>3, <1>4, InsertedFits

LEMMA SpellDefaultFits ==
    ASSUME NEW q \in Message, Wire(q), NEW m \in Default,
           \A k \in 1..Len(q.items) : q.items[k].id # m /\ q.items[k].id # Foreign,
           NEW i \in 1..(Len(q.items) + 1),
           \A k \in 1..Len(q.items) : (k < i) <=> (q.items[k].id < m)
    PROVE  LET w == InsertAt(q.items, i, [id |-> m, val |-> OnWire(q.rule, m, Dflt[m])])
           IN  w \in Seq(Item) /\ Fits(q.rule, w, q.meant, q.sound)
<1> DEFINE v == OnWire(q.rule, m, Dflt[m])
           x == [id |-> m, val |-> v]
<1>1. m \in Member /\ Dflt[m] \in Vals(m) /\ DefaultOrAbsent(m) = Dflt[m]
  BY TableFacts, AbsenceFacts
<1>2. v \in Vals(m) /\ Same(m, v, Dflt[m])
  BY <1>1, OnWireFacts
<1> HIDE DEF v
<1>3. x \in Item /\ Takes(q.rule, x) /\ Says(x) = v
  BY <1>1, <1>2, SentItem
<1>4. /\ q.items \in Seq(Item) /\ Len(q.items) \in Nat
      /\ \A k \in 1..Len(q.items) : q.items[k] \in Item
  BY ItemsAre DEF Message
<1>5. ASSUME NEW k \in 1..Len(q.items)
      PROVE  (k < i => Rank(q.items[k]) < Rank(x)) /\ (k >= i => Rank(x) < Rank(q.items[k]))
  <2>1. /\ q.items[k].id \in Nat /\ m \in Nat /\ q.items[k].id # m
        /\ Rank(q.items[k]) = q.items[k].id /\ Rank(x) = m
    BY <1>1, <1>4, TableFacts DEF Item, Rank
  <2> QED
    BY <1>4, <2>1
<1> QED
  BY <1>1, <1>2, <1>3, <1>5, TableFacts, InsertedFits DEF v

LEMMA DropFits ==
    ASSUME NEW q \in Message, Wire(q), q.sound, NEW i \in 1..Len(q.items),
           q.items[i].id # Foreign
    PROVE  LET m == q.items[i].id
               w == RemoveAt(q.items, i)
               meant == [q.meant EXCEPT ![m] = DefaultOrAbsent(m)]
           IN  /\ w \in Seq(Item) /\ meant \in [Member -> AnyValue]
               /\ Fits(q.rule, w, meant, m \in Optional)
<1> DEFINE r == q.rule
           s == q.items
           l == Len(s)
           x == s[i]
           m == x.id
           w == RemoveAt(s, i)
           all == ToSet(s)
           meant == [q.meant EXCEPT ![m] = DefaultOrAbsent(m)]
           from(k) == IF k < i THEN k ELSE k + 1
<1>1. s \in Seq(Item) /\ Fits(r, s, q.meant, q.sound)
  BY DEF Message, Wire
<1>2. /\ l \in Nat /\ i \in 1..l /\ \A k \in 1..l : s[k] \in Item /\ s[k] \in all
      /\ \A y \in all : y \in Item /\ \E k \in 1..l : s[k] = y
  BY <1>1, ItemsAre
<1>3. \A j, k \in 1..l : s[j].id = s[k].id => j = k
  BY <1>1 DEF Fits, Once
<1>4. x \in all /\ m \in Member /\ \A y \in all : y.id = m => y = x
  <2>1. x \in Item /\ x \in all
    BY <1>2
  <2>2. m \in Member
    BY <2>1 DEF Item
  <2>3. ASSUME NEW y \in all, y.id = m PROVE y = x
    <3>1. PICK k \in 1..l : s[k] = y
      BY <1>2
    <3>2. k = i
      BY <1>2, <1>3, <2>3, <3>1
    <3> QED
      BY <3>1, <3>2
  <2> QED
    BY <2>1, <2>2, <2>3
<1>5. /\ w \in Seq(Item) /\ Len(w) = l - 1 /\ ToSet(w) = all \ {x}
      /\ \A k \in 1..(l - 1) : w[k] = s[from(k)]
  <2>1. \A j, k \in 1..l : s[j] = s[k] => j = k
    BY <1>3
  <2>2. w \in Seq(Item) /\ Removes(s, i, w) /\ ToSet(w) = all \ {x}
    BY <1>1, <2>1, Removed
  <2> HIDE DEF w, all, x
  <2> QED
    BY <2>2 DEF Removes
<1>6. \A j, k \in 1..(l - 1) : /\ from(k) \in 1..l
                               /\ from(j) = from(k) => j = k
                               /\ j < k => from(j) < from(k)
  <2> SUFFICES ASSUME NEW j \in 1..(l - 1), NEW k \in 1..(l - 1)
               PROVE  /\ from(k) \in 1..l
                      /\ from(j) = from(k) => j = k
                      /\ j < k => from(j) < from(k)
    OBVIOUS
  <2>1. l \in Nat /\ i \in 1..l
    BY <1>2
  <2> HIDE DEF l, s
  <2> QED
    BY <2>1
<1>7. meant \in [Member -> AnyValue] /\ meant[m] = DefaultOrAbsent(m)
      /\ \A n \in Member : n # m => meant[n] = q.meant[n]
  <2>1. q.meant \in [Member -> AnyValue]
    BY DEF Message
  <2>2. DefaultOrAbsent(m) \in AnyValue
    BY <1>4, AbsenceFacts
  <2> HIDE DEF m
  <2> QED
    BY <1>4, <2>1, <2>2
<1> HIDE DEF w, all, l, s, r, meant, from
<1>8. Once(w)
  <2> SUFFICES ASSUME NEW j \in 1..(l - 1), NEW k \in 1..(l - 1), w[j].id = w[k].id PROVE j = k
    BY <1>5 DEF Once
  <2>1. from(j) = from(k)
    BY <1>3, <1>5, <1>6
  <2> QED
    BY <1>6, <2>1
<1>9. ASSUME r \in {"per", "xer"} \/ (r = "ber" /\ ~IsSet) PROVE InOrder(w)
  <2>1. \A j, k \in 1..l : j < k => Rank(s[j]) < Rank(s[k])
    BY <1>1, <1>9 DEF Fits, InOrder, l
  <2> QED
    BY <1>5, <1>6, <2>1 DEF InOrder
<1>10. ASSUME r \in {"per", "xer"} PROVE \A y \in ToSet(w) : y.id # Foreign
  BY <1>1, <1>5, <1>10 DEF Fits, all
<1>11. Acceptable(r, all) /\ Conveys(all, q.meant)
  BY <1>1 DEF Fits, all
<1>12. (m \in Optional) = Acceptable(r, ToSet(w))
  <2>1. ASSUME m \in Optional PROVE Acceptable(r, ToSet(w))
    <3>1. ASSUME NEW n \in Member \ Optional PROVE \E y \in ToSet(w) : y.id = n
      <4>1. PICK y \in all : y.id = n
        BY <1>11 DEF Acceptable
      <4> QED
        BY <1>5, <2>1, <4>1
    <3> QED
      BY <1>5, <1>11, <3>1 DEF Acceptable
  <2>2. ASSUME m \notin Optional PROVE ~Acceptable(r, ToSet(w))
    BY <1>4, <1>5, <2>2 DEF Acceptable
  <2>3. Acceptable(r, ToSet(w)) \in BOOLEAN
    BY DEF Acceptable
  <2> QED
    BY <2>1, <2>2, <2>3
<1>13. Conveys(ToSet(w), meant)
  <2>1. ASSUME NEW n \in Member, NEW y \in ToSet(w), y.id = n PROVE Same(n, Says(y), meant[n])
    <3>1. n # m /\ y \in all
      BY <1>4, <1>5, <2>1
    <3> QED
      BY <1>7, <1>11, <2>1, <3>1 DEF Conveys
  <2>2. ASSUME NEW n \in Member, \A y \in ToSet(w) : y.id # n
        PROVE  Same(n, DefaultOrAbsent(n), meant[n])
    <3>1. CASE n = m
      BY <1>7, <3>1, SameFacts
    <3>2. CASE n # m
      <4>1. \A y \in all : y.id # n
        BY <1>5, <2>2, <3>2
      <4> QED
        BY <1>7, <1>11, <3>2, <4>1 DEF Conveys
    <3> QED
      BY <3>1, <3>2
  <2> QED
    BY <2>1, <2>2 DEF Conveys
<1>14. Fits(r, w, meant, m \in Optional)
  BY <1>8, <1>9, <1>10, <1>12, <1>13 DEF Fits
<1> QED
  BY <1>5, <1>7, <1>14 DEF w, s, r, meant

\* A value that no decoder takes in the place of one that was there.
LEMMA DamagedFits ==
    ASSUME NEW q \in Message, Wire(q), NEW i \in 1..Len(q.items), NEW x \in Item,
           x.id = q.items[i].id, x.id # Foreign, ~Takes(q.rule, x)
    PROVE  LET w == [q.items EXCEPT ![i] = x]
           IN  w \in Seq(Item) /\ Fits(q.rule, w, q.meant, FALSE)
<1> DEFINE r == q.rule
           s == q.items
           l == Len(s)
           w == [s EXCEPT ![i] = x]
<1>1. s \in Seq(Item) /\ Fits(r, s, q.meant, q.sound)
  BY DEF Message, Wire
<1>2. /\ l \in Nat /\ i \in 1..l /\ s \in [1..l -> Item] /\ \A k \in 1..l : s[k] \in ToSet(s)
  BY <1>1, ItemsAre
<1>3. s[i].id = x.id
  OBVIOUS
<1> HIDE DEF l, s
<1>4. w \in [1..l -> Item] /\ w[i] = x /\ \A k \in 1..l : w[k].id = s[k].id
  BY <1>2, <1>3
<1> HIDE DEF w
<1>5. w \in Seq(Item) /\ Len(w) = l
  BY <1>2, <1>4
<1>6. ToSet(w) = {w[k] : k \in 1..l}
  BY <1>5, ItemsAre
<1>7. Once(w)
  BY <1>1, <1>4, <1>5 DEF Fits, Once, l
<1>8. ASSUME r \in {"per", "xer"} \/ (r = "ber" /\ ~IsSet) PROVE InOrder(w)
  <2>1. \A j, k \in 1..l : j < k => Rank(s[j]) < Rank(s[k])
    BY <1>1, <1>8 DEF Fits, InOrder, l
  <2>2. \A k \in 1..l : Rank(w[k]) = Rank(s[k])
    BY <1>4 DEF Rank
  <2> QED
    BY <1>5, <2>1, <2>2 DEF InOrder
<1>9. ASSUME r \in {"per", "xer"} PROVE \A y \in ToSet(w) : y.id # Foreign
  BY <1>1, <1>2, <1>4, <1>6, <1>9 DEF Fits
<1>10. ~Acceptable(r, ToSet(w))
  <2>1. x \in ToSet(w) /\ x.id \in Member
    BY <1>2, <1>4, <1>6 DEF Item
  <2> QED
    BY <2>1 DEF Acceptable
<1>11. Acceptable(r, ToSet(w)) \in BOOLEAN
  BY DEF Acceptable
<1>12. Fits(r, w, q.meant, FALSE)
  BY <1>7, <1>8, <1>9, <1>10, <1>11 DEF Fits
<1> QED
  BY <1>5, <1>12 DEF w, s

-----------------------------------------------------------------------------
(* What an object means after a decode.                                    *)

LEMMA DecodedMeans ==
    ASSUME NEW r, NEW all \in SUBSET Item, NEW meant, NEW c,
           Acceptable(r, all), Conveys(all, meant), Decoded(r, all, c)
    PROVE  Valid(c) /\ Alike(Meaning(c), meant)
<1>1. SUFFICES ASSUME NEW m \in Member
               PROVE  /\ c[m] \in Vals(m) \/ (m \in Optional /\ c[m] = Absent)
                      /\ Same(m, Meaning(c)[m], meant[m])
  BY DEF Valid, Alike
<1>2. ASSUME NEW x \in all, x.id = m, x.val = Null, m \notin Nullable
      PROVE  /\ c[m] \in Vals(m) \/ (m \in Optional /\ c[m] = Absent)
             /\ Same(m, Meaning(c)[m], meant[m])
  <2>1. m \in Optional
    BY <1>2 DEF Acceptable, Takes, Undamaged
  <2>2. c[m] = Absent
    BY <1>2 DEF Decoded
  <2>3. Meaning(c)[m] = DefaultOrAbsent(m) /\ Says(x) = DefaultOrAbsent(m)
    BY <1>2, <2>2 DEF Meaning, Says
  <2>4. Same(m, Says(x), meant[m])
    BY <1>2 DEF Conveys
  <2> QED
    BY <2>1, <2>2, <2>3, <2>4
<1>3. ASSUME NEW x \in all, x.id = m, ~(x.val = Null /\ m \notin Nullable)
      PROVE  /\ c[m] \in Vals(m)
             /\ Same(m, Meaning(c)[m], meant[m])
  <2>1. Undamaged(m, x.val)
    <3>1. Takes(r, x)
      BY <1>3 DEF Acceptable
    <3>2. x.val = Null => x.val # Broken /\ m \notin List
      BY <1>3, TokenAssumption, TableFacts
    <3> QED
      BY <1>3, <3>1, <3>2 DEF Takes, Undamaged
  <2>2. x.val \in Vals(m)
    BY <1>3, <2>1, TakenValue
  <2>3. c[m] = x.val
    BY <1>3 DEF Decoded
  <2>4. Meaning(c)[m] = x.val /\ Says(x) = x.val
    BY <1>3, <2>2, <2>3, ValueFacts DEF Meaning, Says
  <2>5. Same(m, Says(x), meant[m])
    BY <1>3 DEF Conveys
  <2> QED
    BY <2>2, <2>3, <2>4, <2>5
<1>4. ASSUME \A x \in all : x.id # m
      PROVE  /\ c[m] \in Vals(m) \/ (m \in Optional /\ c[m] = Absent)
             /\ Same(m, Meaning(c)[m], meant[m])
  <2>1. m \in Optional
    BY <1>4 DEF Acceptable
  <2>2. c[m] = Absent \/ c[m] = DefaultOrAbsent(m)
    BY <1>4 DEF Decoded, AbsentIn
  <2>3. Meaning(c)[m] = DefaultOrAbsent(m)
    BY <2>2 DEF Meaning
  <2>4. Same(m, DefaultOrAbsent(m), meant[m])
    BY <1>4 DEF Conveys
  <2> QED
    BY <2>1, <2>2, <2>3, <2>4, AbsenceFacts
<1> QED
  BY <1>2, <1>3, <1>4

\* The decoder of the message's rules accepts it if it is sound, and makes of
\* it what was meant.
LEMMA DecodeFacts ==
    ASSUME NEW q \in Message, Wire(q), NEW c, c = [m \in Member |-> c[m]], ListsFit(q.rule, c)
    PROVE  LET d == Decode(q.rule, c, q.items)
           IN  /\ d.ok = q.sound /\ d.c = [m \in Member |-> d.c[m]]
               /\ d.ok => Valid(d.c) /\ Alike(Meaning(d.c), q.meant)
<1> DEFINE r == q.rule
           items == q.items
           all == ToSet(items)
           d == Decode(r, c, items)
<1>1. items \in Seq(Item) /\ Fits(r, items, q.meant, q.sound) /\ r \in Tabular \cup {"jer"}
  BY TableAssumption DEF Message, Wire, Tabular
<1>2. all \in SUBSET Item
  BY <1>1, ItemsAre
<1>3. /\ d.ok = Acceptable(r, all) /\ d.c = [m \in Member |-> d.c[m]]
      /\ d.ok => Decoded(r, all, d.c)
  <2>1. CASE r = "jer"
    BY <1>1, <2>1, JerDecodes DEF Fits
  <2>2. CASE r \in Tabular
    BY <1>1, <2>2, TableDecodes DEF Fits
  <2> QED
    BY <1>1, <2>1, <2>2
<1> HIDE DEF d, all
<1>4. q.sound = Acceptable(r, all) /\ (q.sound => Conveys(all, q.meant))
  BY <1>1 DEF Fits, all
<1>5. ASSUME d.ok PROVE Valid(d.c) /\ Alike(Meaning(d.c), q.meant)
  BY <1>2, <1>3, <1>4, <1>5, DecodedMeans
<1> QED
  BY <1>3, <1>4, <1>5 DEF d

-----------------------------------------------------------------------------
(* The steps.                                                              *)

\* XER leaves the elements of a list alone that is empty in the message: an
\* object that is in use when it is decoded into has none.
XerFindsNoList == "xer" \in Reuse => List = {}

LEMMA FreshFacts ==
    /\ Valid(Fresh) /\ Fresh = [m \in Member |-> Fresh[m]]
    /\ Meaning(Fresh) \in [Member -> AnyValue]
    /\ ListsFit("xer", Fresh)
<1>1. \A m \in Member : Fresh[m] = IF m \in Optional THEN Absent ELSE Blank[m]
  BY DEF Fresh
<1>2. \A m \in Member : Blank[m] \in Vals(m) /\ (m \in List => Blank[m] = <<>>)
  BY TableAssumption
<1>3. Valid(Fresh)
  BY <1>1, <1>2 DEF Valid
<1>4. \A m \in Member : Meaning(Fresh)[m] \in AnyValue
  BY <1>3, ValueFacts, AbsenceFacts DEF Meaning, Valid
<1>5. ListsFit("xer", Fresh)
  BY <1>1, <1>2, TableFacts DEF ListsFit, Allocated
<1>6. Fresh = [m \in Member |-> Fresh[m]]
  BY DEF Fresh
<1> QED
  BY <1>3, <1>4, <1>5, <1>6 DEF Meaning

LEMMA BuiltFacts ==
    ASSUME NEW c \in Storage, NEW old
    PROVE  /\ Valid(c) /\ DeepCopy(old, c) = c /\ c = [m \in Member |-> c[m]]
           /\ Meaning(c) \in [Member -> AnyValue]
<1>1. c = [m \in Member |-> c[m]]
  BY DEF Storage
<1>2. Valid(c)
  <2>1. \A m \in Member : Built(m) \subseteq Vals(m)
    BY TableAssumption DEF Built, Vals
  <2> QED
    BY <2>1 DEF Storage, Valid
<1>3. \A m \in Member : Meaning(c)[m] \in AnyValue
  BY <1>2, ValueFacts, AbsenceFacts DEF Meaning, Valid
<1>4. DeepCopy(old, c) = c
  BY <1>1 DEF DeepCopy, CopyMember
<1> QED
  BY <1>1, <1>2, <1>3, <1>4 DEF Meaning

LEMMA MembersInit == Init => MembersInv
<1> SUFFICES ASSUME Init PROVE MembersInv
  OBVIOUS
<1>1. ObjectInv
  BY FreshFacts DEF Init, ObjectInv
<1>2. MeansWhatWasSent
  BY SameFacts DEF Init, MeansWhatWasSent, Alike
<1> QED
  BY <1>1, <1>2 DEF Init, MembersInv, AcceptsTheSound, NoVerdict

LEMMA AssignKeeps ==
    ASSUME MembersInv, NEW c \in Storage, Assign(c)
    PROVE  MembersInv'
<1>1. content' = c /\ told' = Meaning(c) /\ held' = "built" /\ verdict' = NoVerdict /\ msg' = msg
  BY BuiltFacts DEF Assign
<1>2. ObjectInv'
  BY <1>1, BuiltFacts DEF ObjectInv
<1>3. MeansWhatWasSent'
  BY <1>1, SameFacts DEF MeansWhatWasSent, Alike
<1> QED
  BY <1>1, <1>2, <1>3 DEF MembersInv, AcceptsTheSound, NoVerdict

LEMMA RenewKeeps ==
    ASSUME MembersInv, Renew
    PROVE  MembersInv'
<1>1. content' = Fresh /\ told' = Meaning(Fresh) /\ verdict' = NoVerdict /\ msg' = msg
  BY DEF Renew
<1>2. ObjectInv'
  BY <1>1, FreshFacts DEF ObjectInv
<1>3. MeansWhatWasSent'
  BY <1>1, SameFacts DEF MeansWhatWasSent, Alike
<1> QED
  BY <1>1, <1>2, <1>3 DEF MembersInv, AcceptsTheSound, NoVerdict

LEMMA SendKeeps ==
    ASSUME MembersInv, NEW r \in Rules, Send(r)
    PROVE  MembersInv'
<1> DEFINE q == [rule |-> r, items |-> Encode(r, content), meant |-> told,
                 sound |-> TRUE, edits |-> 0]
<1>1. Valid(content) /\ Alike(Meaning(content), told) /\ told \in [Member -> AnyValue]
  BY DEF MembersInv, ObjectInv, MeansWhatWasSent, Send
<1>2. q \in Message /\ Wire(q)
  BY <1>1, SentFits DEF Message, Wire
<1>3. msg' = {q} /\ UNCHANGED <<content, held, vouched, told, verdict>>
  BY DEF Send
<1> HIDE DEF q
<1> QED
  BY <1>2, <1>3 DEF MembersInv, ObjectInv, MeansWhatWasSent, AcceptsTheSound

LEMMA ReplaceKeeps ==
    ASSUME MembersInv, NEW q \in msg, NEW items \in Seq(Item),
           NEW meant \in [Member -> AnyValue], NEW sound \in BOOLEAN,
           Fits(q.rule, items, meant, sound), Replace(q, items, meant, sound)
    PROVE  MembersInv'
<1> DEFINE e == [q EXCEPT !.items = items, !.meant = meant, !.sound = sound, !.edits = @ + 1]
<1>1. q \in Message
  BY DEF MembersInv
<1>2. e \in Message /\ e.rule = q.rule /\ e.items = items /\ e.meant = meant /\ e.sound = sound
  <2>1. q = [rule |-> q.rule, items |-> q.items, meant |-> q.meant, sound |-> q.sound,
             edits |-> q.edits]
        /\ q.rule \in Rules /\ q.edits \in Nat
    BY <1>1 DEF Message
  <2>2. e = [rule |-> q.rule, items |-> items, meant |-> meant, sound |-> sound,
             edits |-> q.edits + 1]
    <3>1. DOMAIN q = {"rule", "items", "meant", "sound", "edits"}
      BY <2>1
    <3>2. DOMAIN e = DOMAIN q /\ e.edits = q.edits + 1 /\ e.rule = q.rule
          /\ e.items = items /\ e.meant = meant /\ e.sound = sound
      BY <3>1
    <3>3. e = [f \in DOMAIN q |-> e[f]]
      OBVIOUS
    <3> HIDE DEF e
    <3> QED
      BY <3>1, <3>2, <3>3
  <2>3. q.edits + 1 \in Nat
    BY <2>1
  <2> QED
    BY <2>1, <2>2, <2>3 DEF Message
<1>3. msg' = {e} /\ UNCHANGED <<content, held, vouched, told, verdict>>
  BY DEF Replace
<1> HIDE DEF e
<1>4. Wire(e)
  BY <1>2 DEF Wire
<1> QED
  BY <1>2, <1>3, <1>4 DEF MembersInv, ObjectInv, MeansWhatWasSent, AcceptsTheSound

LEMMA EditKeeps ==
    ASSUME MembersInv, NEW q \in msg,
           \/ \E i \in 1..(N + 2) : Swap(q, i) \/ Add(q, i) \/ Drop(q, i) \/ Damage(q, i)
           \/ \E m \in Member : SpellNull(q, m) \/ SpellDefault(q, m)
    PROVE  MembersInv'
<1>1. /\ q \in Message /\ Wire(q) /\ q.items \in Seq(Item) /\ q.meant \in [Member -> AnyValue]
      /\ q.sound \in BOOLEAN /\ Len(q.items) \in Nat
      /\ \A k \in 1..Len(q.items) : q.items[k] \in Item /\ q.items[k] \in ToSet(q.items)
  BY ItemsAre DEF MembersInv, Message
<1>2. ASSUME NEW i, Swap(q, i) PROVE MembersInv'
  BY <1>1, <1>2, SwapFits, ReplaceKeeps DEF Swap
<1>3. ASSUME NEW i, Add(q, i) PROVE MembersInv'
  BY <1>1, <1>3, AddFits, ReplaceKeeps DEF Add
<1>4. ASSUME NEW i, Drop(q, i) PROVE MembersInv'
  <2> DEFINE m == q.items[i].id
             w == RemoveAt(q.items, i)
             meant == [q.meant EXCEPT ![m] = DefaultOrAbsent(m)]
  <2>1. /\ q.sound /\ i \in 1..Len(q.items) /\ m # Foreign
        /\ Replace(q, w, meant, m \in Optional)
    BY <1>4 DEF Drop
  <2>2. /\ w \in Seq(Item) /\ meant \in [Member -> AnyValue]
        /\ Fits(q.rule, w, meant, m \in Optional)
    BY <1>1, <2>1, DropFits
  <2> HIDE DEF m, w, meant
  <2>3. (m \in Optional) \in BOOLEAN
    OBVIOUS
  <2> QED
    BY <2>1, <2>2, <2>3, ReplaceKeeps
<1>5. ASSUME NEW i, Damage(q, i) PROVE MembersInv'
  <2> DEFINE x == q.items[i]
             m == x.id
             Spoilt(v) == [id |-> m, val |-> v]
  <2>1. /\ q.sound /\ i \in 1..Len(q.items) /\ m # Foreign /\ x.val # Null
        /\ \/ Replace(q, [q.items EXCEPT ![i].val = Broken], q.meant, FALSE)
           \/ /\ m \in List
              /\ \E k \in DOMAIN x.val :
                    Replace(q, [q.items EXCEPT ![i].val[k] = Broken], q.meant, FALSE)
    BY <1>5 DEF Damage
  <2>2. x \in Item /\ m \in Member /\ x = [id |-> m, val |-> x.val]
    BY <1>1, <2>1 DEF Item
  <2>3. \A v : /\ [q.items EXCEPT ![i].val = v] = [q.items EXCEPT ![i] = [id |-> m, val |-> v]]
    <3> TAKE v
    <3>1. [x EXCEPT !.val = v] = [id |-> m, val |-> v]
      BY <2>2
    <3> QED
      BY <3>1
  <2>4. CASE Replace(q, [q.items EXCEPT ![i].val = Broken], q.meant, FALSE)
    <3>1. Spoilt(Broken) \in Item
      BY <2>2 DEF Item
    <3>2. ~Takes(q.rule, Spoilt(Broken))
      BY TokenAssumption DEF Takes, Undamaged
    <3>3. Replace(q, [q.items EXCEPT ![i] = Spoilt(Broken)], q.meant, FALSE)
      BY <2>3, <2>4
    <3> QED
      BY <1>1, <2>1, <3>1, <3>2, <3>3, DamagedFits, ReplaceKeeps
  <2>5. ASSUME m \in List, NEW k \in DOMAIN x.val,
               Replace(q, [q.items EXCEPT ![i].val[k] = Broken], q.meant, FALSE)
        PROVE  MembersInv'
    <3> DEFINE v == [x.val EXCEPT ![k] = Broken]
    <3>1. x.val \in Seq(Elem)
      <4>1. Takes(q.rule, x)
        BY <1>1, <2>1, <2>2 DEF Wire, Fits, Acceptable
      <4>2. Undamaged(m, x.val)
        BY <2>1, <4>1 DEF Takes
      <4> QED
        BY <2>2, <2>5, <4>2, TakenValue DEF Vals
    <3>2. /\ Len(x.val) \in Nat /\ k \in 1..Len(x.val)
          /\ v \in [1..Len(x.val) -> Elem \cup {Broken}] /\ v[k] = Broken
      BY <2>5, <3>1, LenProperties
    <3>3. v \in Seq(Elem \cup {Broken}) /\ Len(v) = Len(x.val)
      <4> HIDE DEF v, x
      <4> QED
        BY <3>2
    <3>4. HasBad(v)
      BY <3>2, <3>3 DEF HasBad
    <3>5. Replace(q, [q.items EXCEPT ![i] = Spoilt(v)], q.meant, FALSE)
      BY <2>2, <2>3, <2>5
    <3> HIDE DEF v
    <3>6. Spoilt(v) \in Item
      BY <2>2, <2>5, <3>3 DEF Item
    <3>7. ~Takes(q.rule, Spoilt(v))
      <4>1. v # Null
        BY <3>3, TokenAssumption
      <4> QED
        BY <2>5, <3>4, <4>1 DEF Takes, Undamaged
    <3> QED
      BY <1>1, <2>1, <3>5, <3>6, <3>7, DamagedFits, ReplaceKeeps
  <2> QED
    BY <2>1, <2>4, <2>5
<1>6. ASSUME NEW m \in Member, SpellNull(q, m) PROVE MembersInv'
  BY <1>1, <1>6, SpellNullFits, ReplaceKeeps DEF SpellNull
<1>7. ASSUME NEW m \in Member, SpellDefault(q, m) PROVE MembersInv'
  BY <1>1, <1>7, SpellDefaultFits, ReplaceKeeps DEF SpellDefault
<1> QED
  BY <1>2, <1>3, <1>4, <1>5, <1>6, <1>7

LEMMA ReceiveKeeps ==
    ASSUME XerFindsNoList, MembersInv, NEW q \in msg, Receive(q)
    PROVE  MembersInv'
<1> DEFINE d == Decode(q.rule, content, q.items)
<1>1. /\ q \in Message /\ Wire(q) /\ content = [m \in Member |-> content[m]]
      /\ q.meant \in [Member -> AnyValue]
  BY DEF MembersInv, ObjectInv, Message
<1>2. ListsFit(q.rule, content)
  <2>1. CASE held = "new"
    BY <2>1, FreshFacts DEF MembersInv, ObjectInv, ListsFit
  <2>2. CASE q.rule \in Reuse
    BY <2>2 DEF XerFindsNoList, ListsFit
  <2> QED
    BY <2>1, <2>2 DEF Receive
<1>3. /\ d.ok = q.sound /\ d.c = [m \in Member |-> d.c[m]]
      /\ d.ok => Valid(d.c) /\ Alike(Meaning(d.c), q.meant)
  BY <1>1, <1>2, DecodeFacts
<1>4. /\ content' = d.c /\ vouched' = d.ok /\ held' = "decoded" /\ msg' = msg
      /\ told' = (IF d.ok THEN q.meant ELSE [m \in Member |-> Absent])
      /\ verdict' = [ok |-> d.ok, sound |-> q.sound]
  BY DEF Receive
<1> HIDE DEF d
<1>5. told' \in [Member -> AnyValue]
  BY <1>1, <1>4 DEF AnyValue
<1>6. ObjectInv'
  BY <1>3, <1>4, <1>5 DEF ObjectInv
<1>7. MeansWhatWasSent'
  BY <1>3, <1>4 DEF MeansWhatWasSent
<1>8. AcceptsTheSound'
  BY <1>3, <1>4 DEF AcceptsTheSound
<1> QED
  BY <1>4, <1>6, <1>7, <1>8 DEF MembersInv

LEMMA MembersStep ==
    ASSUME XerFindsNoList, MembersInv, [Next]_vars
    PROVE  MembersInv'
<1>1. CASE UNCHANGED vars
  BY <1>1 DEF vars, MembersInv, ObjectInv, MeansWhatWasSent, AcceptsTheSound
<1> QED
  BY <1>1, AssignKeeps, RenewKeeps, SendKeeps, EditKeeps, ReceiveKeeps DEF Next

\* The object and the message on the wire stay what MembersInv says of them.
THEOREM MembersStay == ASSUME XerFindsNoList PROVE Spec => []MembersInv
<1>1. Init => MembersInv
  BY MembersInit
<1>2. MembersInv /\ [Next]_vars => MembersInv'
  BY MembersStep
<1> QED
  BY <1>1, <1>2, PTL DEF Spec

\* What an object means after a decode does not depend on the encoding rules,
\* on the order of the items, on how absence was written or on what the object
\* held: its members mean what the sender's meant (the decode_sequence and
\* SEQUENCE OF handlers of the four codecs), for every table and any messages.
THEOREM MembersMean == ASSUME XerFindsNoList PROVE Spec => []MeansWhatWasSent
<1>1. MembersInv => MeansWhatWasSent
  BY DEF MembersInv
<1> QED
  BY <1>1, MembersStay, PTL

\* Each decoder accepts what an encoder of its rules may write of a value, and
\* nothing that lacks a mandatory member or holds a value that does not decode.
THEOREM MembersAccepted == ASSUME XerFindsNoList PROVE Spec => []AcceptsTheSound
<1>1. MembersInv => AcceptsTheSound
  BY DEF MembersInv
<1> QED
  BY <1>1, MembersStay, PTL
=============================================================================
