-------------------------- MODULE PerLengthProofs ---------------------------
(***************************************************************************)
(* What PerLength promises for every block size, every number of blocks in *)
(* a fragment, every SIZE and every count.                                 *)
(*                                                                         *)
(* The decoder's count is right because of what it has read; that says     *)
(* nothing of what is still on the wire.  The invariant is therefore about *)
(* the encoding as a chain: each fragment begins at the item at which the  *)
(* one before it ended (Chained), the chunk that closes the encoding takes *)
(* it to n (Link), and the decoder's count is where the chunk it reads     *)
(* next begins (Reads).                                                    *)
(***************************************************************************)
EXTENDS PerLength, SequenceTheorems, TLAPS

\* The count is written as an offset from the lower bound, or not at all.
Rooted == size.constrained /\ (Extensible(size) => InRoot(size, n))
Prefix == IF Extensible(size) THEN 1 ELSE 0
Bare == Rooted /\ Fixed(size) /\ (n = 0 \/ bare)
Closing == {"offset", "fixed", "length"}
Kinds == {"bit", "offset", "fixed", "length", "fragment"}
End(c) == c.from + c.v * Unit

Link(c, i) ==
    /\ c.is = "bit" <=> i <= Prefix
    /\ c.is = "bit" => c.v = IF InRoot(size, n) THEN 0 ELSE 1
    /\ c.is \in {"offset", "fixed"} => Rooted /\ InRoot(size, n) /\ i = Prefix + 1
    /\ c.is = "offset" => ~Fixed(size) /\ c.v = n - size.lb
    /\ c.is = "fixed" => Fixed(size) /\ c.v = n /\ ~bare /\ n > 0
    /\ c.is \in {"length", "fragment"} => ~Rooted /\ (i = Prefix + 1 => c.from = 0)
    /\ c.is = "length" => c.from + c.v = n
    /\ c.is = "fragment" => c.v \in 1..Blocks /\ End(c) <= n

Encoding == pc \in {"prefix", "offset", "count"}

\* The chunks on the wire are those of a count of n.
Linked ==
    fate # "changed" =>
        \A i \in 1..Len(wire) :
            /\ Link(wire[i], i)
            /\ wire[i].is \in Closing => i = Len(wire) /\ fate = "intact" /\ ~Encoding

Chained ==
    fate # "changed" =>
        \A i, j \in 1..Len(wire) :
            j = i + 1 /\ wire[i].is = "fragment" => wire[j].from = End(wire[i])

\* What the encoder has written so far.
Writes ==
    /\ Encoding => at = 0 /\ got = 0 /\ fate = "intact"
    /\ pc = "prefix" => Len(wire) = 0 /\ start = 0
    /\ pc = "offset" => Rooted /\ start = 0 /\ Len(wire) = Prefix
    /\ pc = "count" =>
        /\ ~Rooted /\ Len(wire) >= Prefix
        /\ Len(wire) = Prefix => start = 0
        /\ Len(wire) > Prefix => wire[Len(wire)].is = "fragment" /\ start = End(wire[Len(wire)])

\* An encoding that is not cut ends with the chunk that closes it; a cut one
\* does not, and one without chunks lost its extension bit.
Written ==
    ~Encoding /\ pc # "refused" =>
        /\ Rooted => InRoot(size, n)
        /\ fate = "intact" =>
            /\ Rooted => Len(wire) = IF Bare THEN Prefix ELSE Prefix + 1
            /\ ~Rooted => Len(wire) > Prefix /\ wire[Len(wire)].is = "length"
        /\ fate = "cut" /\ Bare => Len(wire) < Prefix

\* Where the decoder stands.
Reads ==
    /\ pc = "sent" => at = 0 /\ got = 0
    /\ pc = "open" => at = 0 /\ got = 0 /\ Extensible(size)
    /\ pc = "number" => got = 0 /\ size.constrained
    /\ pc = "number" /\ fate # "changed" => at = Prefix /\ Rooted
    /\ pc = "items" /\ fate # "changed" =>
        /\ at >= Prefix /\ ~Rooted
        /\ at = Prefix => got = 0
        /\ at > Prefix => wire[at].is = "fragment" /\ got = End(wire[at])
    /\ pc = "items" /\ bare => got = 0
    /\ fate # "changed" => got <= n

IInv ==
    /\ TypeOK /\ Linked /\ Chained /\ Writes /\ Written /\ Reads
    /\ IntactIsWhole /\ CutIsNoticed /\ BareListsAreShort

-----------------------------------------------------------------------------
LEMMA SizeTyped ==
    ASSUME TypeOK
    PROVE  /\ size.constrained \in BOOLEAN /\ size.ext \in BOOLEAN
           /\ size.lb \in Nat /\ size.ub \in Nat /\ size.lb <= size.ub
           /\ Wide[size] \in Nat
  BY PerLengthAssumption DEF TypeOK

\* A fragment has at least one block, at most four, and no item too many.
LEMMA BlocksFit ==
    ASSUME NEW left \in Nat, left >= Unit
    PROVE  /\ BlocksOf(left) \in 1..Blocks
           /\ BlocksOf(left) * Unit \in Nat /\ BlocksOf(left) * Unit <= left
  <1> DEFINE q == left \div Unit
  <1>1. q \in Nat /\ q >= 1 /\ q * Unit <= left
    BY PerLengthAssumption, SMT
  <1>2. ASSUME NEW b \in Nat, b <= q
        PROVE  b * Unit \in Nat /\ b * Unit <= left
    <2> HIDE DEF q
    <2>1. b * Unit <= q * Unit
      BY <1>1, <1>2, PerLengthAssumption, SMT
    <2>2. b * Unit \in Nat /\ q * Unit \in Nat
      BY <1>1, <1>2, PerLengthAssumption, SMT
    <2> QED
      BY <1>1, <2>1, <2>2
  <1>3. BlocksOf(left) \in Nat /\ BlocksOf(left) <= q /\ BlocksOf(left) \in 1..Blocks
    BY <1>1, PerLengthAssumption DEF BlocksOf
  <1> QED
    BY <1>2, <1>3

\* A fragment holds more items than the limit for items without bits allows.
LEMMA FragmentIsLong ==
    ASSUME NEW v \in 1..Blocks
    PROVE  v * Unit \in Nat /\ v * Unit >= Unit /\ v * Unit > Limit
  <1>1. v * Unit \in Nat /\ v * Unit >= Unit
    BY PerLengthAssumption, SMT
  <1> QED
    BY <1>1, LimitAssumption, PerLengthAssumption

-----------------------------------------------------------------------------
Chunks == [is : Kinds, v : Nat, from : Nat]

LEMMA Appended ==
    ASSUME TypeOK, NEW c \in Chunks, wire' = Append(wire, c)
    PROVE  /\ wire' \in Seq(Chunks) /\ Len(wire') = Len(wire) + 1 /\ Len(wire) \in Nat
           /\ wire'[Len(wire) + 1] = c
           /\ \A i \in 1..Len(wire) : wire'[i] = wire[i]
  BY DEF TypeOK, Chunks, Kinds

\* The encoder adds a chunk that links on to the last one.
LEMMA LinkedOn ==
    ASSUME IInv, NEW c \in Chunks, wire' = Append(wire, c),
           UNCHANGED <<Value, fate>>, Encoding,
           Link(c, Len(wire) + 1), c.is \in Closing => ~Encoding',
           Len(wire) > 0 /\ wire[Len(wire)].is = "fragment" => c.from = End(wire[Len(wire)])
    PROVE  Linked' /\ Chained'
  <1> USE DEF IInv, Value
  <1>1. /\ Len(wire') = Len(wire) + 1 /\ Len(wire) \in Nat
        /\ wire'[Len(wire) + 1] = c
        /\ \A i \in 1..Len(wire) : wire'[i] = wire[i]
    BY Appended
  <1>2. fate = "intact"
    BY DEF Writes
  <1>3. ASSUME NEW i \in 1..Len(wire')
        PROVE  /\ Link(wire[i], i)' 
               /\ wire'[i].is \in Closing => i = Len(wire') /\ fate' = "intact" /\ ~Encoding'
    <2>1. CASE i = Len(wire) + 1
      BY <1>1, <1>2, <2>1 DEF Link, Prefix, Rooted, End
    <2>2. CASE i \in 1..Len(wire)
      BY <1>1, <1>2, <2>2 DEF Linked, Link, Prefix, Rooted, End
    <2> QED
      BY <1>1, <2>1, <2>2
  <1>4. Linked'
    BY <1>3 DEF Linked
  <1>5. Chained'
    BY <1>1, <1>2 DEF Chained, End
  <1> QED
    BY <1>4, <1>5

LEMMA Start == Init => IInv
  <1> SUFFICES ASSUME Init PROVE IInv
    OBVIOUS
  <1>1. TypeOK
    BY PerLengthAssumption DEF Init, TypeOK
  <1> QED
    BY <1>1, PerLengthAssumption DEF Init, IInv, Linked, Chained, Writes, Written, Reads, Encoding,
        IntactIsWhole, CutIsNoticed, BareListsAreShort, TypeOK

LEMMA PutPrefixStep == IInv /\ PutPrefix => IInv'
  <1> SUFFICES ASSUME IInv, PutPrefix PROVE IInv'
    OBVIOUS
  <1> USE DEF IInv, PutPrefix, Value
  <1>0. /\ fate = "intact" /\ at = 0 /\ got = 0 /\ start = 0 /\ Len(wire) = 0 /\ wire = <<>>
        /\ pc' \in {"offset", "count"}
    BY DEF Writes, Encoding, TypeOK
  <1>1. CASE ~Extensible(size)
    <2>1. wire' = <<>> /\ Len(wire') = 0
      BY <1>1
    <2>2. TypeOK'
      BY <1>0, <1>1 DEF TypeOK
    <2> QED
      BY <1>0, <1>1, <2>1, <2>2 DEF Linked, Chained, Writes, Written, Reads, Encoding, Prefix, Rooted,
          IntactIsWhole, CutIsNoticed, BareListsAreShort
  <1>2. CASE Extensible(size)
    <2> DEFINE c == Chunk("bit", IF InRoot(size, n) THEN 0 ELSE 1, 0)
    <2>1. wire' = <<c>> /\ Len(wire') = 1 /\ wire'[1] = c
      BY <1>2
    <2>2. c \in Chunks /\ c.is = "bit" /\ c.v = IF InRoot(size, n) THEN 0 ELSE 1
      BY DEF Chunks, Kinds, Chunk
    <2> HIDE DEF c
    <2>3. wire' \in Seq(Chunks) /\ n \in Nat
      BY <2>1, <2>2 DEF TypeOK
    <2>7. TypeOK'
      BY <1>0, <2>1, <2>3 DEF TypeOK, Chunks, Kinds
    <2>4. Linked'
      BY <1>0, <1>2, <2>1, <2>2 DEF Linked, Link, Prefix, Closing
    <2>5. Chained'
      BY <2>1 DEF Chained
    <2>6. Writes' /\ Written' /\ Reads'
      BY <1>0, <1>2, <2>1 DEF Writes, Written, Reads, Encoding, Prefix, Rooted
    <2> QED
      BY <1>0, <2>4, <2>5, <2>6, <2>7 DEF IntactIsWhole, CutIsNoticed, BareListsAreShort
  <1> QED
    BY <1>1, <1>2

LEMMA PutOffsetStep == IInv /\ PutOffset => IInv'
  <1> SUFFICES ASSUME IInv, PutOffset PROVE IInv'
    OBVIOUS
  <1> USE DEF IInv, PutOffset, Value
  <1>0. /\ fate = "intact" /\ at = 0 /\ got = 0 /\ Rooted /\ Len(wire) = Prefix
        /\ InRoot(size, n) /\ Encoding /\ ~Encoding' /\ pc' = "sent" /\ n \in Nat
    BY DEF Writes, Encoding, TypeOK
  <1>1. size.lb \in Nat /\ size.ub \in Nat
    BY SizeTyped
  <1>2. Len(wire) > 0 => wire[Len(wire)].is = "bit"
    BY <1>0 DEF Linked, Link, Prefix
  <1>3. CASE ~Fixed(size)
    <2> DEFINE c == Chunk("offset", n - size.lb, 0)
    <2>1. c \in Chunks /\ c.is = "offset" /\ c.v = n - size.lb /\ wire' = Append(wire, c)
      BY <1>0, <1>1, <1>3 DEF Chunks, Kinds, Chunk, InRoot
    <2>2. Link(c, Len(wire) + 1)
      BY <1>0, <1>3, <2>1 DEF Link, Prefix
    <2> HIDE DEF c
    <2>3. Linked' /\ Chained'
      BY <1>0, <1>2, <2>1, <2>2, LinkedOn
    <2>4. wire' \in Seq(Chunks) /\ Len(wire') = Prefix + 1
      BY <1>0, <2>1, Appended
    <2>5. TypeOK'
      BY <1>0, <2>4 DEF TypeOK, Chunks, Kinds, Prefix
    <2> QED
      BY <1>0, <1>3, <2>3, <2>4, <2>5 DEF Writes, Written, Reads, Encoding, Prefix, Rooted, Bare,
          IntactIsWhole, CutIsNoticed, BareListsAreShort
  <1>4. CASE Fixed(size) /\ n > 0 /\ ~bare
    <2> DEFINE c == Chunk("fixed", n, 0)
    <2>1. c \in Chunks /\ c.is = "fixed" /\ c.v = n /\ wire' = Append(wire, c)
      BY <1>0, <1>4 DEF Chunks, Kinds, Chunk
    <2>2. Link(c, Len(wire) + 1)
      BY <1>0, <1>4, <2>1 DEF Link, Prefix
    <2> HIDE DEF c
    <2>3. Linked' /\ Chained'
      BY <1>0, <1>2, <2>1, <2>2, LinkedOn
    <2>4. wire' \in Seq(Chunks) /\ Len(wire') = Prefix + 1
      BY <1>0, <2>1, Appended
    <2>5. TypeOK'
      BY <1>0, <2>4 DEF TypeOK, Chunks, Kinds, Prefix
    <2> QED
      BY <1>0, <1>4, <2>3, <2>4, <2>5 DEF Writes, Written, Reads, Encoding, Prefix, Rooted, Bare,
          IntactIsWhole, CutIsNoticed, BareListsAreShort
  <1>5. CASE Fixed(size) /\ ~(n > 0 /\ ~bare)
    <2>1. wire' = wire
      BY <1>5
    <2>2. Bare
      BY <1>0, <1>5 DEF Bare
    <2>3. TypeOK'
      BY <1>0, <2>1 DEF TypeOK
    <2>4. Linked' /\ Chained'
      BY <1>0, <2>1 DEF Linked, Chained, Link, Prefix, Rooted, End
    <2> QED
      BY <1>0, <2>1, <2>2, <2>3, <2>4 DEF Writes, Written, Reads, Encoding, Prefix, Rooted, Bare,
          IntactIsWhole, CutIsNoticed, BareListsAreShort
  <1> QED
    BY <1>3, <1>4, <1>5

LEMMA RefuseStep == IInv /\ Refuse => IInv'
  <1> SUFFICES ASSUME IInv, Refuse PROVE IInv'
    OBVIOUS
  <1>1. /\ fate = "intact" /\ at = 0 /\ got = 0 /\ pc' = "refused"
        /\ UNCHANGED <<n, size, bare, start, wire, fate, at, got>>
    BY DEF IInv, Writes, Encoding, Refuse, Value
  <1>2. TypeOK'
    BY <1>1 DEF IInv, TypeOK
  <1>3. Linked' /\ Chained'
    BY <1>1 DEF IInv, Linked, Chained, Link, Prefix, Rooted, End, Encoding
  <1> QED
    BY <1>1, <1>2, <1>3 DEF IInv, Writes, Written, Reads, Encoding, IntactIsWhole, CutIsNoticed,
        BareListsAreShort, TypeOK

LEMMA PutFragmentStep == IInv /\ PutFragment => IInv'
  <1> SUFFICES ASSUME IInv, PutFragment PROVE IInv'
    OBVIOUS
  <1> USE DEF IInv, Value
  <1> DEFINE k == BlocksOf(n - start)
             c == Chunk("fragment", k, start)
  <1>0. /\ pc = "count" /\ pc' = pc /\ n - start >= Unit /\ wire' = Append(wire, c)
        /\ start' = start + k * Unit /\ UNCHANGED <<n, size, bare, fate, at, got>>
    BY DEF PutFragment
  <1>1. /\ fate = "intact" /\ at = 0 /\ got = 0 /\ ~Rooted /\ Len(wire) >= Prefix
        /\ Encoding /\ start \in Nat /\ n \in Nat /\ start <= n /\ n - start \in Nat
        /\ Len(wire) \in Nat
    BY <1>0 DEF Writes, Encoding, TypeOK
  <1>2. k \in 1..Blocks /\ k * Unit \in Nat /\ k * Unit <= n - start
    BY <1>0, <1>1, BlocksFit
  <1>3. c \in Chunks /\ c.is = "fragment" /\ c.v = k /\ c.from = start
    BY <1>1, <1>2 DEF Chunks, Kinds, Chunk
  <1> HIDE DEF c, k
  <1>4. End(c) = start' /\ start' <= n /\ start' \in Nat
    BY <1>0, <1>1, <1>2, <1>3 DEF End
  <1>5. Link(c, Len(wire) + 1)
    <2>1. Len(wire) = Prefix => start = 0
      BY <1>0 DEF Writes
    <2>2. Prefix \in {0, 1} /\ c.is # "bit" /\ Len(wire) + 1 > Prefix
      BY <1>1, <1>3 DEF Prefix
    <2> QED
      BY <1>0, <1>1, <1>2, <1>3, <1>4, <2>1, <2>2 DEF Link
  <1>6. Len(wire) > 0 /\ wire[Len(wire)].is = "fragment" => c.from = End(wire[Len(wire)])
    <2> SUFFICES ASSUME Len(wire) > 0, wire[Len(wire)].is = "fragment" PROVE c.from = End(wire[Len(wire)])
      OBVIOUS
    <2>1. Len(wire) > Prefix
      BY <1>1 DEF Linked, Link, TypeOK, Prefix
    <2> QED
      BY <1>0, <1>3, <2>1 DEF Writes
  <1>7. Linked' /\ Chained'
    BY <1>0, <1>1, <1>3, <1>5, <1>6, LinkedOn DEF Closing
  <1>8. /\ wire' \in Seq(Chunks) /\ Len(wire') = Len(wire) + 1 /\ wire'[Len(wire')] = c
        /\ Len(wire) \in Nat
    BY <1>0, <1>3, Appended
  <1>9. TypeOK'
    BY <1>0, <1>1, <1>4, <1>8 DEF TypeOK, Chunks, Kinds
  <1>10. Writes'
    BY <1>0, <1>1, <1>3, <1>4, <1>8 DEF Writes, Encoding, Rooted, Prefix, End
  <1> QED
    BY <1>0, <1>1, <1>7, <1>9, <1>10 DEF Written, Reads, Encoding, IntactIsWhole, CutIsNoticed, BareListsAreShort

LEMMA PutRestStep == IInv /\ PutRest => IInv'
  <1> SUFFICES ASSUME IInv, PutRest PROVE IInv'
    OBVIOUS
  <1> USE DEF IInv, Value
  <1> DEFINE c == Chunk("length", n - start, start)
  <1>0. /\ pc = "count" /\ pc' = "sent" /\ wire' = Append(wire, c)
        /\ start' = n /\ UNCHANGED <<n, size, bare, fate, at, got>>
    BY DEF PutRest
  <1>1. /\ fate = "intact" /\ at = 0 /\ got = 0 /\ ~Rooted /\ Len(wire) >= Prefix
        /\ Encoding /\ ~Encoding' /\ start \in Nat /\ n \in Nat /\ start <= n /\ n - start \in Nat
        /\ Len(wire) \in Nat
    BY <1>0 DEF Writes, Encoding, TypeOK
  <1>3. c \in Chunks /\ c.is = "length" /\ c.v = n - start /\ c.from = start
    BY <1>1 DEF Chunks, Kinds, Chunk
  <1> HIDE DEF c
  <1>5. Link(c, Len(wire) + 1)
    <2>1. Len(wire) = Prefix => start = 0
      BY <1>0 DEF Writes
    <2>2. Prefix \in {0, 1} /\ c.is # "bit" /\ Len(wire) + 1 > Prefix
      BY <1>1, <1>3 DEF Prefix
    <2> QED
      BY <1>0, <1>1, <1>3, <2>1, <2>2 DEF Link
  <1>6. Len(wire) > 0 /\ wire[Len(wire)].is = "fragment" => c.from = End(wire[Len(wire)])
    <2> SUFFICES ASSUME Len(wire) > 0, wire[Len(wire)].is = "fragment" PROVE c.from = End(wire[Len(wire)])
      OBVIOUS
    <2>1. Len(wire) > Prefix
      BY <1>1 DEF Linked, Link, TypeOK, Prefix
    <2> QED
      BY <1>0, <1>3, <2>1 DEF Writes
  <1>7. Linked' /\ Chained'
    BY <1>0, <1>1, <1>3, <1>5, <1>6, LinkedOn
  <1>8. /\ wire' \in Seq(Chunks) /\ Len(wire') = Len(wire) + 1 /\ wire'[Len(wire')] = c
        /\ Len(wire) \in Nat
    BY <1>0, <1>3, Appended
  <1>9. TypeOK'
    BY <1>0, <1>1, <1>8 DEF TypeOK, Chunks, Kinds
  <1>10. Written'
    BY <1>0, <1>1, <1>3, <1>8 DEF Written, Rooted, Prefix
  <1> QED
    BY <1>0, <1>1, <1>7, <1>9, <1>10 DEF Writes, Reads, Encoding, IntactIsWhole, CutIsNoticed, BareListsAreShort

-----------------------------------------------------------------------------
LEMMA CutStep == ASSUME IInv, NEW k \in 0..MaxCount, Cut(k) PROVE IInv'
  <1> USE DEF IInv, Cut, Value
  <1>1. /\ pc = "sent" /\ pc' = pc /\ fate = "intact" /\ fate' = "cut" /\ at = 0 /\ got = 0
        /\ k \in Nat /\ k < Len(wire) /\ Len(wire) \in Nat
        /\ UNCHANGED <<n, size, bare, start, at, got>>
    BY PerLengthAssumption DEF Reads, TypeOK
  <1>2. /\ Len(wire') = k /\ wire' \in Seq(Chunks)
        /\ \A i \in 1..k : wire'[i] = wire[i]
    <2>1. wire \in Seq(Chunks)
      BY DEF TypeOK, Chunks, Kinds
    <2>2. \A i \in 1..k : wire[i] \in Chunks
      BY <1>1, <2>1, ElementOfSeq
    <2> QED
      BY <1>1, <2>2, SubSeqProperties
  <1>3. TypeOK'
    BY <1>1, <1>2 DEF TypeOK, Chunks, Kinds
  <1>4. ASSUME NEW i \in 1..Len(wire')
        PROVE  Link(wire[i], i)' /\ wire'[i].is \notin Closing
    BY <1>1, <1>2, <1>4 DEF Linked, Link, Prefix, Rooted, End
  <1>5. Linked'
    BY <1>4 DEF Linked
  <1>6. Chained'
    BY <1>1, <1>2 DEF Chained, End
  <1>7. Bare => k < Prefix
    BY <1>1 DEF Written, Encoding, Bare, Prefix
  <1> QED
    BY <1>1, <1>2, <1>3, <1>5, <1>6, <1>7 DEF Writes, Written, Reads, Encoding, Bare, Rooted, Prefix,
        IntactIsWhole, CutIsNoticed, BareListsAreShort

LEMMA ChangeStep == ASSUME IInv, NEW k \in 0..MaxCount, Change(k) PROVE IInv'
  <1> USE DEF IInv, Change, Value
  <1>1. /\ pc = "sent" /\ pc' = pc /\ fate' = "changed" /\ at = 0 /\ got = 0 /\ k \in Nat
        /\ UNCHANGED <<n, size, bare, start, at, got>>
    BY PerLengthAssumption DEF Reads
  <1>2. Chunk("length", 0, 0) \in Chunks
    BY DEF Chunk, Chunks, Kinds
  <1>3. wire' \in Seq(Chunks) /\ Len(wire') = k
    BY <1>1, <1>2
  <1>4. TypeOK'
    BY <1>1, <1>3 DEF TypeOK, Chunks, Kinds
  <1>5. Linked' /\ Chained' /\ Writes'
    BY <1>1 DEF Linked, Chained, Writes, Encoding
  <1>6. Written'
    BY <1>1 DEF Written, Encoding, Rooted
  <1> QED
    BY <1>1, <1>4, <1>5, <1>6 DEF Reads, IntactIsWhole, CutIsNoticed, BareListsAreShort, TypeOK

-----------------------------------------------------------------------------
\* The decoder changes nothing the encoder answers for.
LEMMA ReadKeeps ==
    ASSUME IInv, UNCHANGED <<Value, start, wire, fate>>, ~Encoding, ~Encoding',
           pc # "refused", pc' # "refused"
    PROVE  Linked' /\ Chained' /\ Writes' /\ Written'
  <1>1. UNCHANGED <<n, size, bare, start, wire, fate>>
    BY DEF Value
  <1>2. Linked' /\ Chained'
    BY <1>1 DEF IInv, Linked, Chained, Link, Prefix, Rooted, End
  <1>3. Writes'
    BY <1>1 DEF Writes, Encoding
  <1>4. Written /\ (Rooted <=> Rooted') /\ (Bare <=> Bare') /\ Prefix' = Prefix
        /\ (InRoot(size, n) <=> InRoot(size, n)')
    BY <1>1 DEF IInv, Rooted, Bare, Prefix
  <1>5. Written'
    BY <1>1, <1>4 DEF Written
  <1> QED
    BY <1>2, <1>3, <1>5

\* An intact encoding is never at its end while the decoder needs more of it.
LEMMA MoreToRead ==
    ASSUME IInv, fate = "intact", at >= Len(wire),
           \/ pc = "open"
           \/ pc = "items"
           \/ pc = "number" /\ ~Bare
    PROVE  FALSE
  <1> USE DEF IInv
  <1>0. Len(wire) \in Nat /\ at \in Nat /\ at <= Len(wire) /\ ~Encoding /\ pc # "refused"
    BY DEF TypeOK, Encoding
  <1>1. Rooted => Len(wire) = IF Bare THEN Prefix ELSE Prefix + 1
    BY <1>0 DEF Written
  <1>2. ~Rooted => Len(wire) > Prefix /\ wire[Len(wire)].is = "length"
    BY <1>0 DEF Written
  <1>3. CASE pc = "open"
    BY <1>0, <1>1, <1>2, <1>3 DEF Reads, Prefix
  <1>4. CASE pc = "items"
    BY <1>0, <1>2, <1>4 DEF Reads
  <1>5. CASE pc = "number" /\ ~Bare
    <2>1. at = Prefix /\ Rooted
      BY <1>5 DEF Reads
    <2>2. Len(wire) = Prefix + 1
      BY <1>1, <1>5, <2>1
    <2>3. at >= Len(wire)
      OBVIOUS
    <2> QED
      BY <1>0, <2>1, <2>2, <2>3
  <1> QED
    BY <1>3, <1>4, <1>5

LEMMA EndsStep ==
    ASSUME IInv, Ends, pc \in {"open", "number", "items"},
           pc = "number" /\ fate = "intact" => ~Bare
    PROVE  IInv'
  <1> USE DEF IInv, Value
  <1>1. /\ pc' = "error" /\ at >= Len(wire) /\ UNCHANGED <<n, size, bare, start, wire, fate, at, got>>
    BY DEF Ends
  <1>2. fate # "intact"
    BY <1>1, MoreToRead
  <1>3. TypeOK'
    BY <1>1 DEF TypeOK
  <1>4. Linked' /\ Chained' /\ Writes' /\ Written'
    BY <1>1, ReadKeeps DEF Encoding
  <1> QED
    BY <1>1, <1>2, <1>3, <1>4 DEF Reads, IntactIsWhole, CutIsNoticed, BareListsAreShort

\* The chunk a fragmented count goes on with begins where the decoder stands.
LEMMA NextChunk ==
    ASSUME IInv, pc = "items", fate # "changed", at < Len(wire)
    PROVE  /\ wire[at + 1].from = got /\ ~Rooted
           /\ Link(wire[at + 1], at + 1)
           /\ wire[at + 1].is \in Closing => at + 1 = Len(wire) /\ fate = "intact"
           /\ wire[at + 1] \in Chunks
  <1> USE DEF IInv
  <1>1. at \in Nat /\ at + 1 \in 1..Len(wire) /\ at >= Prefix /\ ~Rooted /\ Prefix \in {0, 1}
    BY DEF TypeOK, Reads, Prefix
  <1>2. /\ Link(wire[at + 1], at + 1)
        /\ wire[at + 1].is \in Closing => at + 1 = Len(wire) /\ fate = "intact"
    BY <1>1 DEF Linked
  <1>3. wire[at + 1] \in Chunks
    <2>1. wire \in Seq(Chunks)
      BY DEF TypeOK, Chunks, Kinds
    <2> QED
      BY <1>1, <2>1, ElementOfSeq
  <1>4. wire[at + 1].is \in {"length", "fragment"}
    BY <1>1, <1>2, <1>3 DEF Link, Chunks, Kinds
  <1>5. wire[at + 1].from = got
    <2>1. CASE at = Prefix
      BY <1>1, <1>2, <1>4, <2>1 DEF Link, Reads
    <2>2. CASE at > Prefix
      <3>1. at \in 1..Len(wire) /\ wire[at].is = "fragment" /\ got = End(wire[at])
        BY <1>1, <2>2 DEF Reads
      <3> QED
        BY <1>1, <3>1 DEF Chained
    <2> QED
      BY <1>1, <2>1, <2>2
  <1> QED
    BY <1>1, <1>2, <1>3, <1>5

LEMMA OpenStep == IInv /\ Open => IInv'
  <1> SUFFICES ASSUME IInv, Open PROVE IInv'
    OBVIOUS
  <1> USE DEF IInv, Value
  <1>1. /\ pc = "sent" /\ at = 0 /\ got = 0
        /\ pc' = IF Extensible(size) THEN "open" ELSE IF size.constrained THEN "number" ELSE "items"
        /\ UNCHANGED <<n, size, bare, start, wire, fate, at, got>>
    BY DEF Open, Reads
  <1>2. TypeOK'
    BY <1>1 DEF TypeOK
  <1>3. Linked' /\ Chained' /\ Writes' /\ Written'
    BY <1>1, ReadKeeps DEF Encoding
  <1>4. Reads'
    BY <1>1, <1>2 DEF Reads, TypeOK, Prefix, Rooted, Extensible
  <1> QED
    BY <1>1, <1>2, <1>3, <1>4 DEF IntactIsWhole, CutIsNoticed, BareListsAreShort, TypeOK

LEMMA GetBitStep == IInv /\ GetBit => IInv'
  <1> SUFFICES ASSUME IInv, GetBit PROVE IInv'
    OBVIOUS
  <1> USE DEF IInv, Value
  <1>1. pc = "open" /\ at = 0 /\ got = 0 /\ Extensible(size) /\ Prefix = 1
    BY DEF GetBit, Reads, Prefix
  <1>2. CASE Ends
    BY <1>1, <1>2, EndsStep
  <1>3. ASSUME NEW v \in {0, 1}, Finds("bit", v), pc' = IF v = 1 THEN "items" ELSE "number",
               at' = at + 1, UNCHANGED <<Value, start, wire, fate, got>>
        PROVE  IInv'
    <2>1. at' = 1 /\ Len(wire) \in Nat /\ 1 <= Len(wire)
      BY <1>1, <1>3 DEF Finds, TypeOK
    <2>2. TypeOK'
      BY <1>1, <1>3, <2>1 DEF TypeOK
    <2>3. Linked' /\ Chained' /\ Writes' /\ Written'
      BY <1>1, <1>3, ReadKeeps DEF Encoding
    <2>4. fate # "changed" => (v = 1 <=> ~Rooted)
      <3> SUFFICES ASSUME fate # "changed" PROVE v = 1 <=> ~Rooted
        OBVIOUS
      <3>1. wire[1].is = "bit" /\ wire[1].v = v /\ Link(wire[1], 1)
        BY <1>1, <1>3, <2>1 DEF Finds, Linked
      <3>2. v = IF InRoot(size, n) THEN 0 ELSE 1
        BY <3>1 DEF Link
      <3> QED
        BY <1>1, <3>2 DEF Rooted, Extensible
    <2>5. Reads'
      BY <1>1, <1>3, <2>1, <2>2, <2>4 DEF Reads, TypeOK, Prefix, Rooted, Extensible
    <2> QED
      BY <1>1, <1>3, <2>2, <2>3, <2>5 DEF IntactIsWhole, CutIsNoticed, BareListsAreShort, TypeOK
  <1> QED
    BY <1>2, <1>3 DEF GetBit
-----------------------------------------------------------------------------
\* What the decoder does with m items: ok says that it went on or ended.
LEMMA GetOffsetStep == IInv /\ GetOffset => IInv'
  <1> SUFFICES ASSUME IInv, GetOffset PROVE IInv'
    OBVIOUS
  <1> USE DEF IInv, Value
  <1>1. /\ pc = "number" /\ ~Fixed(size) /\ got = 0 /\ ~Bare
        /\ fate # "changed" => at = Prefix /\ Rooted
    BY DEF GetOffset, Reads, Bare
  <1>2. CASE Ends
    BY <1>1, <1>2, EndsStep
  <1>3. ASSUME NEW v \in 0..Wide[size], Finds("offset", v), Takes(size.lb + v, "whole"),
               at' = at + 1, UNCHANGED <<Value, start, wire, fate>>
        PROVE  IInv'
    <2>0. size.lb \in Nat /\ v \in Nat /\ at \in Nat /\ Len(wire) \in Nat /\ at < Len(wire) /\ Limit \in Nat
          /\ bare \in BOOLEAN /\ n \in Nat
      BY <1>3, SizeTyped, PerLengthAssumption DEF Finds, TypeOK
    <2>1. /\ pc' \in {"whole", "error"}
          /\ pc' = "whole" => got' = size.lb + v /\ (bare => got' <= Limit)
          /\ pc' = "error" => got' = 0 /\ bare /\ size.lb + v > Limit
      BY <1>1, <1>3, <2>0 DEF Takes
    <2>2. TypeOK'
      BY <1>3, <2>0, <2>1 DEF TypeOK
    <2>3. Linked' /\ Chained' /\ Writes' /\ Written'
      BY <1>1, <1>3, <2>1, ReadKeeps DEF Encoding
    <2>4. fate # "changed" => size.lb + v = n /\ fate = "intact" /\ at + 1 = Len(wire)
      <3> SUFFICES ASSUME fate # "changed"
                   PROVE  size.lb + v = n /\ fate = "intact" /\ at + 1 = Len(wire)
        OBVIOUS
      <3>1. at + 1 \in 1..Len(wire) /\ wire[at + 1].is = "offset" /\ wire[at + 1].v = v
        BY <1>3, <2>0 DEF Finds
      <3>2. Link(wire[at + 1], at + 1) /\ at + 1 = Len(wire) /\ fate = "intact"
        BY <3>1 DEF Linked, Closing
      <3> QED
        BY <2>0, <3>1, <3>2 DEF Link
    <2> QED
      BY <1>3, <2>0, <2>1, <2>2, <2>3, <2>4 DEF Reads, IntactIsWhole, CutIsNoticed, BareListsAreShort
  <1> QED
    BY <1>2, <1>3 DEF GetOffset

LEMMA GetFixedStep == IInv /\ GetFixed => IInv'
  <1> SUFFICES ASSUME IInv, GetFixed PROVE IInv'
    OBVIOUS
  <1> USE DEF IInv, Value
  <1>1. /\ pc = "number" /\ Fixed(size) /\ got = 0
        /\ fate # "changed" => at = Prefix /\ Rooted
    BY DEF GetFixed, Reads
  <1>0. /\ size.lb \in Nat /\ at \in Nat /\ Len(wire) \in Nat /\ Limit \in Nat /\ at <= Len(wire)
        /\ bare \in BOOLEAN /\ n \in Nat /\ size.lb = size.ub
    BY <1>1, SizeTyped, PerLengthAssumption DEF TypeOK, Fixed
  <1>4. ~Encoding /\ pc # "refused"
    BY <1>1 DEF Encoding
  <1>5. fate = "intact" => n = size.lb /\ Len(wire) = IF Bare THEN Prefix ELSE Prefix + 1
    BY <1>0, <1>1, <1>4 DEF Written, InRoot
  <1>2. ASSUME size.lb = 0 \/ bare, Takes(size.lb, "whole"), UNCHANGED <<Value, start, wire, fate, at>>
        PROVE  IInv'
    <2>1. /\ pc' \in {"whole", "error"}
          /\ pc' = "whole" => got' = size.lb /\ (bare => got' <= Limit)
          /\ pc' = "error" => got' = 0 /\ bare /\ size.lb > Limit
      BY <1>0, <1>1, <1>2 DEF Takes
    <2>2. TypeOK'
      BY <1>0, <1>2, <2>1 DEF TypeOK
    <2>3. Linked' /\ Chained' /\ Writes' /\ Written'
      BY <1>2, <1>4, <2>1, ReadKeeps DEF Encoding
    <2>4. fate # "changed" => Bare
      <3> SUFFICES ASSUME fate # "changed" PROVE Bare
        OBVIOUS
      <3>1. Rooted /\ InRoot(size, n)
        BY <1>1, <1>4 DEF Written
      <3> QED
        BY <1>0, <1>1, <1>2, <3>1 DEF Bare, InRoot
    <2>5. fate # "cut"
      <3> SUFFICES ASSUME fate = "cut" PROVE FALSE
        OBVIOUS
      <3>1. Len(wire) < Prefix
        BY <1>4, <2>4 DEF Written
      <3> QED
        BY <1>0, <1>1, <3>1 DEF Prefix
    <2>6. fate = "intact" => (got' = n /\ at' = Len(wire')) \/ pc' = "error"
      BY <1>0, <1>1, <1>2, <1>5, <2>1, <2>4
    <2> QED
      BY <1>0, <1>1, <1>2, <1>5, <2>1, <2>2, <2>3, <2>4, <2>5
         DEF Reads, IntactIsWhole, CutIsNoticed, BareListsAreShort, TypeOK
  <1>3. ASSUME ~(size.lb = 0 \/ bare), Ends
        PROVE  IInv'
    <2>1. Bare => fate # "intact" 
      BY <1>0, <1>3, <1>5 DEF Bare
    <2> QED
      BY <1>1, <1>3, <2>1, EndsStep
  <1>6. ASSUME ~(size.lb = 0 \/ bare), Finds("fixed", size.lb), Takes(size.lb, "whole"),
               at' = at + 1, UNCHANGED <<Value, start, wire, fate>>
        PROVE  IInv'
    <2>1. pc' = "whole" /\ got' = size.lb /\ ~bare /\ at < Len(wire)
      BY <1>0, <1>1, <1>6 DEF Takes, Finds
    <2>2. TypeOK'
      BY <1>0, <1>6, <2>1 DEF TypeOK
    <2>3. Linked' /\ Chained' /\ Writes' /\ Written'
      BY <1>4, <1>6, <2>1, ReadKeeps DEF Encoding
    <2>4. fate # "changed" => size.lb = n /\ fate = "intact" /\ at + 1 = Len(wire)
      <3> SUFFICES ASSUME fate # "changed"
                   PROVE  size.lb = n /\ fate = "intact" /\ at + 1 = Len(wire)
        OBVIOUS
      <3>1. at + 1 \in 1..Len(wire) /\ wire[at + 1].is = "fixed" /\ wire[at + 1].v = size.lb
        BY <1>0, <1>6, <2>1 DEF Finds
      <3>2. Link(wire[at + 1], at + 1) /\ at + 1 = Len(wire) /\ fate = "intact"
        BY <3>1 DEF Linked, Closing
      <3> QED
        BY <3>1, <3>2 DEF Link
    <2> QED
      BY <1>0, <1>6, <2>1, <2>2, <2>3, <2>4 DEF Reads, IntactIsWhole, CutIsNoticed, BareListsAreShort
  <1> QED
    BY <1>2, <1>3, <1>6 DEF GetFixed

LEMMA GetFragmentStep == IInv /\ GetFragment => IInv'
  <1> SUFFICES ASSUME IInv, GetFragment PROVE IInv'
    OBVIOUS
  <1> USE DEF IInv, Value
  <1>1. PICK v \in 0..(Blocks + MaxHeader) :
            /\ Finds("fragment", v)
            /\ IF v \in 1..Blocks THEN Takes(v * Unit, "items")
               ELSE pc' = "error" /\ UNCHANGED got
    BY DEF GetFragment
  <1>2. /\ pc = "items" /\ at' = at + 1 /\ UNCHANGED <<n, size, bare, start, wire, fate>>
        /\ at \in Nat /\ Len(wire) \in Nat /\ at < Len(wire) /\ got \in Nat /\ n \in Nat
        /\ bare \in BOOLEAN /\ (bare => got = 0) /\ v \in Nat /\ Limit \in Nat
    BY <1>1, PerLengthAssumption DEF GetFragment, Finds, TypeOK, Reads
  <1>3. v \in 1..Blocks => v * Unit \in Nat /\ v * Unit > Limit
    BY FragmentIsLong, PerLengthAssumption
  <1>4. /\ pc' \in {"items", "error"}
        /\ pc' = "items" => v \in 1..Blocks /\ got' = got + v * Unit /\ ~bare
        /\ pc' = "error" => got' = got /\ (v \in 1..Blocks => bare)
    BY <1>1, <1>2, <1>3 DEF Takes
  <1>5. got' \in Nat
    BY <1>2, <1>3, <1>4
  <1>6. TypeOK'
    BY <1>2, <1>4, <1>5 DEF TypeOK
  <1>7. Linked' /\ Chained' /\ Writes' /\ Written'
    BY <1>2, <1>4, ReadKeeps DEF Encoding
  <1>8. fate # "changed" =>
            /\ wire[at + 1].is = "fragment" /\ End(wire[at + 1]) = got + v * Unit
            /\ got + v * Unit <= n /\ v \in 1..Blocks /\ ~Rooted
    <2> SUFFICES ASSUME fate # "changed"
                 PROVE  /\ wire[at + 1].is = "fragment" /\ End(wire[at + 1]) = got + v * Unit
                        /\ got + v * Unit <= n /\ v \in 1..Blocks /\ ~Rooted
      OBVIOUS
    <2>1. wire[at + 1].is = "fragment" /\ wire[at + 1].v = v
      BY <1>1 DEF Finds
    <2>2. wire[at + 1].from = got /\ ~Rooted /\ Link(wire[at + 1], at + 1)
      BY <1>2, NextChunk
    <2> QED
      BY <2>1, <2>2 DEF Link, End
  <1>9. fate = "intact" /\ pc' = "error" => bare /\ n > Limit
    BY <1>2, <1>3, <1>4, <1>8
  <1>10. at >= Prefix \/ fate = "changed"
    BY <1>2 DEF Reads
  <1>11. Reads'
    <2>1. CASE pc' = "error"
      BY <1>2, <1>4, <2>1 DEF Reads
    <2>2. CASE pc' = "items"
      <3>1. fate # "changed" =>
              /\ at' > Prefix /\ ~Rooted
              /\ wire[at'].is = "fragment" /\ got' = End(wire[at']) /\ got' <= n
        BY <1>2, <1>4, <1>8, <1>10, <2>2 DEF Prefix
      <3> QED
        BY <1>2, <1>4, <2>2, <3>1 DEF Reads, Rooted, Prefix, End
    <2> QED
      BY <1>4, <2>1, <2>2
  <1> QED
    BY <1>2, <1>4, <1>6, <1>7, <1>9, <1>11 DEF IntactIsWhole, CutIsNoticed, BareListsAreShort

LEMMA GetRestStep == IInv /\ GetRest => IInv'
  <1> SUFFICES ASSUME IInv, GetRest PROVE IInv'
    OBVIOUS
  <1> USE DEF IInv, Value
  <1>1. pc = "items"
    BY DEF GetRest
  <1>2. CASE Ends
    BY <1>1, <1>2, EndsStep
  <1>3. ASSUME NEW v \in 0..(Unit - 1), Finds("length", v), Takes(v, "whole"),
               at' = at + 1, UNCHANGED <<Value, start, wire, fate>>
        PROVE  IInv'
    <2>1. /\ at \in Nat /\ Len(wire) \in Nat /\ at < Len(wire) /\ got \in Nat /\ n \in Nat
          /\ bare \in BOOLEAN /\ (bare => got = 0) /\ v \in Nat /\ Limit \in Nat
      BY <1>1, <1>3, PerLengthAssumption DEF Finds, TypeOK, Reads
    <2>2. /\ pc' \in {"whole", "error"}
          /\ pc' = "whole" => got' = got + v /\ (bare => got' <= Limit)
          /\ pc' = "error" => got' = got /\ bare /\ v > Limit
      BY <1>3, <2>1 DEF Takes
    <2>3. TypeOK'
      BY <1>3, <2>1, <2>2 DEF TypeOK
    <2>4. Linked' /\ Chained' /\ Writes' /\ Written'
      BY <1>1, <1>3, <2>2, ReadKeeps DEF Encoding
    <2>5. fate # "changed" => got + v = n /\ fate = "intact" /\ at + 1 = Len(wire)
      <3> SUFFICES ASSUME fate # "changed"
                   PROVE  got + v = n /\ fate = "intact" /\ at + 1 = Len(wire)
        OBVIOUS
      <3>1. wire[at + 1].is = "length" /\ wire[at + 1].v = v
        BY <1>3 DEF Finds
      <3>2. /\ wire[at + 1].from = got /\ Link(wire[at + 1], at + 1)
            /\ at + 1 = Len(wire) /\ fate = "intact"
        BY <1>1, <2>1, <3>1, NextChunk DEF Closing
      <3> QED
        BY <3>1, <3>2 DEF Link
    <2> QED
      BY <1>3, <2>1, <2>2, <2>3, <2>4, <2>5 DEF Reads, IntactIsWhole, CutIsNoticed, BareListsAreShort
  <1> QED
    BY <1>2, <1>3 DEF GetRest

-----------------------------------------------------------------------------
LEMMA Inductive == IInv /\ [Next]_vars => IInv'
  <1> SUFFICES ASSUME IInv, [Next]_vars PROVE IInv'
    OBVIOUS
  <1>1. CASE Encode
    BY <1>1, PutPrefixStep, PutOffsetStep, RefuseStep, PutFragmentStep, PutRestStep DEF Encode
  <1>2. CASE Decode
    BY <1>2, OpenStep, GetBitStep, GetOffsetStep, GetFixedStep, GetFragmentStep, GetRestStep DEF Decode
  <1>3. ASSUME NEW k \in 0..MaxCount, Cut(k) \/ Change(k) PROVE IInv'
    BY <1>3, CutStep, ChangeStep
  <1>4. CASE UNCHANGED vars
    <2>1. UNCHANGED <<pc, n, size, bare, start, wire, fate, at, got>>
      BY <1>4 DEF vars
    <2>2. TypeOK'
      BY <2>1 DEF IInv, TypeOK
    <2>3. Linked' /\ Chained' /\ Writes'
      BY <2>1 DEF IInv, Linked, Chained, Link, Writes, Encoding, Prefix, Rooted, End
    <2>4. Written' /\ Reads'
      BY <2>1 DEF IInv, Written, Reads, Encoding, Prefix, Rooted, Bare, End
    <2> QED
      BY <2>1, <2>2, <2>3, <2>4 DEF IInv, IntactIsWhole, CutIsNoticed, BareListsAreShort
  <1> QED
    BY <1>1, <1>2, <1>3, <1>4 DEF Next

\* The counts of encoder and decoder stay within the value, the decoder's
\* position within the encoding.
THEOREM TypeCorrect == Spec => []TypeOK
  <1>1. IInv => TypeOK
    BY DEF IInv
  <1> QED
    BY <1>1, Start, Inductive, PTL DEF Spec

\* An encoding that arrives intact decodes to as many items as were encoded,
\* for every count, SIZE and fragment size (put_length_and_items against
\* get_length_and_items).
THEOREM RoundTrip == Spec => []IntactIsWhole
  <1>1. IInv => IntactIsWhole
    BY DEF IInv
  <1> QED
    BY <1>1, Start, Inductive, PTL DEF Spec

\* No proper prefix of an encoding decodes as a whole.
THEOREM CutsAreNoticed == Spec => []CutIsNoticed
  <1>1. IInv => CutIsNoticed
    BY DEF IInv
  <1> QED
    BY <1>1, Start, Inductive, PTL DEF Spec

\* The limit on items without bits holds for the whole list, whatever arrives,
\* because one block is longer than the limit (LimitAssumption).
THEOREM BareListsStayShort == Spec => []BareListsAreShort
  <1>1. IInv => BareListsAreShort
    BY DEF IInv
  <1> QED
    BY <1>1, Start, Inductive, PTL DEF Spec

-----------------------------------------------------------------------------
\* What a step may do, seen from outside the codec.
Forward ==
    /\ pc \notin {"whole", "error", "refused"}
    /\ n' = n /\ got' >= got
    /\ pc' \in {"error", "refused"} => got' = got
    /\ fate = "changed" => fate' = "changed"
    /\ fate' = "changed" /\ fate # "changed" => got = 0 /\ pc' = "sent"

LEMMA TakesForward ==
    ASSUME got \in Nat, NEW m \in Nat, NEW then, Takes(m, then), then # "error"
    PROVE  got' >= got /\ pc' \in {then, "error"} /\ (pc' = "error" => got' = got)
  BY DEF Takes

LEMMA MovesForward ==
    ASSUME IInv, Next
    PROVE  Forward
  <1> USE DEF Value, Forward
  <1>0. got \in Nat /\ size.lb \in Nat /\ Wide[size] \in Nat
    BY SizeTyped DEF IInv, TypeOK
  <1>1. CASE Encode
    BY <1>0, <1>1 DEF Encode, PutPrefix, PutOffset, Refuse, PutFragment, PutRest
  <1>2. ASSUME NEW k \in 0..MaxCount, Cut(k) \/ Change(k)
        PROVE  Forward
    BY <1>0, <1>2 DEF Cut, Change, IInv, Reads
  <1>3. CASE Open \/ GetBit
    BY <1>0, <1>3 DEF Open, GetBit, Ends
  <1>4. CASE GetOffset
    <2>1. CASE Ends
      BY <1>0, <1>4, <2>1 DEF GetOffset, Ends
    <2>2. ASSUME NEW v \in 0..Wide[size], Takes(size.lb + v, "whole"), UNCHANGED <<Value, fate>>
          PROVE  Forward
      BY <1>0, <1>4, <2>2, TakesForward DEF GetOffset
    <2> QED
      BY <1>4, <2>1, <2>2 DEF GetOffset
  <1>5. CASE GetFixed
    <2>1. CASE Ends
      BY <1>0, <1>5, <2>1 DEF GetFixed, Ends
    <2>2. ASSUME Takes(size.lb, "whole"), UNCHANGED <<Value, fate>>
          PROVE  Forward
      BY <1>0, <1>5, <2>2, TakesForward DEF GetFixed
    <2> QED
      BY <1>5, <2>1, <2>2 DEF GetFixed
  <1>6. CASE GetFragment
    <2>1. PICK v \in 0..(Blocks + MaxHeader) :
              IF v \in 1..Blocks THEN Takes(v * Unit, "items") ELSE pc' = "error" /\ UNCHANGED got
      BY <1>6 DEF GetFragment
    <2>2. pc = "items" /\ UNCHANGED <<n, fate>>
      BY <1>6 DEF GetFragment
    <2>3. CASE v \in 1..Blocks
      <3>1. v * Unit \in Nat
        BY <2>3, FragmentIsLong
      <3> QED
        BY <1>0, <2>1, <2>2, <2>3, <3>1, TakesForward
    <2>4. CASE v \notin 1..Blocks
      BY <1>0, <2>1, <2>2, <2>4
    <2> QED
      BY <2>3, <2>4
  <1>7. CASE GetRest
    <2>1. CASE Ends
      BY <1>0, <1>7, <2>1 DEF GetRest, Ends
    <2>2. ASSUME NEW v \in 0..(Unit - 1), Takes(v, "whole"), UNCHANGED <<Value, fate>>
          PROVE  Forward
      BY <1>0, <1>7, <2>2, TakesForward, PerLengthAssumption DEF GetRest
    <2> QED
      BY <1>7, <2>1, <2>2 DEF GetRest
  <1> QED
    BY <1>1, <1>2, <1>3, <1>4, <1>5, <1>6, <1>7 DEF Next, Decode

LEMMA StepRefines == IInv /\ IInv' /\ [Next]_vars => [Abstract!Next]_(Abstract!vars)
  <1> SUFFICES ASSUME IInv, IInv', [Next]_vars PROVE [Abstract!Next]_(Abstract!vars)
    OBVIOUS
  <1>1. CASE UNCHANGED vars
    BY <1>1 DEF vars, Abstract!vars
  <1>2. CASE Next
    <2>1. Forward
      BY <1>2, MovesForward
    <2>2. /\ got \in Nat /\ got' \in Nat /\ n \in Nat
          /\ fate # "changed" => got <= n
          /\ fate' # "changed" => got' <= n'
          /\ pc' = "whole" /\ fate' # "changed" => got' = n'
      BY DEF IInv, TypeOK, Reads, IntactIsWhole, CutIsNoticed
    <2> DEFINE have == IF fate = "changed" THEN 0 ELSE got
               end  == IF pc \in {"refused", "error"} \/ (pc = "whole" /\ fate = "changed") THEN "error"
                       ELSE IF pc = "whole" THEN "whole" ELSE "open"
    <2>3. end = "open" /\ n' = n /\ have \in 0..n /\ have' \in have..n
      BY <2>1, <2>2 DEF Forward
    <2>4. CASE end' = "error"
      <3>1. have' = have
        BY <2>1, <2>2, <2>4 DEF Forward
      <3> QED
        BY <2>3, <2>4, <3>1 DEF Abstract!Next, Abstract!Fail
    <2>5. CASE end' = "whole"
      <3>1. have' = n
        BY <2>1, <2>2, <2>5 DEF Forward
      <3> QED
        BY <2>3, <2>5, <3>1 DEF Abstract!Next, Abstract!Move
    <2>6. CASE end' = "open"
      BY <2>3, <2>6 DEF Abstract!Next, Abstract!Move
    <2> QED
      BY <2>4, <2>5, <2>6
  <1> QED
    BY <1>1, <1>2

\* The codec's steps are steps of the abstract transfer: items arrive in order,
\* none is lost or made up, and the transfer ends with all of them or with an
\* error.  That it ends is liveness, which the model checker covers.
THEOREM RefinesTransfer == Spec => Abstract!Init /\ [][Abstract!Next]_(Abstract!vars)
  <1>1. Init => Abstract!Init
    BY DEF Init, Abstract!Init
  <1> QED
    BY <1>1, Start, Inductive, StepRefines, PTL DEF Spec
=============================================================================
