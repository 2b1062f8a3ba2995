------------------------- MODULE PerExtensionsProofs ------------------------
(***************************************************************************)
(* What PerExtensions promises for every schema, every set of programs and *)
(* every message history.                                                  *)
(*                                                                         *)
(* The invariants of the objects are not inductive by themselves: what an  *)
(* object means after a decode depends on what the message in the channel  *)
(* carries.  Carried relates a message's packet to the meanings its sender *)
(* had, Agree extends Meanings to the members an object does not know, and *)
(* Readable says that a program with older types holds nothing they cannot *)
(* express.                                                                *)
(***************************************************************************)
EXTENDS PerExtensions, FiniteSetTheorems, TLAPS

\* m's cell is read from the packet, not made absent by a clear bit.
OnWire(p, m) ==
    m \in Root \/ (p.ext /\ UnitOf[m] <= p.n /\ UnitOf[m] \in p.bits)

Carries(q, m) ==
    LET p == q.packet
    IN  /\ p.wire[m] \in Vals[m] \cup {Absent}
        /\ OnWire(p, m) /\ p.wire[m] # Absent => q.meant[m] = p.wire[m]
        /\ ~OnWire(p, m) \/ p.wire[m] = Absent => q.meant[m] = DefaultOrAbsent(m)
        /\ OnWire(p, m) /\ p.wire[m] = Absent =>
                m \in Optional /\ (m \in Ext => UnitOf[m] \in Group)
        /\ q.by \in OldInner /\ p.wire[m] # Absent => Bare[p.wire[m]] = p.wire[m]

Carried ==
    \A q \in msg :
        /\ q.packet.bits \subseteq 1..Version[q.by]
        /\ \A m \in Member : Carries(q, m)

Agree == \A o \in vouched, m \in Member : Meaning(content[o], m) = told[o][m]

Readable ==
    \A o \in OldInner, m \in Member :
        content[o][m] # Absent => Bare[content[o][m]] = content[o][m]

IInv == TypeOK /\ Carried /\ Agree /\ Readable

USE DEF Member, Cell, Storage

LEMMA DefaultTyped ==
    \A m \in Member : DefaultOrAbsent(m) \in Vals[m] \cup {Absent}
BY ValueAssumption DEF DefaultOrAbsent, Default

LEMMA ValsTyped == \A m \in Member : Vals[m] \subseteq Value
BY ValueAssumption

\* Reading with other types keeps absence, the type and the DEFAULT.
LEMMA ReadTyped ==
    ASSUME NEW o \in Obj, NEW m \in Member, NEW x \in Vals[m] \cup {Absent}
    PROVE  /\ ReadBy(o, x) \in Vals[m] \cup {Absent}
           /\ (ReadBy(o, x) = Absent) <=> (x = Absent)
           /\ o \in OldInner /\ x # Absent => Bare[ReadBy(o, x)] = ReadBy(o, x)
           /\ ReadBy(o, DefaultOrAbsent(m)) = DefaultOrAbsent(m)
BY ValueAssumption, DefaultTyped, ValsTyped DEF ReadBy, DefaultOrAbsent

LEMMA DefaultBare ==
    \A m \in Member : DefaultOrAbsent(m) # Absent =>
        Bare[DefaultOrAbsent(m)] = DefaultOrAbsent(m)
BY ValueAssumption DEF DefaultOrAbsent

-----------------------------------------------------------------------------
\* What an encoder writes carries what its object means.
LEMMA EncodeCarries ==
    ASSUME IInv, NEW o \in vouched, ~EncodeFails(o, content[o]),
           NEW q, q = [packet |-> Encode(o, content[o]), meant |-> told[o], by |-> o]
    PROVE  /\ q \in Message
           /\ q.packet.bits \subseteq 1..Version[q.by]
           /\ \A m \in Member : Carries(q, m)
<1> DEFINE c == content[o]
           p == Encode(o, c)
<1>0. o \in Obj
    BY DEF IInv, TypeOK
<1>1. /\ c \in Storage /\ told[o] \in Storage
      /\ \A m \in Member :
            /\ c[m] \in Vals[m] \cup {Absent}
            /\ m \notin Known(o) => c[m] = Absent
            /\ m \in Root \ Optional => c[m] # Absent
            /\ Meaning(c, m) = told[o][m]
            /\ o \in OldInner /\ c[m] # Absent => Bare[c[m]] = c[m]
    BY <1>0, ProgramAssumption DEF IInv, TypeOK, Agree, Readable
<1>2. /\ q.packet = p /\ q.meant = told[o] /\ q.by = o
      /\ (p.ext <=> PresentUnits(o, c) # {}) /\ p.bits = PresentUnits(o, c)
      /\ p.n = IF PresentUnits(o, c) = {} THEN 0 ELSE Version[o]
      /\ \A m \in Member : p.wire[m] =
            IF m \in Root THEN RootWire(c, m)
            ELSE IF m \in Known(o) THEN c[m] ELSE Absent
    BY DEF Encode
<1>3. PresentUnits(o, c) \subseteq 1..Version[o] /\ Version[o] \in Nat
    BY <1>0, ProgramAssumption DEF PresentUnits
<1>4. p.wire \in Storage
    BY <1>1, ValueAssumption DEF Encode, RootWire
<1>5. q \in Message
    BY <1>0, <1>1, <1>2, <1>3, <1>4 DEF Message, Packet, Encode
<1>6. ASSUME NEW m \in Root PROVE Carries(q, m)
    BY <1>1, <1>2, MemberAssumption, ValueAssumption
    DEF Carries, OnWire, RootWire, Meaning, DefaultOrAbsent
<1>7. ASSUME NEW m \in Ext, m \notin Known(o) PROVE Carries(q, m)
    <2>1. m \notin Root /\ UnitOf[m] > Version[o] /\ UnitOf[m] \in Nat
        BY <1>3, <1>7, MemberAssumption DEF Known
    <2>2. ~OnWire(p, m)
        BY <2>1, <1>2, <1>3 DEF OnWire
    <2> QED
        BY <2>1, <2>2, <1>1, <1>2, <1>7 DEF Carries, Meaning
<1>8. ASSUME NEW m \in Ext, m \in Known(o) PROVE Carries(q, m)
    <2>1. m \notin Root /\ UnitOf[m] \in 1..Version[o] /\ p.wire[m] = c[m]
        BY <1>2, <1>3, <1>8, MemberAssumption DEF Known
    <2>2. OnWire(p, m) <=> UnitPresent(c, UnitOf[m])
        BY <2>1, <1>2, <1>3 DEF OnWire, PresentUnits
    <2>3. c[m] # Absent => UnitPresent(c, UnitOf[m])
        BY <1>8 DEF UnitPresent, Unit
    <2>4. UnitPresent(c, UnitOf[m]) /\ c[m] = Absent =>
                m \in Optional /\ UnitOf[m] \in Group
        <3> SUFFICES ASSUME UnitPresent(c, UnitOf[m]), c[m] = Absent
                     PROVE  m \in Optional /\ UnitOf[m] \in Group
            OBVIOUS
        <3>1. PICK k \in Ext : UnitOf[k] = UnitOf[m] /\ c[k] # Absent
            BY DEF UnitPresent, Unit
        <3>2. UnitOf[m] \in Group
            BY <3>1, MemberAssumption
        <3>3. UnitOf[m] \in PresentUnits(o, c) /\ m \in Unit(UnitOf[m])
            BY <2>1 DEF PresentUnits, Unit
        <3> QED
            BY <3>2, <3>3 DEF EncodeFails
    <2> QED
        BY <2>1, <2>2, <2>3, <2>4, <1>1, <1>2 DEF Carries, Meaning
<1> QED
    BY <1>2, <1>3, <1>5, <1>6, <1>7, <1>8

-----------------------------------------------------------------------------
\* A struct fits o's program: the per-object part of TypeOK and of Readable.
Fits(o, c) ==
    /\ c \in Storage
    /\ \A m \in Member :
        /\ c[m] \in Vals[m] \cup {Absent}
        /\ m \notin Known(o) => c[m] = Absent
        /\ m \in Root \ Optional => c[m] # Absent
        /\ o \in OldInner /\ c[m] # Absent => Bare[c[m]] = c[m]

LEMMA ObjectsFit == ASSUME IInv, NEW o \in Obj PROVE Fits(o, content[o])
BY DEF IInv, TypeOK, Readable, Fits

\* One member after a decode: its type, and what it means.
LEMMA DecodedMember ==
    ASSUME IInv, NEW o \in Obj, NEW q \in msg, NEW m \in Member
    PROVE  LET x == AfterDecode(o, q.packet)[m]
           IN  /\ x \in Vals[m] \cup {Absent}
               /\ m \notin Known(o) => x = Absent
               /\ m \in Root \ Optional => x # Absent
               /\ o \in OldInner /\ x # Absent => Bare[x] = x
               /\ (IF x = Absent THEN DefaultOrAbsent(m) ELSE x)
                    = Keeps(o, q.meant)[m]
<1> DEFINE p == q.packet
           x == AfterDecode(o, p)[m]
<1>1. Carries(q, m) /\ p.wire[m] \in Vals[m] \cup {Absent}
    BY DEF IInv, Carried, Carries
<1>2. /\ ReadBy(o, p.wire[m]) \in Vals[m] \cup {Absent}
      /\ (ReadBy(o, p.wire[m]) = Absent) <=> (p.wire[m] = Absent)
      /\ o \in OldInner /\ p.wire[m] # Absent =>
            Bare[ReadBy(o, p.wire[m])] = ReadBy(o, p.wire[m])
      /\ ReadBy(o, DefaultOrAbsent(m)) = DefaultOrAbsent(m)
    BY <1>1, ReadTyped
<1>3. DefaultOrAbsent(m) \in Vals[m] \cup {Absent}
    BY DefaultTyped
<1>4. DefaultOrAbsent(m) # Absent => Bare[DefaultOrAbsent(m)] = DefaultOrAbsent(m)
    BY DefaultBare
<1>5. Keeps(o, q.meant)[m] =
        IF m \in Known(o) THEN ReadBy(o, q.meant[m]) ELSE DefaultOrAbsent(m)
    BY DEF Keeps
<1>6. CASE m \in Root
    <2>1. m \in Known(o) /\ x = DecodeRoot(o, p, m) /\ OnWire(p, m)
        BY <1>6 DEF Known, AfterDecode, OnWire
    <2>2. CASE p.wire[m] = Absent
        <3>1. m \in Optional /\ q.meant[m] = DefaultOrAbsent(m)
            BY <2>1, <2>2, <1>1 DEF Carries
        <3>2. x = DefaultOrAbsent(m)
            BY <2>1, <2>2, <3>1 DEF DecodeRoot
        <3> QED
            BY <3>1, <3>2, <2>1, <1>2, <1>3, <1>4, <1>5
    <2>3. CASE p.wire[m] # Absent
        <3>1. q.meant[m] = p.wire[m] /\ x = ReadBy(o, p.wire[m])
            BY <2>1, <2>3, <1>1 DEF Carries, DecodeRoot
        <3> QED
            BY <3>1, <2>1, <2>3, <1>2, <1>5
    <2> QED
        BY <2>2, <2>3
<1>7. CASE m \notin Root /\ m \in Known(o)
    <2>1. m \in Ext /\ x = DecodeAddition(o, p, m)
        BY <1>7 DEF AfterDecode
    <2>2. CASE ~OnWire(p, m)
        <3>1. q.meant[m] = DefaultOrAbsent(m)
            BY <2>2, <1>1 DEF Carries
        <3>2. x = Absent \/ x = DefaultOrAbsent(m)
            BY <2>1, <2>2, p \in Packet, MemberAssumption
            DEF DecodeAddition, OnWire, IInv, TypeOK, Message, Packet
        <3> QED
            BY <3>1, <3>2, <1>7, <1>2, <1>3, <1>4, <1>5
    <2>3. CASE OnWire(p, m) /\ p.wire[m] = Absent
        <3>1. /\ q.meant[m] = DefaultOrAbsent(m)
              /\ m \in Optional /\ UnitOf[m] \in Group
            BY <2>1, <2>3, <1>1 DEF Carries
        <3>2. x = Absent \/ x = DefaultOrAbsent(m)
            BY <2>1, <2>3, <3>1 DEF DecodeAddition
        <3> QED
            BY <3>1, <3>2, <1>7, <1>2, <1>3, <1>4, <1>5
    <2>4. CASE OnWire(p, m) /\ p.wire[m] # Absent
        <3>1. q.meant[m] = p.wire[m]
            BY <2>4, <1>1 DEF Carries
        <3>2. x = ReadBy(o, p.wire[m])
            <4>1. p.ext /\ UnitOf[m] <= p.n /\ UnitOf[m] \in p.bits
                BY <2>4, <1>7 DEF OnWire
            <4>2. UnitOf[m] \in Nat /\ p.n \in Nat
                BY <2>1, MemberAssumption DEF IInv, TypeOK, Message, Packet
            <4> QED
                BY <2>1, <2>4, <4>1, <4>2 DEF DecodeAddition
        <3> QED
            BY <3>1, <3>2, <1>7, <2>4, <1>2, <1>5
    <2> QED
        BY <2>2, <2>3, <2>4
<1>8. CASE m \notin Known(o)
    <2>1. x = Absent /\ m \notin Root
        BY <1>8 DEF AfterDecode, Known
    <2> QED
        BY <2>1, <1>5, <1>8
<1> QED
    BY <1>6, <1>7, <1>8

LEMMA DecodedFits ==
    ASSUME IInv, NEW o \in Obj, NEW q \in msg
    PROVE  /\ Fits(o, AfterDecode(o, q.packet))
           /\ \A m \in Member :
                Meaning(AfterDecode(o, q.packet), m) = Keeps(o, q.meant)[m]
<1>1. AfterDecode(o, q.packet) = [m \in Member |-> AfterDecode(o, q.packet)[m]]
    BY DEF AfterDecode
<1>2. \A m \in Member : AfterDecode(o, q.packet)[m] \in Vals[m] \cup {Absent}
    BY DecodedMember
<1>3. AfterDecode(o, q.packet) \in Storage
    BY <1>1, <1>2, ValsTyped
<1> QED
    BY <1>3, DecodedMember DEF Fits, Meaning

\* What a decode counts is a number.
LEMMA CountTyped ==
    ASSUME IInv, NEW o \in Obj, NEW q \in msg
    PROVE  /\ SkippedCount(o, q.packet) \in Nat
           /\ SkippedUnits(o, q.packet) # {} \/ SkippedInRoot(o, q.packet) # {}
                <=> SkippedCount(o, q.packet) > 0
<1> DEFINE U == SkippedUnits(o, q.packet)
           R == SkippedInRoot(o, q.packet)
<1>1. q.by \in Obj /\ Version[q.by] \in Nat
    BY ProgramAssumption DEF IInv, TypeOK, Message
<1>2. U \subseteq 1..Version[q.by]
    BY DEF IInv, Carried, SkippedUnits
<1>3. IsFiniteSet(U)
    <2>1. IsFiniteSet(1..Version[q.by])
        BY <1>1, FS_Interval
    <2> QED
        BY <2>1, <1>2, FS_Subset
<1>4. IsFiniteSet(R)
    BY MemberAssumption, FS_Subset DEF SkippedInRoot
<1>5. /\ Cardinality(U) \in Nat /\ (Cardinality(U) = 0 <=> U = {})
      /\ Cardinality(R) \in Nat /\ (Cardinality(R) = 0 <=> R = {})
    BY <1>3, <1>4, FS_CardinalityType, FS_EmptySet
<1> QED
    BY <1>5 DEF SkippedCount

-----------------------------------------------------------------------------
\* A step that rewrites one object with contents that fit it, and, if it is
\* vouched for, mean what it was told, keeps the invariant.
LEMMA RewriteKeeps ==
    ASSUME IInv, NEW o \in Obj, NEW c, NEW t \in Storage,
           Fits(o, c),
           content' = [content EXCEPT ![o] = c],
           told' = [told EXCEPT ![o] = t],
           vouched' \subseteq Obj, vouched' \ {o} \subseteq vouched,
           o \in vouched' => \A m \in Member : Meaning(c, m) = t[m],
           decoded' \subseteq vouched', newer' \subseteq Obj,
           skipped' \in [Obj -> Nat], lost' \in [Obj -> SUBSET Member],
           msg' = msg
    PROVE  IInv'
<1>1. /\ content \in [Obj -> Storage] /\ told \in [Obj -> Storage]
      /\ c \in Storage /\ msg \subseteq Message
    BY DEF IInv, TypeOK, Fits
<1>2. /\ content'[o] = c /\ told'[o] = t
      /\ \A x \in Obj : x # o => content'[x] = content[x] /\ told'[x] = told[x]
      /\ content' \in [Obj -> Storage] /\ told' \in [Obj -> Storage]
    BY <1>1
<1>3. ASSUME NEW x \in Obj, NEW m \in Member
      PROVE  /\ content'[x][m] \in Vals[m] \cup {Absent}
             /\ m \notin Known(x) => content'[x][m] = Absent
             /\ m \in Root \ Optional => content'[x][m] # Absent
             /\ x \in OldInner /\ content'[x][m] # Absent =>
                    Bare[content'[x][m]] = content'[x][m]
    <2>1. CASE x = o
        BY <1>2, <2>1 DEF Fits
    <2>2. CASE x # o
        BY <1>2, <2>2, ObjectsFit DEF Fits
    <2> QED
        BY <2>1, <2>2
<1>4. TypeOK'
    BY <1>1, <1>2, <1>3 DEF TypeOK, Known
<1>5. Carried'
    BY DEF IInv, Carried, Carries, OnWire, DefaultOrAbsent
<1>6. Agree'
    <2> SUFFICES ASSUME NEW x \in vouched', NEW m \in Member
                 PROVE  Meaning(content'[x], m) = told'[x][m]
        BY DEF Agree, Meaning, DefaultOrAbsent
    <2>1. CASE x = o
        BY <1>2, <2>1
    <2>2. CASE x # o
        <3>1. x \in vouched /\ x \in Obj
            BY <2>2
        <3> QED
            BY <3>1, <1>2, <2>2 DEF IInv, Agree
    <2> QED
        BY <2>1, <2>2
<1>7. Readable'
    BY <1>3, ProgramAssumption DEF Readable
<1> QED
    BY <1>4, <1>5, <1>6, <1>7 DEF IInv

LEMMA FreshFits ==
    ASSUME NEW o \in Obj
    PROVE  Fits(o, Fresh)
BY MemberAssumption, ValueAssumption DEF Fits, Fresh, Known

LEMMA InitInv == Init => IInv
<1> SUFFICES ASSUME Init PROVE IInv
    OBVIOUS
<1>1. \A o \in Obj : content[o] = Fresh /\ told[o] = [m \in Member |-> Meaning(Fresh, m)]
    BY DEF Init
<1>2. [m \in Member |-> Meaning(Fresh, m)] \in Storage
    BY FreshFits, DefaultTyped, ValsTyped, ValueAssumption
    DEF Meaning, Fresh
<1>3. TypeOK
    <2>1. Fresh \in Storage
        BY ValueAssumption DEF Fresh
    <2> QED
        BY <1>1, <1>2, <2>1, FreshFits DEF Init, TypeOK, Fits
<1>4. Carried
    BY DEF Init, Carried
<1>5. Agree
    BY <1>1 DEF Init, Agree
<1>6. Readable
    BY <1>1, FreshFits, ProgramAssumption DEF Readable, Fits
<1> QED
    BY <1>3, <1>4, <1>5, <1>6 DEF IInv

LEMMA ForgetTyped ==
    ASSUME IInv, NEW o \in Obj, Forget(o)
    PROVE  /\ decoded' \subseteq vouched \ {o} /\ newer' \subseteq Obj
           /\ skipped' \in [Obj -> Nat] /\ lost' \in [Obj -> SUBSET Member]
BY DEF IInv, TypeOK, Forget

LEMMA SetKeeps ==
    ASSUME IInv, NEW o \in Obj, NEW m \in Member, NEW v \in Cell, Set(o, m, v)
    PROVE  IInv'
<1> DEFINE c == [content[o] EXCEPT ![m] = v]
           x == IF v = Absent THEN DefaultOrAbsent(m) ELSE v
           t == [told[o] EXCEPT ![m] = x]
<1>1. /\ o \in vouched /\ m \in Known(o) /\ Forget(o)
      /\ msg' = msg /\ vouched' = vouched
      /\ v = Absent => m \notin Root \ Optional
      /\ v # Absent => v \in Vals[m] /\ ReadBy(o, v) = v
    BY DEF Set
<1>2. content[o] \in Storage /\ told[o] \in Storage /\ vouched \subseteq Obj
    BY DEF IInv, TypeOK
<1>3. content' = [content EXCEPT ![o] = c] /\ told' = [told EXCEPT ![o] = t]
    BY DEF Set, IInv, TypeOK
<1>4. Fits(o, c)
    <2>1. /\ c \in Storage /\ c[m] = v
          /\ \A k \in Member : k # m => c[k] = content[o][k]
        BY <1>2
    <2>2. v # Absent /\ o \in OldInner => Bare[v] = v
        BY <1>1 DEF ReadBy
    <2> QED
        BY <2>1, <2>2, <1>1, ObjectsFit DEF Fits
<1>5. x \in Cell /\ t \in Storage
    BY <1>2, DefaultTyped, ValsTyped
<1>6. \A k \in Member : Meaning(c, k) = t[k]
    <2>1. \A k \in Member : Meaning(content[o], k) = told[o][k]
        BY <1>1 DEF IInv, Agree
    <2> QED
        BY <2>1, <1>2 DEF Meaning
<1>7. /\ decoded' \subseteq vouched' /\ newer' \subseteq Obj
      /\ skipped' \in [Obj -> Nat] /\ lost' \in [Obj -> SUBSET Member]
    BY <1>1, ForgetTyped
<1> QED
    BY <1>1, <1>2, <1>3, <1>4, <1>5, <1>6, <1>7, RewriteKeeps

LEMMA SendKeeps ==
    ASSUME IInv, NEW o \in Obj, Send(o) \/ SendFails(o)
    PROVE  IInv'
<1>1. UNCHANGED <<content, skipped, told, vouched, decoded, lost, newer>>
    BY DEF Send, SendFails
<1>2. msg' \subseteq Message /\ Carried'
    <2>1. CASE Send(o)
        <3> DEFINE q == [packet |-> Encode(o, content[o]), meant |-> told[o], by |-> o]
        <3>1. o \in vouched /\ ~EncodeFails(o, content[o]) /\ msg' = {q}
            BY <2>1 DEF Send
        <3>2. /\ q \in Message /\ q.packet.bits \subseteq 1..Version[q.by]
              /\ \A m \in Member : Carries(q, m)
            BY <3>1, EncodeCarries
        <3> HIDE DEF q
        <3> QED
            BY <3>1, <3>2 DEF Carried, Carries, OnWire, DefaultOrAbsent
    <2>2. CASE SendFails(o)
        BY <2>2 DEF SendFails, Carried
    <2> QED
        BY <2>1, <2>2
<1>3. TypeOK'
    BY <1>1, <1>2 DEF IInv, TypeOK, Known
<1>4. Agree' /\ Readable'
    BY <1>1 DEF IInv, Agree, Readable, Meaning, DefaultOrAbsent
<1> QED
    BY <1>2, <1>3, <1>4 DEF IInv

LEMMA ReceiveKeeps ==
    ASSUME IInv, NEW o \in Obj, NEW q \in msg, Receive(o, q)
    PROVE  IInv'
<1> DEFINE c == AfterDecode(o, q.packet)
           t == Keeps(o, q.meant)
<1>1. Fits(o, c) /\ \A m \in Member : Meaning(c, m) = t[m]
    BY DecodedFits
<1>2. t \in Storage
    <2>1. \A m \in Member : t[m] \in Cell
        <3> SUFFICES ASSUME NEW m \in Member PROVE t[m] \in Cell
            OBVIOUS
        <3>1. Meaning(c, m) \in Cell
            BY <1>1, DefaultTyped, ValsTyped DEF Meaning, Fits
        <3> QED
            BY <3>1, <1>1
    <2> QED
        BY <2>1 DEF Keeps
<1>3. /\ content' = [content EXCEPT ![o] = c]
      /\ told' = [told EXCEPT ![o] = t] /\ msg' = msg
      /\ vouched' = vouched \cup {o} /\ decoded' = decoded \cup {o}
    BY DEF Receive
<1>4. /\ vouched \subseteq Obj /\ decoded \subseteq vouched
      /\ newer' \subseteq Obj
      /\ lost' \in [Obj -> SUBSET Member]
    BY DEF Receive, IInv, TypeOK, Loses
<1>5. skipped' \in [Obj -> Nat]
    BY CountTyped DEF Receive, IInv, TypeOK
<1> QED
    BY <1>1, <1>2, <1>3, <1>4, <1>5, RewriteKeeps

\* A decode that fails leaves a struct of the program's types, trusted by
\* nobody.
LEMMA SpoilKeeps ==
    ASSUME IInv, NEW o \in Obj, NEW c, Fits(o, c), Spoil(o, c)
    PROVE  IInv'
<1> DEFINE t == [m \in Member |-> DefaultOrAbsent(m)]
<1>1. t \in Storage
    BY DefaultTyped, ValsTyped
<1>2. /\ content' = [content EXCEPT ![o] = c]
      /\ told' = [told EXCEPT ![o] = t] /\ msg' = msg
      /\ vouched' = vouched \ {o} /\ Forget(o) /\ vouched \subseteq Obj
    BY DEF Spoil, IInv, TypeOK
<1>3. /\ decoded' \subseteq vouched' /\ newer' \subseteq Obj
      /\ skipped' \in [Obj -> Nat] /\ lost' \in [Obj -> SUBSET Member]
    BY <1>2, ForgetTyped
<1> QED
    BY <1>1, <1>2, <1>3, RewriteKeeps

LEMMA PartlyFits ==
    ASSUME IInv, NEW o \in Obj, NEW q \in msg, NEW k \in Member
    PROVE  Fits(o, Partly(o, q.packet, k))
<1>1. Fits(o, content[o]) /\ Fits(o, AfterDecode(o, q.packet))
    BY ObjectsFit, DecodedFits
<1> QED
    BY <1>1 DEF Fits, Partly

LEMMA FailKeeps ==
    ASSUME IInv, NEW o \in Obj, NEW q \in msg,
           \/ \E k \in Member, v \in Value : DecodeFailsIn(o, q, k, v)
           \/ \E k \in Member : DecodeFailsBefore(o, q, k)
           \/ DecodeFailsSkipping(o, q)
    PROVE  IInv'
<1>1. CASE \E k \in Member, v \in Value : DecodeFailsIn(o, q, k, v)
    <2>1. PICK k \in Member, v \in Value : DecodeFailsIn(o, q, k, v)
        BY <1>1
    <2> DEFINE b == Partly(o, q.packet, k)
               c == [b EXCEPT ![k] = v]
    <2>2. k \in Known(o) /\ v \in Vals[k] /\ ReadBy(o, v) = v /\ Spoil(o, c)
        BY <2>1 DEF DecodeFailsIn
    <2>3. Fits(o, b)
        BY PartlyFits
    <2>4. v # Absent /\ (o \in OldInner => Bare[v] = v)
        BY <2>2, ValueAssumption DEF ReadBy
    <2> HIDE DEF b
    <2>5. /\ c \in Storage /\ c[k] = v
          /\ \A m \in Member : m # k => c[m] = b[m]
        BY <2>3 DEF Fits
    <2>6. Fits(o, c)
        BY <2>2, <2>3, <2>4, <2>5 DEF Fits
    <2> QED
        BY <2>2, <2>6, SpoilKeeps
<1>2. CASE \E k \in Member : DecodeFailsBefore(o, q, k)
    BY <1>2, PartlyFits, SpoilKeeps DEF DecodeFailsBefore
<1>3. CASE DecodeFailsSkipping(o, q)
    BY <1>3, DecodedFits, SpoilKeeps DEF DecodeFailsSkipping
<1> QED
    BY <1>1, <1>2, <1>3

THEOREM Inductive == Spec => []IInv
<1>1. IInv /\ [Next]_vars => IInv'
    <2> SUFFICES ASSUME IInv, [Next]_vars PROVE IInv'
        OBVIOUS
    <2>1. CASE \E o \in Obj, m \in Member, v \in Cell : Set(o, m, v)
        BY <2>1, SetKeeps
    <2>2. CASE \E o \in Obj : Send(o) \/ SendFails(o)
        BY <2>2, SendKeeps
    <2>3. CASE \E o \in Obj, q \in msg : Receive(o, q)
        BY <2>3, ReceiveKeeps
    <2>4. CASE \E o \in Obj, q \in msg :
                \/ \E k \in Member, v \in Value : DecodeFailsIn(o, q, k, v)
                \/ \E k \in Member : DecodeFailsBefore(o, q, k)
                \/ DecodeFailsSkipping(o, q)
        BY <2>4, FailKeeps
    <2>5. CASE UNCHANGED vars
        <3>1. /\ content' = content /\ msg' = msg /\ skipped' = skipped /\ told' = told
              /\ vouched' = vouched /\ decoded' = decoded /\ newer' = newer /\ lost' = lost
            BY <2>5 DEF vars
        <3>2. TypeOK'
            BY <3>1 DEF IInv, TypeOK, Known
        <3>3. Carried'
            BY <3>1 DEF IInv, Carried, Carries, OnWire, DefaultOrAbsent
        <3>4. Agree' /\ Readable'
            BY <3>1 DEF IInv, Agree, Readable, Meaning, DefaultOrAbsent
        <3> QED
            BY <3>2, <3>3, <3>4 DEF IInv
    <2> QED
        BY <2>1, <2>2, <2>3, <2>4, <2>5 DEF Next
<1> QED
    BY InitInv, <1>1, PTL DEF Spec

\* The struct, the message and the meanings have their types.
THEOREM TypeCorrect == Spec => []TypeOK
BY Inductive, PTL DEF IInv

\* End to end: whatever was in an object, after a decode its members mean what
\* they meant where they were set (SequencePerHandler::decode_members).
THEOREM EndToEnd == Spec => []Meanings
<1>1. IInv => Meanings
    BY DEF IInv, Agree, Meanings, Known
<1> QED
    BY <1>1, Inductive, PTL

-----------------------------------------------------------------------------
\* An object that counts as decoded has just been decoded, or nothing of it
\* and of its last decode has changed.
LEMMA DecodedStep ==
    ASSUME IInv, [Next]_vars, NEW o \in decoded'
    PROVE  \/ /\ o \in decoded
              /\ content'[o] = content[o] /\ skipped'[o] = skipped[o]
              /\ lost'[o] = lost[o] /\ (o \in newer' <=> o \in newer)
           \/ o \in Obj /\ \E q \in msg : Receive(o, q)
<1> DEFINE Kept == /\ o \in decoded
                   /\ content'[o] = content[o] /\ skipped'[o] = skipped[o]
                   /\ lost'[o] = lost[o] /\ (o \in newer' <=> o \in newer)
<1>0. /\ content \in [Obj -> Storage] /\ skipped \in [Obj -> Nat]
      /\ lost \in [Obj -> SUBSET Member] /\ decoded \subseteq Obj
    BY DEF IInv, TypeOK
<1>1. ASSUME NEW x \in Obj, NEW c, Forget(x), content' = [content EXCEPT ![x] = c]
      PROVE  Kept
    BY <1>0, <1>1 DEF Forget
<1>2. ASSUME NEW x \in Obj, NEW m \in Member, NEW v \in Cell, Set(x, m, v)
      PROVE  Kept
    BY <1>0, <1>1, <1>2 DEF Set
<1>3. ASSUME NEW x \in Obj, Send(x) \/ SendFails(x)
      PROVE  Kept
    BY <1>3 DEF Send, SendFails
<1>4. ASSUME NEW x \in Obj, NEW q \in msg, Receive(x, q), x # o
      PROVE  Kept
    BY <1>0, <1>4 DEF Receive
<1>5. ASSUME NEW x \in Obj, NEW c, Spoil(x, c)
      PROVE  Kept
    BY <1>1, <1>5 DEF Spoil
<1>6. CASE UNCHANGED vars
    BY <1>6 DEF vars
<1>7. CASE \E x \in Obj, q \in msg : Receive(x, q)
    BY <1>4, <1>7
<1>8. CASE \E x \in Obj, q \in msg :
                \/ \E k \in Member, v \in Value : DecodeFailsIn(x, q, k, v)
                \/ \E k \in Member : DecodeFailsBefore(x, q, k)
                \/ DecodeFailsSkipping(x, q)
    BY <1>5, <1>8 DEF DecodeFailsIn, DecodeFailsBefore, DecodeFailsSkipping
<1> QED
    BY <1>2, <1>3, <1>6, <1>7, <1>8 DEF Next

\* A loss in the root or in an unknown addition is counted.
THEOREM LossesCounted == Spec => []LossIsCounted
<1>1. Init => LossIsCounted
    BY DEF Init, LossIsCounted
<1>2. IInv /\ LossIsCounted /\ [Next]_vars => LossIsCounted'
    <2> SUFFICES ASSUME IInv, LossIsCounted, [Next]_vars, NEW o \in decoded',
                        NEW m \in lost'[o] \cap (Root \cup (Ext \ Known(o)))
                 PROVE  skipped'[o] > 0
        BY DEF LossIsCounted, Known
    <2>1. CASE o \in Obj /\ \E q \in msg : Receive(o, q)
        <3>1. PICK q \in msg : Receive(o, q)
            BY <2>1
        <3> DEFINE p == q.packet
        <3>2. o \in Obj /\ TypeOK
            BY <2>1, <3>1 DEF Receive, IInv, TypeOK
        <3>3. /\ skipped'[o] = SkippedCount(o, p)
              /\ lost'[o] = Loses(o, q.meant)
            BY <3>1, <3>2 DEF Receive, TypeOK
        <3>4. m \in Member /\ Keeps(o, q.meant)[m] # q.meant[m]
            BY <3>3 DEF Loses
        <3>5. Carries(q, m) /\ ReadBy(o, DefaultOrAbsent(m)) = DefaultOrAbsent(m)
            BY <3>2, <3>4, ReadTyped DEF IInv, Carried
        <3>6. CASE m \in Root
            <4>1. Keeps(o, q.meant)[m] = ReadBy(o, q.meant[m])
                BY <3>4, <3>6 DEF Keeps, Known
            <4>2. p.wire[m] # Absent /\ q.meant[m] = p.wire[m]
                BY <4>1, <3>4, <3>5, <3>6 DEF Carries, OnWire
            <4>3. m \in SkippedInRoot(o, p)
                BY <4>1, <4>2, <3>4, <3>6 DEF SkippedInRoot
            <4> QED
                BY <4>3, <3>2, <3>3, CountTyped
        <3>7. CASE m \in Ext \ Known(o)
            <4>1. Keeps(o, q.meant)[m] = DefaultOrAbsent(m)
                BY <3>4, <3>7 DEF Keeps
            <4>2. OnWire(p, m) /\ m \notin Root
                BY <4>1, <3>4, <3>5, <3>7, MemberAssumption DEF Carries
            <4>3. UnitOf[m] \in p.bits /\ UnitOf[m] > Version[o]
                BY <4>2, <3>2, <3>7, MemberAssumption, ProgramAssumption
                DEF OnWire, Known
            <4>4. UnitOf[m] \in SkippedUnits(o, p)
                BY <4>3 DEF SkippedUnits
            <4> QED
                BY <4>4, <3>2, <3>3, CountTyped
        <3> QED
            BY <3>6, <3>7
    <2>2. CASE ~(o \in Obj /\ \E q \in msg : Receive(o, q))
        BY <2>2, DecodedStep DEF LossIsCounted
    <2> QED
        BY <2>1, <2>2
<1> QED
    BY <1>1, <1>2, Inductive, PTL DEF Spec

\* Only a newer program's message makes the count go up.
THEOREM SkipsMeanNewer == Spec => []SkipMeansNewer
<1>1. Init => SkipMeansNewer
    BY DEF Init, SkipMeansNewer
<1>2. IInv /\ SkipMeansNewer /\ [Next]_vars => SkipMeansNewer'
    <2> SUFFICES ASSUME IInv, SkipMeansNewer, [Next]_vars, NEW o \in decoded',
                        skipped'[o] > 0
                 PROVE  o \in newer'
        BY DEF SkipMeansNewer
    <2>1. CASE o \in Obj /\ \E q \in msg : Receive(o, q)
        <3>1. PICK q \in msg : Receive(o, q)
            BY <2>1
        <3> DEFINE p == q.packet
        <3>2. o \in Obj /\ TypeOK
            BY <2>1, <3>1 DEF Receive, IInv, TypeOK
        <3>3. SkippedUnits(o, p) # {} \/ SkippedInRoot(o, p) # {}
            <4>1. skipped'[o] = SkippedCount(o, p)
                BY <3>1, <3>2 DEF Receive, TypeOK
            <4> QED
                BY <4>1, <3>2, CountTyped
        <3>4. q.by \in Obj /\ Version[q.by] \in Nat /\ Version[o] \in Nat
            BY <3>2, ProgramAssumption DEF TypeOK, Message
        <3>5. CASE SkippedUnits(o, p) # {}
            <4>1. p.bits \subseteq 1..Version[q.by]
                BY DEF IInv, Carried
            <4> QED
                BY <4>1, <3>1, <3>4, <3>5 DEF SkippedUnits, NewerProgram, Receive
        <3>6. CASE SkippedInRoot(o, p) # {}
            <4>1. PICK m \in Root : ReadBy(o, p.wire[m]) # p.wire[m]
                BY <3>6 DEF SkippedInRoot
            <4>2. o \in OldInner /\ q.by \notin OldInner
                BY <4>1 DEF ReadBy, IInv, Carried, Carries
            <4> QED
                BY <4>2, <3>1 DEF NewerProgram, Receive
        <3> QED
            BY <3>3, <3>5, <3>6
    <2>2. CASE ~(o \in Obj /\ \E q \in msg : Receive(o, q))
        BY <2>2, DecodedStep DEF SkipMeansNewer
    <2> QED
        BY <2>1, <2>2
<1> QED
    BY <1>1, <1>2, Inductive, PTL DEF Spec

-----------------------------------------------------------------------------
\* No member of an addition group has a DEFAULT.
PlainGroups == \A m \in Ext \cap Default : UnitOf[m] \notin Group

\* Then what was decoded can be sent on.  With a DEFAULT in a group it cannot:
\* decode fills it in when the group is absent, and the group is then present
\* without its mandatory members.
THEOREM DecodedCanBeSent ==
    ASSUME PlainGroups PROVE Spec => []DecodedEncodes
<1>1. Init => DecodedEncodes
    BY DEF Init, DecodedEncodes
<1>2. IInv /\ DecodedEncodes /\ [Next]_vars => DecodedEncodes'
    <2> SUFFICES ASSUME IInv, DecodedEncodes, [Next]_vars, NEW o \in decoded'
                 PROVE  ~EncodeFails(o, content'[o])
        BY DEF DecodedEncodes, EncodeFails, PresentUnits, UnitPresent, Unit
    <2>1. CASE o \in Obj /\ \E q \in msg : Receive(o, q)
        <3>1. PICK q \in msg : Receive(o, q)
            BY <2>1
        <3> DEFINE p == q.packet
                   c == AfterDecode(o, p)
        <3>2. o \in Obj /\ content'[o] = c
            BY <2>1, <3>1 DEF Receive, IInv, TypeOK
        <3> SUFFICES ASSUME NEW u \in PresentUnits(o, c) \cap Group,
                            NEW m \in Unit(u) \ Optional,
                            c[m] = Absent
                     PROVE  FALSE
            BY <3>2 DEF EncodeFails
        <3>3. m \in Ext /\ UnitOf[m] = u /\ u \in 1..Version[o] /\ u \in Group
            BY DEF Unit, PresentUnits
        <3>4. PICK k \in Ext : UnitOf[k] = u /\ c[k] # Absent
            BY DEF PresentUnits, UnitPresent, Unit
        <3>5. \A x \in Ext : UnitOf[x] = u => c[x] = DecodeAddition(o, p, x)
            BY <3>2, <3>3, MemberAssumption, ProgramAssumption
            DEF AfterDecode, Known
        <3>6. DefaultOrAbsent(k) = Absent
            BY <3>3, <3>4 DEF PlainGroups, DefaultOrAbsent
        <3>7. p.ext /\ ~(u > p.n) /\ u \in p.bits
            BY <3>4, <3>5, <3>6 DEF DecodeAddition
        <3>8. OnWire(p, m) /\ p.wire[m] # Absent
            <4>1. OnWire(p, m)
                BY <3>3, <3>7, MemberAssumption
                DEF OnWire, IInv, TypeOK, Message, Packet
            <4> QED
                BY <4>1, <3>3 DEF IInv, Carried, Carries
        <3>9. c[m] = ReadBy(o, p.wire[m]) /\ p.wire[m] \in Vals[m] \cup {Absent}
            BY <3>3, <3>5, <3>7 DEF DecodeAddition, IInv, Carried, Carries
        <3> QED
            BY <3>2, <3>3, <3>8, <3>9, ReadTyped
    <2>2. CASE ~(o \in Obj /\ \E q \in msg : Receive(o, q))
        BY <2>2, DecodedStep DEF DecodedEncodes
    <2> QED
        BY <2>1, <2>2
<1> QED
    BY <1>1, <1>2, Inductive, PTL DEF Spec
=============================================================================
