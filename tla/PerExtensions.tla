---------------------------- MODULE PerExtensions ---------------------------
(***************************************************************************)
(* Extensible SEQUENCEs in PER between programs compiled from different    *)
(* versions of one schema (SequencePerHandler in runtime/src/PerCodec.cpp).*)
(*                                                                         *)
(* Every object is decoded into again and again without being cleared      *)
(* first, receives messages of older and of newer programs, is edited and  *)
(* sent on.  So decode_members has to write every member it knows on every *)
(* one of its paths: root member absent, no extension bit, addition not in *)
(* the sender's bitmap, addition beyond the sender's bitmap, member absent *)
(* inside a group.  What a member means (its value, or its DEFAULT when it *)
(* is absent) is followed from the application that set it, through any    *)
(* number of hops, to the object it arrives in.                            *)
(*                                                                         *)
(* A member is its index in the table of the newest version, the root      *)
(* first; an older version's table is a prefix.  The wire is abstracted to *)
(* the extension bit, the count and the bits of the extension bitmap, and  *)
(* what is sent for each member: encoder and decoder walk the same table   *)
(* in the same order, so positions need not be spelled out.                *)
(***************************************************************************)
EXTENDS Naturals, FiniteSets

CONSTANTS
    Obj,        \* the objects, each in a program of its own
    Root,       \* members of the extension root
    Ext,        \* members of the extension additions
    UnitOf,     \* [Ext -> unit]: the addition a member belongs to (ExtUnits)
    Group,      \* the units that are "[[ ... ]]" groups
    Optional,   \* root and group members declared OPTIONAL or DEFAULT
    Dflt,       \* DEFAULT values: a function on the members that have one (and
                \* a generated setter for it; the others are as OPTIONAL)
    Vals,       \* [Member -> SUBSET Value]: the values of a member's type
    Value,      \* all values
    Absent,     \* a null unique_ptr; nothing on the wire
    Blank,      \* [Root \ Optional -> Value]: what T{} holds
    Version,    \* [Obj -> Nat]: how many units the object's program knows
    OldInner,   \* objects whose program has older types for the members
    Bare        \* [Value -> Value]: what an older type keeps of a value,
                \* having skipped the additions inside it

Member == Root \cup Ext
Default == DOMAIN Dflt
Unit(u) == {m \in Ext : UnitOf[m] = u}
Known(o) == Root \cup {m \in Ext : UnitOf[m] <= Version[o]}

ASSUME MemberAssumption ==
    /\ Root \subseteq Nat /\ Ext \subseteq Nat /\ Root \cap Ext = {}
    /\ IsFiniteSet(Root) /\ IsFiniteSet(Ext)
    /\ \A r \in Root, e \in Ext : r < e
    /\ UnitOf \in [Ext -> Nat \ {0}]
    /\ \A m, k \in Ext : m < k => UnitOf[m] <= UnitOf[k]
    /\ Group \subseteq Nat /\ Optional \subseteq Member
    /\ \A m, k \in Ext : UnitOf[m] = UnitOf[k] /\ UnitOf[m] \notin Group => m = k

ASSUME ValueAssumption ==
    /\ Absent \notin Value
    /\ Vals \in [Member -> SUBSET Value]
    /\ Default \subseteq Member /\ Default \cap Root \subseteq Optional
    /\ \A m \in Default : Dflt[m] \in Vals[m] /\ Bare[Dflt[m]] = Dflt[m]
    /\ Blank \in [Root \ Optional -> Value]
    /\ \A m \in Root \ Optional : Blank[m] \in Vals[m] /\ Bare[Blank[m]] = Blank[m]
    /\ Bare \in [Value -> Value]
    /\ \A m \in Member : \A v \in Vals[m] : Bare[v] \in Vals[m]
    /\ \A v \in Value : Bare[Bare[v]] = Bare[v]

ASSUME ProgramAssumption == Version \in [Obj -> Nat] /\ OldInner \subseteq Obj

VARIABLES
    content,    \* [Obj -> Storage]: the members of the generated struct
    msg,        \* the message in the channel: {} or one element of Message
    skipped,    \* [Obj -> Nat]: skipped_extensions() of the last decode, while kept
    told,       \* [Obj -> meanings]: what the object's members should mean
    vouched,    \* SUBSET Obj: the last decode into them did not fail
    decoded,    \* SUBSET Obj: they are as a successful decode left them
    lost,       \* [Obj -> SUBSET Member]: members whose meaning, all or part
                \* of it, the last decode could not keep
    newer       \* SUBSET Obj: the last decode was of a newer program's message

vars == <<content, msg, skipped, told, vouched, decoded, lost, newer>>

Cell == Value \cup {Absent}
Storage == [Member -> Cell]
Packet == [ext : BOOLEAN, n : Nat, bits : SUBSET Nat, wire : Storage]
Message == [packet : Packet, meant : Storage, by : Obj]

-----------------------------------------------------------------------------
\* set_default when the member has one, else nothing: what absence means.
DefaultOrAbsent(m) == IF m \in Default THEN Dflt[m] ELSE Absent

Meaning(c, m) == IF c[m] = Absent THEN DefaultOrAbsent(m) ELSE c[m]

\* A value read with the tables of o's program: a nested SEQUENCE of an older
\* version leaves out the additions it skipped.
ReadBy(o, v) == IF v # Absent /\ o \in OldInner THEN Bare[v] ELSE v

\* A default-constructed object.
Fresh == [m \in Member |-> IF m \in Root \ Optional THEN Blank[m] ELSE Absent]

-----------------------------------------------------------------------------
\* ExtUnits::present: any member of the addition is there.
UnitPresent(c, u) == \E m \in Unit(u) : c[m] # Absent

PresentUnits(o, c) == {u \in 1..Version[o] : UnitPresent(c, u)}

\* A root member equal to its DEFAULT is left out; an addition never is.
RootWire(c, m) == IF m \in Default /\ c[m] = Dflt[m] THEN Absent ELSE c[m]

Encode(o, c) ==
    LET units == PresentUnits(o, c)
    IN  [ext |-> units # {},
         n |-> IF units = {} THEN 0 ELSE Version[o],
         bits |-> units,
         wire |-> [m \in Member |->
            IF m \in Root THEN RootWire(c, m)
            ELSE IF m \in Known(o) THEN c[m] ELSE Absent]]

\* "extension group member absent": a present group lacks a mandatory member.
EncodeFails(o, c) ==
    \E u \in PresentUnits(o, c) \cap Group :
        \E m \in Unit(u) \ Optional : c[m] = Absent

-----------------------------------------------------------------------------
DecodeRoot(o, p, m) ==
    IF m \in Optional /\ p.wire[m] = Absent
    THEN DefaultOrAbsent(m)
    ELSE ReadBy(o, p.wire[m])

\* Mutant: the last loop over the additions past the bitmap is missing.
KeepsPastBitmap(o, p, m) ==
    LET u == UnitOf[m]
    IN  IF ~p.ext THEN Absent
        ELSE IF u > p.n THEN content[o][m]
        ELSE IF u \notin p.bits THEN DefaultOrAbsent(m)
        ELSE IF u \in Group /\ m \in Optional /\ p.wire[m] = Absent
             THEN DefaultOrAbsent(m)
             ELSE ReadBy(o, p.wire[m])

\* Mutant: of an addition that is not sent only the first member is cleared.
ClearsFirstOfUnit(o, p, m) ==
    LET u == UnitOf[m]
    IN  IF ~p.ext \/ u > p.n THEN Absent
        ELSE IF u \notin p.bits
             THEN IF \E k \in Unit(u) : k < m THEN content[o][m] ELSE DefaultOrAbsent(m)
        ELSE IF u \in Group /\ m \in Optional /\ p.wire[m] = Absent
             THEN DefaultOrAbsent(m)
             ELSE ReadBy(o, p.wire[m])

\* Without the extension bit, and past the sender's bitmap, an addition is
\* only made absent; inside the bitmap its DEFAULT is filled in.
DecodeAddition(o, p, m) ==
    LET u == UnitOf[m]
    IN  IF ~p.ext \/ u > p.n THEN Absent
        ELSE IF u \notin p.bits THEN DefaultOrAbsent(m)
        ELSE IF u \in Group /\ m \in Optional /\ p.wire[m] = Absent
             THEN DefaultOrAbsent(m)
             ELSE ReadBy(o, p.wire[m])

AfterDecode(o, p) ==
    [m \in Member |->
        IF m \in Root THEN DecodeRoot(o, p, m)
        ELSE IF m \in Known(o) THEN DecodeAddition(o, p, m) ELSE Absent]

\* Mutant: the bound is one too high.
SkipsFromNext(o, p) == {u \in p.bits : u > Version[o] + 1}

\* Additions beyond the table: skip_ext, one count each.
SkippedUnits(o, p) == {u \in p.bits : u > Version[o]}

\* Root members whose own decode skipped something: same stream, same count.
\* The stream of an open type (PerDecodeStream::sub) keeps its count to itself.
SkippedInRoot(o, p) == {m \in Root : ReadBy(o, p.wire[m]) # p.wire[m]}

SkippedCount(o, p) ==
    Cardinality(SkippedUnits(o, p)) + Cardinality(SkippedInRoot(o, p))

\* Where decode_members can give up without touching the member it is at:
\* before the root's bits, before the count and the bitmap, before or in the
\* octets and bits of a present group.
GivesUpBefore(o, p, k) ==
    /\ k \in Known(o)
    /\ \/ k \in Root /\ \A m \in Root : k <= m
       \/ p.ext /\ k \in Ext /\ \A m \in Ext : k <= m
       \/ p.ext /\ k \in Ext /\ UnitOf[k] \in p.bits \cap Group
            /\ \A m \in Unit(UnitOf[k]) : k <= m

\* The members before k decoded, k and the rest as before.
Partly(o, p, k) ==
    [m \in Member |-> IF m < k THEN AfterDecode(o, p)[m] ELSE content[o][m]]

-----------------------------------------------------------------------------
Init ==
    /\ content = [o \in Obj |-> Fresh]
    /\ msg = {}
    /\ skipped = [o \in Obj |-> 0]
    /\ told = [o \in Obj |-> [m \in Member |-> Meaning(Fresh, m)]]
    /\ vouched = Obj
    /\ decoded = {}
    /\ lost = [o \in Obj |-> {}]
    /\ newer = {}

\* The stream of o's last decode and its count are gone.
Forget(o) ==
    /\ decoded' = decoded \ {o}
    /\ skipped' = [skipped EXCEPT ![o] = 0]
    /\ lost' = [lost EXCEPT ![o] = {}]
    /\ newer' = newer \ {o}

\* The application assigns a member, or takes an optional one away.
Set(o, m, v) ==
    /\ o \in vouched /\ m \in Known(o)
    /\ IF v = Absent THEN m \notin Root \ Optional
                     ELSE v \in Vals[m] /\ ReadBy(o, v) = v
    /\ content' = [content EXCEPT ![o] = [@ EXCEPT ![m] = v]]
    /\ told' = [told EXCEPT ![o] = [@ EXCEPT ![m] =
                    IF v = Absent THEN DefaultOrAbsent(m) ELSE v]]
    /\ Forget(o)
    /\ UNCHANGED <<msg, vouched>>

Send(o) ==
    /\ o \in vouched /\ ~EncodeFails(o, content[o])
    /\ msg' = {[packet |-> Encode(o, content[o]), meant |-> told[o], by |-> o]}
    /\ UNCHANGED <<content, skipped, told, vouched, decoded, lost, newer>>

\* set_encode_failed: the application drops the buffer.
SendFails(o) ==
    /\ o \in vouched /\ EncodeFails(o, content[o])
    /\ msg' = {}
    /\ UNCHANGED <<content, skipped, told, vouched, decoded, lost, newer>>

\* What o can keep of a meaning: members it knows, as its own types read them.
Keeps(o, meant) ==
    [m \in Member |->
        IF m \in Known(o) THEN ReadBy(o, meant[m]) ELSE DefaultOrAbsent(m)]

Loses(o, meant) == {m \in Member : Keeps(o, meant)[m] # meant[m]}

NewerProgram(o, s) == Version[s] > Version[o] \/ (o \in OldInner /\ s \notin OldInner)

\* The message stays in the channel: it may be read again, and by others.
Receive(o, q) ==
    /\ q \in msg
    /\ content' = [content EXCEPT ![o] = AfterDecode(o, q.packet)]
    /\ skipped' = [skipped EXCEPT ![o] = SkippedCount(o, q.packet)]
    /\ told' = [told EXCEPT ![o] = Keeps(o, q.meant)]
    /\ vouched' = vouched \cup {o}
    /\ decoded' = decoded \cup {o}
    /\ lost' = [lost EXCEPT ![o] = Loses(o, q.meant)]
    /\ newer' = IF NewerProgram(o, q.by) THEN newer \cup {o} ELSE newer \ {o}
    /\ UNCHANGED msg

\* A truncated or damaged copy: the caller sees the error and drops the
\* stream; the object keeps what was decoded so far.
Spoil(o, c) ==
    /\ content' = [content EXCEPT ![o] = c]
    /\ told' = [told EXCEPT ![o] = [m \in Member |-> DefaultOrAbsent(m)]]
    /\ vouched' = vouched \ {o}
    /\ Forget(o)
    /\ UNCHANGED msg

\* Member k's own contents do not decode; k is present, with some value.
DecodeFailsIn(o, q, k, v) ==
    /\ q \in msg /\ k \in Known(o) /\ v \in Vals[k] /\ ReadBy(o, v) = v
    /\ q.packet.wire[k] # Absent
    /\ Spoil(o, [Partly(o, q.packet, k) EXCEPT ![k] = v])

DecodeFailsBefore(o, q, k) ==
    /\ q \in msg /\ GivesUpBefore(o, q.packet, k)
    /\ Spoil(o, Partly(o, q.packet, k))

\* All known members are decoded, skip_ext fails.
DecodeFailsSkipping(o, q) ==
    /\ q \in msg /\ SkippedUnits(o, q.packet) # {}
    /\ Spoil(o, AfterDecode(o, q.packet))

Next ==
    \/ \E o \in Obj :
        \/ \E m \in Member, v \in Cell : Set(o, m, v)
        \/ Send(o)
        \/ SendFails(o)
    \/ \E o \in Obj, q \in msg :
        \/ Receive(o, q)
        \/ \E k \in Member, v \in Value : DecodeFailsIn(o, q, k, v)
        \/ \E k \in Member : DecodeFailsBefore(o, q, k)
        \/ DecodeFailsSkipping(o, q)

Spec == Init /\ [][Next]_vars

-----------------------------------------------------------------------------
\* A struct has the members of its version, each with a value of its type;
\* the message is one an encoder wrote.
TypeOK ==
    /\ content \in [Obj -> Storage]
    /\ msg \subseteq Message
    /\ skipped \in [Obj -> Nat]
    /\ told \in [Obj -> Storage]
    /\ vouched \subseteq Obj /\ decoded \subseteq vouched /\ newer \subseteq Obj
    /\ lost \in [Obj -> SUBSET Member]
    /\ \A o \in Obj, m \in Member :
        /\ content[o][m] \in Vals[m] \cup {Absent}
        /\ m \notin Known(o) => content[o][m] = Absent
        /\ m \in Root \ Optional => content[o][m] # Absent

\* Whatever an object held before, after a decode every member it knows means
\* what the application that set it meant, over any number of hops through
\* programs that know the member, and an addition the sender does not know is
\* absent: nothing of an earlier message survives (decode_members' loops over
\* the additions that are not on the wire).
Meanings ==
    \A o \in vouched : \A m \in Known(o) : Meaning(content[o], m) = told[o][m]

\* What was decoded can be sent on: no decode leaves a struct the encoder
\* rejects, in particular no group with a member and without a mandatory one
\* ("X.680 24.12: a present group carries all its mandatory members").
DecodedEncodes == \A o \in decoded : ~EncodeFails(o, content[o])

\* skipped_extensions() is how a program learns that it forwards less than it
\* received: when an addition it does not know, or a part of a root member,
\* had a meaning that is gone, the count is not zero.
LossIsCounted ==
    \A o \in decoded :
        lost[o] \cap (Root \cup (Ext \ Known(o))) # {} => skipped[o] > 0

\* "A nonzero value indicates the stream contained a newer schema version than
\* the decoder's descriptor tables" (book.md): never for a peer's or an older
\* program's message.
SkipMeansNewer == \A o \in decoded : skipped[o] > 0 => o \in newer

=============================================================================
