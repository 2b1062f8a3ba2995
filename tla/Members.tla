-------------------------------- MODULE Members ------------------------------
(***************************************************************************)
(* A SEQUENCE or SET object that a program decodes into again and again,   *)
(* edits, copies and sends on, under any of the encoding rules: the        *)
(* SEQUENCE and SEQUENCE OF handlers of BerCodec.cpp, PerCodec.cpp (the    *)
(* extension root; the additions are in PerExtensions), XerCodec.cpp and   *)
(* JerCodec.cpp, and deep_copy.                                            *)
(*                                                                         *)
(* The four decoders differ in how they find a member (by position, by     *)
(* tag, by name, in any order), in what they do to a member that is not    *)
(* in the message, and in how a list is refilled; what an object means     *)
(* after a decode must depend on none of that, nor on what it held before. *)
(* Messages come from this program's encoder or from another's: items in   *)
(* an order the rules leave open, additions this table does not have,      *)
(* `null` for an absent member, a DEFAULT value spelled out; or damaged.   *)
(*                                                                         *)
(* A member is its index in the table.  A message is the sequence of the   *)
(* items on the wire, an item the member it belongs to and its value.      *)
(***************************************************************************)
EXTENDS Naturals, Sequences, FiniteSets, SequencesExt

CONSTANTS
    N,          \* members 1..N of the table
    IsSet,      \* TRUE: a SET
    Optional,   \* members declared OPTIONAL or DEFAULT
    Dflt,       \* DEFAULT values: a function on the members with a generated
                \* setter and comparison (the others are as OPTIONAL)
    Nullable,   \* members whose own JER value may be null (NULL, open types)
    List,       \* members that are a SEQUENCE OF or SET OF
    SetOf,      \* those of them that are a SET OF
    Scalar,     \* [Member \ List -> SUBSET Value]
    Elem,       \* elements of the lists: naturals, in the order of their encodings
    Lists,      \* bound: the lists a program builds
    MaxEdits,   \* bound: how far a message may be from what this encoder writes
    Blank,      \* [Member -> Value]: a default-constructed value of its type
    NewElem,    \* a default-constructed element
    Absent,     \* a null unique_ptr
    Null,       \* the JER token null
    Broken,     \* a value (or element) that does not decode
    Foreign,    \* an addition no member of this table matches
    Rules,      \* subset of {"ber", "per", "xer", "jer"}
    Reuse       \* rules whose decoder is given objects that are in use

Member == 1..N
Default == DOMAIN Dflt
Vals(m) == IF m \in List THEN Seq(Elem) ELSE Scalar[m]
Built(m) == IF m \in List THEN Lists ELSE Scalar[m]

ASSUME TableAssumption ==
    /\ N \in Nat /\ Optional \subseteq Member /\ Nullable \subseteq Member \ List
    /\ List \subseteq Member /\ SetOf \subseteq List
    /\ Elem \subseteq Nat /\ NewElem \in Elem
    /\ Lists \subseteq Seq(Elem) /\ MaxEdits \in Nat
    /\ Default \subseteq Optional
    /\ \A m \in Default : Dflt[m] \in Vals(m)
    /\ \A m \in Member : Blank[m] \in Vals(m) /\ (m \in List => Blank[m] = <<>>)
    /\ Rules \subseteq {"ber", "per", "xer", "jer"} /\ Reuse \subseteq Rules

\* The tokens are told apart from values; null is a value of a Nullable only.
ASSUME TokenAssumption ==
    /\ Foreign \notin Member /\ Null # Broken
    /\ \A m \in Member \ List :
        /\ Absent \notin Scalar[m] /\ Broken \notin Scalar[m]
        /\ m \notin Nullable => Null \notin Scalar[m]
    /\ Broken \notin Elem
    /\ \A t \in {Absent, Null, Broken} : t \notin Seq(Elem \cup {Broken})

VARIABLES
    content,    \* [Member -> value or Absent]: the generated struct
    held,       \* where it came from: "new", "built" or "decoded"
    vouched,    \* the last decode into it did not fail
    told,       \* [Member -> value or Absent]: what its members should mean
    msg,        \* {} or one element of Message
    verdict     \* outcome of the last decode, and whether it had to succeed

vars == <<content, held, vouched, told, msg, verdict>>

-----------------------------------------------------------------------------
\* set_default when the table has one: what absence means.
DefaultOrAbsent(m) == IF m \in Default THEN Dflt[m] ELSE Absent

Meaning(c) == [m \in Member |-> IF c[m] = Absent THEN DefaultOrAbsent(m) ELSE c[m]]

\* The place of i when indices go by rank, those of equal rank as they were.
Place(rank, i) ==
    Cardinality({j \in DOMAIN rank : rank[j] < rank[i] \/ (rank[j] = rank[i] /\ j <= i)})

\* s in the order of rank.
Arranged(s, rank) == [k \in DOMAIN s |-> s[CHOOSE i \in DOMAIN s : Place(rank, i) = k]]

\* SET OF values are the same in any order.
Bag(v) == Arranged(v, v)
Same(m, v, w) ==
    v = w \/ (m \in SetOf /\ Absent \notin {v, w} /\ Bag(v) = Bag(w))
Alike(c, d) == \A m \in Member : Same(m, c[m], d[m])

Fresh == [m \in Member |-> IF m \in Optional THEN Absent ELSE Blank[m]]

\* A value a program can build.
Storage == {c \in [Member -> UNION {Built(m) : m \in Member} \cup {Absent}] :
                \A m \in Member : c[m] \in Built(m) \/ (m \in Optional /\ c[m] = Absent)}

-----------------------------------------------------------------------------
\* The encoders.  BER and PER leave a member out that equals its DEFAULT and
\* write a SET OF in the order of its elements' encodings.
LeftOut(r, c, m) ==
    \/ c[m] = Absent
    \/ r \in {"ber", "per"} /\ m \in Default /\ c[m] = Dflt[m]

ListOnWire(r, m, v) == IF r \in {"ber", "per"} /\ m \in SetOf THEN Bag(v) ELSE v

OnWire(r, m, v) == IF m \in List THEN ListOnWire(r, m, v) ELSE v

\* From member to member along the table.
EncodeMember(r, c, items, m) ==
    IF LeftOut(r, c, m) THEN items ELSE Append(items, [id |-> m, val |-> OnWire(r, m, c[m])])

Encode(r, c) ==
    LET code[m \in 0..N] == IF m = 0 THEN <<>> ELSE EncodeMember(r, c, code[m - 1], m)
    IN  code[N]

-----------------------------------------------------------------------------
\* A list that is refilled: [ok, val].  The first broken element stops it.
Bad(v) == CHOOSE i \in 1..Len(v) : v[i] = Broken /\ \A j \in 1..(i - 1) : v[j] # Broken
HasBad(v) == \E i \in 1..Len(v) : v[i] = Broken

\* Mutant: a shorter list leaves the tail of the longer one it replaces.
KeepsTail(old, v) ==
    IF HasBad(v)
    THEN [ok |-> FALSE, val |-> SubSeq(v, 1, Bad(v) - 1) \o
              (IF Bad(v) <= Len(old) THEN SubSeq(old, Bad(v), Len(old)) ELSE <<NewElem>>)]
    ELSE [ok |-> TRUE, val |-> v \o SubSeq(old, Len(v) + 1, Len(old))]

\* BER: elements decoded in place, new ones appended, the rest cut off at the end.
BerRefill(old, v) ==
    IF HasBad(v)
    THEN [ok |-> FALSE, val |-> SubSeq(v, 1, Bad(v) - 1) \o
              (IF Bad(v) <= Len(old) THEN SubSeq(old, Bad(v), Len(old)) ELSE <<NewElem>>)]
    ELSE [ok |-> TRUE, val |-> v]

\* PER: emptied, then sized to the fragment at once.
PerRefill(v) ==
    IF HasBad(v)
    THEN [ok |-> FALSE,
          val |-> SubSeq(v, 1, Bad(v) - 1) \o [i \in 1..(Len(v) - Bad(v) + 1) |-> NewElem]]
    ELSE [ok |-> TRUE, val |-> v]

\* XER: resize(1), resize(2), ...: an empty list resizes nothing.
XerRefill(old, v) ==
    IF v = <<>> THEN [ok |-> TRUE, val |-> old]
    ELSE IF HasBad(v)
    THEN [ok |-> FALSE, val |-> SubSeq(v, 1, Bad(v) - 1) \o
              (IF Bad(v) = 1 /\ old # <<>> THEN <<old[1]>> ELSE <<NewElem>>)]
    ELSE [ok |-> TRUE, val |-> v]

\* JER: emptied, then one element at a time.
JerRefill(v) ==
    IF HasBad(v)
    THEN [ok |-> FALSE, val |-> SubSeq(v, 1, Bad(v) - 1) \o <<NewElem>>]
    ELSE [ok |-> TRUE, val |-> v]

Refill(r, old, v) ==
    CASE r = "ber" -> BerRefill(old, v)
      [] r = "per" -> PerRefill(v)
      [] r = "xer" -> XerRefill(old, v)
      [] r = "jer" -> JerRefill(v)

\* set_present(true): an object that is there stays, else a new one.
Allocated(m, old) == IF old # Absent THEN old ELSE Blank[m]

\* A member's value decoded over what the member holds: [ok, val].
DecodeValue(r, m, old, v) ==
    IF v = Broken \/ (v = Null /\ m \notin Nullable)
    THEN [ok |-> FALSE, val |-> Allocated(m, old)]
    ELSE IF m \in List THEN Refill(r, Allocated(m, old), v)
    ELSE [ok |-> TRUE, val |-> v]

-----------------------------------------------------------------------------
\* set_in_table_order: a SET's TLVs into the order of the table; those no
\* member matches, or one that has its TLV already, last.
Slots(items) ==
    [i \in DOMAIN items |->
        IF items[i].id \in Member /\ \A j \in 1..(i - 1) : items[j].id # items[i].id
        THEN items[i].id ELSE N + 1]

InTableOrder(items) == Arranged(items, Slots(items))

Read(r, items) == IF r = "ber" /\ IsSet THEN InTableOrder(items) ELSE items

\* An absent member: BER and PER fill in its DEFAULT.
AbsentIn(r, m) == IF r \in {"ber", "per"} THEN DefaultOrAbsent(m) ELSE Absent

\* One member of the walk along the table (BER, PER, XER): the next item is
\* this member's, or the member is not in the message.
WalkMember(r, items, s, m) ==
    LET here == s.at <= Len(items) /\ items[s.at].id = m
        d    == DecodeValue(r, m, s.c[m], items[s.at].val)
    IN  IF ~s.ok THEN s
        ELSE IF here THEN [ok |-> d.ok, at |-> s.at + 1, c |-> [s.c EXCEPT ![m] = d.val]]
        ELSE IF m \in Optional THEN [s EXCEPT !.c[m] = AbsentIn(r, m)]
        ELSE [s EXCEPT !.ok = FALSE]

Walk(r, c, items) ==
    LET walk[m \in 0..N] ==
            IF m = 0 THEN [ok |-> TRUE, at |-> 1, c |-> c]
            ELSE WalkMember(r, items, walk[m - 1], m)
    IN  walk[N]

\* BER ignores what follows the last member; XER needs the closing tag there.
WalkTable(r, c, items) ==
    LET s == Walk(r, c, Read(r, items))
    IN  [ok |-> s.ok /\ (r = "xer" => s.at > Len(items)), c |-> s.c]

-----------------------------------------------------------------------------
\* JER: one key of the object.
JerKey(s, item) ==
    LET m == item.id
        d == DecodeValue("jer", m, s.c[m], item.val)
    IN  IF ~s.ok \/ m = Foreign THEN s
        ELSE IF m \in Optional /\ item.val = Null /\ m \notin Nullable
        THEN [s EXCEPT !.c[m] = Absent, !.seen = @ \ {m}]
        ELSE [ok |-> d.ok, c |-> [s.c EXCEPT ![m] = d.val],
              seen |-> IF d.ok THEN s.seen \cup {m} ELSE s.seen]

JerCleared(c) == [m \in Member |-> IF m \in Optional THEN Absent ELSE c[m]]

JerWalk(c, items) ==
    LET walk[i \in 0..Len(items)] ==
            IF i = 0 THEN [ok |-> TRUE, c |-> JerCleared(c), seen |-> {}]
            ELSE JerKey(walk[i - 1], items[i])
    IN  walk[Len(items)]

\* Mutant: no check that the mandatory members were there.
JerUnchecked(c, items) ==
    LET s == JerWalk(c, items) IN [ok |-> s.ok, c |-> s.c]

DecodeObject(c, items) ==
    LET s == JerWalk(c, items)
    IN  [ok |-> s.ok /\ Member \ Optional \subseteq s.seen, c |-> s.c]

Decode(r, c, items) ==
    IF r = "jer" THEN DecodeObject(c, items) ELSE WalkTable(r, c, items)

-----------------------------------------------------------------------------
\* deep_copy over the object: optional members cleared or made, lists resized.
CopyMember(old, new, m) ==
    IF m \in Optional /\ new[m] = Absent THEN Absent ELSE new[m]

DeepCopy(old, new) == [m \in Member |-> CopyMember(old, new, m)]

NoVerdict == [ok |-> TRUE, sound |-> TRUE]

Init ==
    /\ content = Fresh /\ held = "new" /\ vouched = TRUE
    /\ told = Meaning(Fresh)
    /\ msg = {}
    /\ verdict = NoVerdict

\* The application assigns an object it built.
Assign(c) ==
    /\ content' = DeepCopy(content, c)
    /\ told' = Meaning(c)
    /\ held' = "built" /\ vouched' = TRUE
    /\ verdict' = NoVerdict
    /\ UNCHANGED msg

Renew ==
    /\ content' = Fresh /\ held' = "new" /\ vouched' = TRUE
    /\ told' = Meaning(Fresh)
    /\ verdict' = NoVerdict
    /\ UNCHANGED msg

Send(r) ==
    /\ vouched
    /\ msg' = {[rule |-> r, items |-> Encode(r, content), meant |-> told,
               sound |-> TRUE, edits |-> 0]}
    /\ UNCHANGED <<content, held, vouched, told, verdict>>

Replace(q, items, meant, sound) ==
    /\ q.edits < MaxEdits
    /\ msg' = {[q EXCEPT !.items = items, !.meant = meant, !.sound = sound, !.edits = @ + 1]}
    /\ UNCHANGED <<content, held, vouched, told, verdict>>

\* Another encoder of the same value: BER SET and JER items in any order.
Swap(q, i) ==
    /\ q.rule = "jer" \/ (q.rule = "ber" /\ IsSet)
    /\ i \in 1..(Len(q.items) - 1)
    /\ Replace(q, [q.items EXCEPT ![i] = q.items[i + 1], ![i + 1] = q.items[i]], q.meant, q.sound)

\* An addition of a newer version (one is enough).
Add(q, i) ==
    /\ \A k \in 1..Len(q.items) : q.items[k].id # Foreign
    /\ \/ q.rule = "jer" /\ i \in 1..(Len(q.items) + 1)
       \/ q.rule = "ber" /\ (IF IsSet THEN i \in 1..(Len(q.items) + 1) ELSE i = Len(q.items) + 1)
    /\ Replace(q, InsertAt(q.items, i, [id |-> Foreign, val |-> Broken]), q.meant, q.sound)

\* JER: an absent member sent as null.
SpellNull(q, m) ==
    /\ q.rule = "jer" /\ m \in Optional \ Nullable
    /\ \A k \in 1..Len(q.items) : q.items[k].id # m
    /\ Replace(q, Append(q.items, [id |-> m, val |-> Null]), q.meant, q.sound)

\* A DEFAULT value that is sent all the same, where the table has the member.
SpellDefault(q, m) ==
    /\ q.rule # "per" /\ m \in Default
    /\ \A k \in 1..Len(q.items) : q.items[k].id # m /\ q.items[k].id # Foreign
    /\ \E i \in 1..(Len(q.items) + 1) :
        /\ \A k \in 1..Len(q.items) : (k < i) <=> (q.items[k].id < m)
        /\ Replace(q, InsertAt(q.items, i, [id |-> m, val |-> OnWire(q.rule, m, Dflt[m])]),
                   q.meant, q.sound)

\* An encoder that leaves a member out: an optional one is then absent.
Drop(q, i) ==
    /\ q.rule # "per" /\ q.sound /\ i \in 1..Len(q.items)
    /\ LET m == q.items[i].id
       IN  /\ m # Foreign
           /\ Replace(q, RemoveAt(q.items, i), [q.meant EXCEPT ![m] = DefaultOrAbsent(m)],
                      m \in Optional)

\* A value, or an element of a list, that does not decode.
Damage(q, i) ==
    /\ q.sound /\ i \in 1..Len(q.items) /\ q.items[i].id # Foreign
    /\ q.items[i].val # Null
    /\ \/ Replace(q, [q.items EXCEPT ![i].val = Broken], q.meant, FALSE)
       \/ /\ q.items[i].id \in List
          /\ \E k \in DOMAIN q.items[i].val :
                Replace(q, [q.items EXCEPT ![i].val[k] = Broken], q.meant, FALSE)

Receive(q) ==
    /\ q.rule \in Reuse \/ held = "new"
    /\ LET d == Decode(q.rule, content, q.items)
       IN  /\ content' = d.c
           /\ vouched' = d.ok
           /\ told' = IF d.ok THEN q.meant ELSE [m \in Member |-> Absent]
           /\ verdict' = [ok |-> d.ok, sound |-> q.sound]
    /\ held' = "decoded"
    /\ UNCHANGED msg

Next ==
    \/ \E c \in Storage : Assign(c)
    \/ Renew
    \/ \E r \in Rules : Send(r)
    \/ \E q \in msg :
        \/ \E i \in 1..(N + 2) : Swap(q, i) \/ Add(q, i) \/ Drop(q, i) \/ Damage(q, i)
        \/ \E m \in Member : SpellNull(q, m) \/ SpellDefault(q, m)
        \/ Receive(q)

Spec == Init /\ [][Next]_vars

-----------------------------------------------------------------------------
\* After a decode, under whatever rules and over whatever the object held, its
\* members mean what the sender's meant: a value, or the DEFAULT of an absent
\* member; no member and no list element of an earlier message survives
\* (the set_present, set_default and resize calls of the four decoders).
MeansWhatWasSent == vouched => Alike(Meaning(content), told)

\* A decoder accepts exactly the messages that are sound.  None is refused
\* that an encoder of its rules may write: SET components and JSON keys in any
\* order, additions past the table, null for an absent member, a DEFAULT value
\* sent all the same.  None is accepted that lacks a mandatory member or has a
\* value that does not decode: no member of an object vouched for is left over
\* from construction or from an earlier message.  That a SET may come in any
\* order is set_in_table_order's promise and X.690's; one line of the book
\* still denies it (README, section 5).
AcceptsTheSound == verdict.ok = verdict.sound

=============================================================================
