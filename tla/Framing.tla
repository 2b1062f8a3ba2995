------------------------------ MODULE Framing ------------------------------
(***************************************************************************)
(* One BER record from writer to reader.  The writer (BerWriter.hpp under  *)
(* the handlers of BerCodec.cpp) opens constructed elements, fills them,   *)
(* and only on closing one knows its length; IMPLICIT tags replace an      *)
(* identifier that is already followed by its contents.  A peer's encoder  *)
(* may also use indefinite and longer lengths than needed.  On the way the *)
(* record may be cut off, damaged by BerCorruptor.hpp, or patched in place *)
(* through a BerMutableCursor.  The reader (BerReader.hpp, DecodeDepth.hpp *)
(* under the same handlers) takes it apart element by element.             *)
(*                                                                         *)
(* The record's type: Node ::= SEQUENCE OF CHOICE {..., ...} of Nodes and  *)
(* builtin types (which tag may stand where is the subject of Tags).       *)
(* TypeOf maps a number to "Node", that type itself, or to a builtin type. *)
(* A value is a sequence of numbers: octets, arcs, or the one number.      *)
(***************************************************************************)
EXTENDS BerOctets

CONSTANTS
    TypeOf,     \* [numbers -> types]
    Leaves,     \* the leaves the writer may put first, second, ...: [number, v]
    Patches,    \* contents a program writes in place of a leaf's
    MaxDepth,   \* Nodes inside each other within kMaxDecodeDepth
    MaxOpen,    \* bound: elements open at once
    MaxWritten, \* bound: elements written
    Jump, Step  \* what the corruptor adds to a number and to a length (6, 16)

ASSUME FramingAssumption ==
    /\ {MaxDepth, MaxOpen, MaxWritten, Jump, Step} \subseteq Nat \ {0}
    /\ DOMAIN TypeOf \subseteq 1 .. 2 ^ TagBits - 2
    /\ \A l \in UNION Range(Leaves) : l.number \in DOMAIN TypeOf /\ TypeOf[l.number] # "Node"

VARIABLES
    pc,      \* "write", "read", "done"
    buf,     \* the record so far, or in transit
    open,    \* elements being written: [at, length, definite, event]
    fresh,   \* the element just completed: [at, event], or None
    sent,    \* the record as a sequence of events (for the properties)
    definite, \* every length in it is definite
    fate,    \* "intact", "cut", "patched" or the corruptor's mode
    damaged, \* the event of the element the corruptor changed, or 0
    todo,    \* elements being read: [data, pos], innermost last
    got,     \* the events read
    verdict  \* "", "whole", "error"

vars == <<pc, buf, open, fresh, sent, definite, fate, damaged, todo, got, verdict>>

None == [at |-> 0, event |-> 0]

Event(is, number, v) == [is |-> is, number |-> number, v |-> v]
Close == Event("close", 0, <<>>)

-----------------------------------------------------------------------------
(* The handlers of BerCodec.cpp: contents of a value, and the value an     *)
(* element holds for a member of the given tag.                            *)

Contents(type, v) ==
    CASE type = "Boolean"   -> <<IF v[1] = 1 THEN Full - 1 ELSE 0>>
      [] type = "Null"      -> <<>>
      [] type \in {"Integer", "Enumerated"} -> IntegerContents(v[1])
      [] type = "UInteger"  -> UIntegerContents(v[1])
      [] type = "Oid"       -> OidContents(v)
      [] type = "RelativeOid" -> RelativeOidContents(v)
      [] type = "BitString" -> BitStringContents(v)
      [] type \in {"OctetString", "String", "Time"} -> v

Checked(tlv, tag, value) == IF tlv.tag = tag THEN value ELSE Bad

BooleanBerHandler(tlv, tag) ==
    Checked(tlv, tag, IF Len(tlv.value) = 1 THEN Value(<<IF tlv.value[1] # 0 THEN 1 ELSE 0>>) ELSE Bad)
NullBerHandler(tlv, tag)    == Checked(tlv, tag, Value(<<>>))
IntegerBerHandler(tlv, tag) == Checked(tlv, tag, IntegerValue(tlv.value))
EnumeratedBerHandler(tlv, tag) == Checked(tlv, tag, IntegerValue(tlv.value))
UIntegerBerHandler(tlv, tag) == Checked(tlv, tag, UIntegerValue(tlv.value))
OidBerHandler(tlv, tag)     == Checked(tlv, tag, OidValue(tlv.value))
RelOidBerHandler(tlv, tag)  == Checked(tlv, tag, RelativeOidValue(tlv.value))
BitStringBerHandler(tlv, tag) == Checked(tlv, tag, BitStringValue(tlv.value))
OctetStringBerHandler(tlv, tag) == Checked(tlv, tag, Value(tlv.value))
AsnStringBerHandler(tlv, tag) == Checked(tlv, tag, Value(tlv.value))
TimeBerHandler(tlv, tag)    == Value(tlv.value)

Held(type, tlv, tag) ==
    CASE type = "Boolean"     -> BooleanBerHandler(tlv, tag)
      [] type = "Null"        -> NullBerHandler(tlv, tag)
      [] type = "Integer"     -> IntegerBerHandler(tlv, tag)
      [] type = "Enumerated"  -> EnumeratedBerHandler(tlv, tag)
      [] type = "UInteger"    -> UIntegerBerHandler(tlv, tag)
      [] type = "Oid"         -> OidBerHandler(tlv, tag)
      [] type = "RelativeOid" -> RelOidBerHandler(tlv, tag)
      [] type = "BitString"   -> BitStringBerHandler(tlv, tag)
      [] type = "OctetString" -> OctetStringBerHandler(tlv, tag)
      [] type = "String"      -> AsnStringBerHandler(tlv, tag)
      [] type = "Time"        -> TimeBerHandler(tlv, tag)

-----------------------------------------------------------------------------
(* Writing.                                                                *)

Init ==
    /\ pc = "write" /\ buf = <<>> /\ open = <<>> /\ fresh = None /\ sent = <<>> /\ definite = TRUE
    /\ fate = "intact" /\ damaged = 0 /\ todo = <<>> /\ got = <<>> /\ verdict = ""

Reading == <<fate, damaged, todo, got, verdict>>

Written(is) == Len(SelectSeq(sent, LAMBDA e : e.is = is))

\* There is room for another element: a record is one element.
MayWrite ==
    pc = "write" /\ (sent # <<>> => open # <<>>) /\ Written("node") + Written("leaf") < MaxWritten
MayBegin(number) ==
    MayWrite /\ Len(open) < MaxOpen /\ TypeOf[number] = "Node"
MayPut(leaf) == MayWrite /\ Written("leaf") < Len(Leaves) /\ leaf \in Leaves[Written("leaf") + 1]

\* write_constructed, before the callback: three octets stand for the length.
Begin(number) ==
    /\ MayBegin(number)
    /\ LET head == buf \o TagOctets(Tag(number, TRUE))
       IN  /\ buf' = head \o <<0, 0, 0>>
           /\ open' = Append(open, [at |-> Len(buf) + 1, length |-> Len(head) + 1,
                                    definite |-> TRUE, event |-> Len(sent) + 1])
    /\ sent' = Append(sent, Event("node", number, <<>>))
    /\ fresh' = None
    /\ UNCHANGED <<pc, definite, Reading>>

\* A peer starts an element without saying how long it will be.
BeginIndefinite(number) ==
    /\ MayBegin(number)
    /\ LET head == buf \o TagOctets(Tag(number, TRUE))
       IN  /\ buf' = Append(head, Half)
           /\ open' = Append(open, [at |-> Len(buf) + 1, length |-> Len(head) + 1,
                                    definite |-> FALSE, event |-> Len(sent) + 1])
    /\ sent' = Append(sent, Event("node", number, <<>>))
    /\ fresh' = None /\ definite' = FALSE
    /\ UNCHANGED <<pc, Reading>>

\* write_primitive, by the handler of the leaf's type.
Put(leaf) ==
    /\ MayPut(leaf)
    /\ buf' = buf \o Primitive(Tag(leaf.number, FALSE), Contents(TypeOf[leaf.number], leaf.v))
    /\ sent' = Append(sent, Event("leaf", leaf.number, leaf.v))
    /\ fresh' = [at |-> Len(buf) + 1, event |-> Len(sent) + 1]
    /\ UNCHANGED <<pc, open, definite, Reading>>

\* A peer writes a leaf with n length octets, more than it takes.
PutLong(leaf, n) ==
    LET contents == Contents(TypeOf[leaf.number], leaf.v)
    IN  /\ MayPut(leaf) /\ Len(contents) < Full ^ n
        /\ buf' = buf \o TagOctets(Tag(leaf.number, FALSE))
                      \o <<Half + n>> \o [i \in 1 .. n |-> (Len(contents) \div Full ^ (n - i)) % Full]
                      \o contents
        /\ sent' = Append(sent, Event("leaf", leaf.number, leaf.v))
        /\ fresh' = None
        /\ UNCHANGED <<pc, open, definite, Reading>>

\* The innermost element is complete.
End ==
    /\ pc = "write" /\ open # <<>>
    /\ LET e == Last(open)
       IN  /\ buf' = IF e.definite THEN CloseLength(buf, e.length) ELSE buf \o <<0, 0>>
           /\ fresh' = IF e.definite THEN [at |-> e.at, event |-> e.event] ELSE None
    /\ open' = Front(open)
    /\ sent' = Append(sent, Close)
    /\ UNCHANGED <<pc, definite, Reading>>

\* ber_encode_implicit_tagged, once the member's own encoding is there.
Retag(number) ==
    /\ pc = "write" /\ fresh # None
    /\ TypeOf[number] = TypeOf[sent[fresh.event].number] /\ number # sent[fresh.event].number
    /\ buf' = ReplaceTag(buf, fresh.at, Tag(number, sent[fresh.event].is = "node"))
    /\ sent' = [sent EXCEPT ![fresh.event].number = number]
    /\ fresh' = None
    /\ UNCHANGED <<pc, open, definite, Reading>>

-----------------------------------------------------------------------------
(* In transit: BerCorruptor.hpp and BerCursor.cpp.                         *)

CorruptReadTag(b, off) ==
    IF off > Len(b) THEN 0
    ELSE IF b[off] % Half # LowMask THEN 1
    ELSE LET ends == {k \in 1 .. Len(b) - off : b[off + k] < Half}
         IN  IF ends = {} THEN 0 ELSE 1 + (CHOOSE k \in ends : \A j \in ends : k <= j)

\* corrupt_read_length: octets (0: none) and length (-1: indefinite).
CorruptReadLength(b, off) ==
    IF off > Len(b) THEN [octets |-> 0, len |-> -1]
    ELSE IF b[off] = Half THEN [octets |-> 1, len |-> -1]
    ELSE IF b[off] < Half THEN [octets |-> 1, len |-> b[off]]
    ELSE LET n == b[off] - Half
         IN  IF n > LenOctets \/ off + n > Len(b) THEN [octets |-> 0, len |-> -1]
             ELSE [octets |-> 1 + n, len |-> Number(SubSeq(b, off + 1, off + n), Full)]

\* corrupt_ber_range: positions of the elements it visits from "from" up to "to".
Visited(b) ==
    LET visit[r \in Nat \X Nat] ==
        LET off == r[1]
            tags == CorruptReadTag(b, off)
            l == CorruptReadLength(b, off + tags)
            header == tags + l.octets
            inside == b[off] >= Half /\ l.len >= 0 /\ off + header + l.len <= r[2] + 1
            advance == IF l.len >= 0 THEN header + l.len ELSE header
        IN  IF off > r[2] THEN {}
            ELSE IF tags = 0 THEN {}
            ELSE IF l.octets = 0 THEN {}
            ELSE {off}
              \cup (IF inside THEN visit[<<off + header, off + header + l.len - 1>>] ELSE {})
              \cup (IF off + advance > r[2] + 1 THEN {} ELSE visit[<<off + advance, r[2]>>])
    IN  visit[<<1, Len(b)>>]

TagModes == {"FLIP_PC", "TAG_BUMP", "TAG_JUMP"}
LengthModes == {"LEN_BIT_FLIP", "LEN_INDEF", "LEN_OVERSTATE", "LEN_UNDERSTATE"}

\* apply_corrupt_bit on the element at off.
ApplyCorruptBit(b, off, mode) ==
    LET first == b[off]
        low == first % Half
        high == first - low
        at == off + CorruptReadTag(b, off)
        len == b[at]
    IN  CASE mode = "FLIP_PC" -> [b EXCEPT ![off] = (first + Half) % Full]
          [] mode = "TAG_BUMP" ->
                [b EXCEPT ![off] = IF low < LowMask - 1 THEN first + 1 ELSE first - 1]
          [] mode = "TAG_JUMP" ->
                LET new == (low + Jump) % Half
                IN  [b EXCEPT ![off] = IF low = LowMask THEN first
                                       ELSE high + (IF new = LowMask THEN LowMask - 1 ELSE new)]
          [] mode = "LEN_BIT_FLIP" -> [b EXCEPT ![at] = IF len % 2 = 0 THEN len + 1 ELSE len - 1]
          [] mode = "LEN_INDEF" -> [b EXCEPT ![at] = Half]
          [] mode = "LEN_OVERSTATE" ->
                [b EXCEPT ![at] = IF len >= Half THEN len
                                  ELSE IF len + Step > LowMask THEN LowMask ELSE len + Step]
          [] mode = "LEN_UNDERSTATE" ->
                [b EXCEPT ![at] = IF len >= Half \/ len <= 1 THEN len
                                  ELSE IF len - 1 < Step THEN 1 ELSE len - Step]

\* Mutant: every header has two octets.
ShortHeader(octets) ==
    LET parsed(t) == IF ~t.ok THEN Bad
                     ELSE IF t.indefinite THEN Bad
                     ELSE [ok |-> TRUE, tag |-> t.tag, len |-> Len(t.value), header |-> 2]
    IN  IF octets = <<>> THEN Bad ELSE parsed(ReadTlv(octets, 1))

\* parse_buf: the element at the start of the octets, Bad for an indefinite one.
ParseBuf(octets) ==
    LET parsed(t) == IF ~t.ok THEN Bad
                     ELSE IF t.indefinite THEN Bad
                     ELSE [ok |-> TRUE, tag |-> t.tag, len |-> Len(t.value), header |-> t.pos - 1 - Len(t.value)]
    IN  IF octets = <<>> THEN Bad ELSE parsed(ReadTlv(octets, 1))

\* ber_walk: every element with its depth, parents first; a range is the first
\* and last octet and the depth there.
BerWalk(b) ==
    LET walk[r \in Nat \X Nat \X Nat] ==
        LET behind(pos) == IF pos > r[2] THEN <<>> ELSE walk[<<pos, r[2], r[3]>>]
            within(p, from) == IF p.tag.constructed THEN walk[<<from, from + p.len - 1, r[3] + 1>>] ELSE <<>>
            visit(p, from) ==
                <<[tag |-> p.tag, depth |-> r[3], from |-> from, len |-> p.len]>>
                \o within(p, from) \o behind(from + p.len)
            element(p) == IF p.ok THEN visit(p, r[1] + p.header) ELSE <<>>
        IN  element(ParseBuf(SubSeq(b, r[1], r[2])))
    IN  walk[<<1, Len(b), 0>>]

Complete == pc = "write" /\ sent # <<>> /\ open = <<>>

StartReading(octets, how) ==
    /\ pc' = "read" /\ fate' = how /\ buf' = octets
    /\ todo' = <<[data |-> octets, pos |-> 1]>>
    /\ fresh' = None
    /\ UNCHANGED <<open, definite, got, verdict>>

Deliver == Complete /\ StartReading(buf, "intact") /\ UNCHANGED <<sent, damaged>>

Cut == /\ Complete
       /\ \E k \in 0 .. Len(buf) - 1 : StartReading(SubSeq(buf, 1, k), "cut")
       /\ UNCHANGED <<sent, damaged>>

\* The events that start an element.
Heads == SelectSeq([i \in DOMAIN sent |-> i], LAMBDA i : sent[i].is # "close")

\* One element of the record; the bump of a long-form number is told apart, as
\* it makes the identifier a short one and its second octet a length.
Corrupt(mode) ==
    /\ Complete
    /\ \E off \in Visited(buf) :
          /\ StartReading(ApplyCorruptBit(buf, off, mode),
                          IF mode = "TAG_BUMP" /\ buf[off] % Half = LowMask THEN "LONG_BUMP" ELSE mode)
          /\ damaged' = IF definite THEN Heads[Cardinality({o \in Visited(buf) : o <= off})] ELSE 0
    /\ UNCHANGED sent

\* BerMutableCursor::write_value on a leaf: as many octets as there were.
Patch ==
    /\ Complete
    /\ \E seen \in {BerWalk(buf)} : \E i \in DOMAIN seen, new \in Patches :
             /\ Len(seen) = Len(Heads)
             /\ TypeOf[sent[Heads[i]].number] = "OctetString" /\ Len(new) = seen[i].len
             /\ StartReading([k \in DOMAIN buf |->
                    IF k \in seen[i].from .. seen[i].from + seen[i].len - 1
                    THEN new[k - seen[i].from + 1] ELSE buf[k]], "patched")
             /\ sent' = [sent EXCEPT ![Heads[i]].v = new]
    /\ UNCHANGED damaged

-----------------------------------------------------------------------------
(* Reading.                                                                *)

Finish(what) == pc' = "done" /\ verdict' = what /\ todo' = <<>>

Top == Last(todo)
Moved(pos) == [todo EXCEPT ![Len(todo)].pos = pos]

\* The root is one element, whatever follows it; a Node goes on to its end.
AtEnd == Len(todo) > 1 /\ Top.pos > Len(Top.data)

\* DecodeDepthGuard: Nodes being read, this one included.
Exceeded == Len(todo) > MaxDepth

Leave ==
    /\ pc = "read" /\ AtEnd
    /\ got' = Append(got, Close)
    /\ IF Len(todo) = 2 THEN Finish("whole")
       ELSE todo' = Front(todo) /\ UNCHANGED <<pc, verdict>>
    /\ UNCHANGED <<buf, open, fresh, sent, definite, fate, damaged>>

Known(t) == t.ok /\ t.tag.number \in DOMAIN TypeOf

\* The next element, its identifier t seen first, is a Node.
Enter(t, element) ==
    /\ Known(t) /\ TypeOf[t.tag.number] = "Node"
    /\ IF Exceeded \/ ~element.ok \/ ~t.tag.constructed
       THEN Finish("error") /\ UNCHANGED got
       ELSE /\ got' = Append(got, Event("node", t.tag.number, <<>>))
            /\ todo' = Append(Moved(element.pos), [data |-> element.value, pos |-> 1])
            /\ UNCHANGED <<pc, verdict>>

\* It is a leaf.
Take(t, element) ==
    /\ Known(t) /\ TypeOf[t.tag.number] # "Node"
    /\ \E held \in {IF element.ok
                    THEN Held(TypeOf[t.tag.number], element, Tag(t.tag.number, FALSE)) ELSE Bad} :
          IF ~held.ok THEN Finish("error") /\ UNCHANGED got
          ELSE /\ got' = Append(got, Event("leaf", t.tag.number, held.v))
               /\ IF Len(todo) = 1 THEN Finish("whole")
                  ELSE todo' = Moved(element.pos) /\ UNCHANGED <<pc, verdict>>

\* Mutant: an unknown element ends the Node.
SkipRest(t, element) ==
    /\ ~Known(t)
    /\ IF Len(todo) > 1 THEN todo' = Moved(Len(Top.data) + 1) /\ UNCHANGED <<pc, verdict>>
       ELSE Finish("error")
    /\ UNCHANGED got

\* There is none, or the type does not know it: an unknown extension is read and
\* dropped, in place of the record it is an error.
Skip(t, element) ==
    /\ ~Known(t)
    /\ IF Len(todo) > 1 /\ t.ok /\ element.ok
       THEN todo' = Moved(element.pos) /\ UNCHANGED <<pc, verdict>>
       ELSE Finish("error")
    /\ UNCHANGED got

ReadElement ==
    /\ pc = "read" /\ ~AtEnd
    /\ \E t \in {ReadTag(Top.data, Top.pos)}, element \in {ReadTlv(Top.data, Top.pos)} :
          Enter(t, element) \/ Take(t, element) \/ Skip(t, element)
    /\ UNCHANGED <<buf, open, fresh, sent, definite, fate, damaged>>

Numbers == DOMAIN TypeOf
ReadStep == Leave \/ ReadElement

Next ==
    \/ \E n \in Numbers : Begin(n) \/ BeginIndefinite(n) \/ Retag(n)
    \/ \E l \in UNION Range(Leaves) : Put(l) \/ \E n \in FastLen .. LenOctets : PutLong(l, n)
    \/ End
    \/ Deliver \/ Cut \/ Patch
    \/ \E m \in TagModes \cup LengthModes : Corrupt(m)
    \/ ReadStep

Spec == Init /\ [][Next]_vars

-----------------------------------------------------------------------------
Nodes(es, i) == Cardinality({j \in 1 .. i : es[j].is = "node"})
Closes(es, i) == Cardinality({j \in 1 .. i : es[j].is = "close"})

\* Nodes around the event at i.
DepthAt(es, i) == Nodes(es, i - 1) - Closes(es, i - 1)

\* What was written is read back, event for event, whatever mix of lengths and
\* identifiers it took and however they moved while it was written; a record
\* with more Nodes inside each other than the limit is an error.
ReadsBack ==
    pc = "done" /\ fate \in {"intact", "patched"} =>
        IF \E i \in DOMAIN sent : sent[i].is = "node" /\ DepthAt(sent, i) >= MaxDepth
        THEN verdict = "error"
        ELSE verdict = "whole" /\ got = sent

\* A record that lost its end is never taken for a whole one.
CutIsNoticed == fate = "cut" /\ pc = "done" => verdict = "error"

\* The events es[i..j] are one element, whole.
IsElement(es, i, j) ==
    /\ es[i].is # "close" /\ DepthAt(es, j + 1) = DepthAt(es, i)
    /\ \A k \in i + 1 .. j : DepthAt(es, k) > DepthAt(es, i)

\* A change of one identifier that leaves the record readable changes the one
\* element, or drops it, and nothing before, behind or around it.
DamageIsLocal ==
    fate \in TagModes /\ verdict = "whole" /\ damaged # 0 =>
        \E j \in damaged .. Len(sent) :
            LET upto == Len(got) - (Len(sent) - j)
            IN  /\ IsElement(sent, damaged, j)
                /\ upto >= damaged - 1
                /\ SubSeq(got, 1, damaged - 1) = SubSeq(sent, 1, damaged - 1)
                /\ SubSeq(got, upto + 1, Len(got)) = SubSeq(sent, j + 1, Len(sent))
                /\ upto >= damaged => IsElement(got, damaged, upto)

\* A BerCursor walks the elements the reader reads, at the same depths, in every
\* record of definite lengths.
CursorSeesAll ==
    pc = "read" /\ fate = "intact" /\ definite =>
        LET seenAs(seen)  == [i \in DOMAIN seen |-> <<seen[i].tag, seen[i].depth>>]
            sentAs(heads) == [i \in DOMAIN heads |-> <<Tag(sent[heads[i]].number, sent[heads[i]].is = "node"),
                                                       DepthAt(sent, heads[i])>>]
        IN  seenAs(BerWalk(buf)) = sentAs(Heads)
=============================================================================
