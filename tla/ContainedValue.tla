--------------------------- MODULE ContainedValue ---------------------------
(***************************************************************************)
(* A contained field of the C++ runtime: an OCTET STRING whose bytes are   *)
(* the encoding of another type (X.682 section 11), stored as              *)
(* asn1::Containing<T> (runtime/include/asn1cpp/types/Containing.hpp).     *)
(* The object keeps the raw bytes and the inner value side by side, and    *)
(* each encode decides which of the two is written                         *)
(* (contained_wire_bytes, runtime/src/Contained.cpp).                      *)
(*                                                                         *)
(* The objects are decoded from and encoded to messages in BER, PER and    *)
(* text (XER and JER, which treat contents alike) in any order, modified,  *)
(* copied and moved in between.  Bytes are abstracted to what a decoder    *)
(* tells apart: the rules they are in, the value they encode, and the      *)
(* dress around it (padding, encryption).                                  *)
(***************************************************************************)
EXTENDS Naturals

CONSTANTS
    Obj,        \* contained fields of the program's values, all of one type
    Value,      \* inner values
    None,       \* no value: nullptr, or bytes that do not decode
    Field,      \* the ways the field may be configured (FieldSpec)
    Given,      \* the bytes a peer sends or the application sets: a bound
    Misread     \* Misread[r][v]: what the encoding of v in rules r reads as
                \* in the other rules, None if that fails

Rules == {"Ber", "Per"}
MaybeValue == Value \cup {None}

\* ContainedDecoders entries.  "seal" and "unseal" stand for an application's
\* transform with and without an encode side, "absent" for an unknown name.
Kind == {"plain", "zero_padding", "pkcs7", "none", "seal", "unseal", "absent"}
Dress == {"bare", "zeros", "tail", "pkcs7", "sealed", "garbled"}
Bytes == [rules : Rules, v : Value, dress : Dress]
Pack(r, v, d) == [rules |-> r, v |-> v, dress |-> d]

\* "member": of a SEQUENCE or CHOICE whose encode writes to the caller's own
\* writer.  "addition": in a PER extension addition, encoded as an open type.
\* "setOf": in an element of a SET OF, encoded apart to be sorted.
Place == {"member", "addition", "setOf"}

FieldSpec ==
    [encoding : Rules \cup {"Outer"},   \* ContainedSpec::encoding
     eager : BOOLEAN,                   \* ContainedSpec::eager
     app : Kind,        \* entry of the field's decoder in the application's
                        \* registry, passed with ContainedOptions
     default : Kind,    \* its entry in ContainedDecoders::defaults()
     place : Place]     \* what the field is a part of

ASSUME NoneAssumption == None \notin Value /\ None \notin Bytes
ASSUME FieldAssumption == Field \subseteq FieldSpec
ASSUME GivenAssumption == Given \subseteq Bytes
ASSUME MisreadAssumption == Misread \in [Rules -> [Value -> MaybeValue]]

VARIABLES
    field,      \* the field's configuration, fixed at code generation
    raw,        \* [Obj -> MaybeBytes]: the OctetString base, None when empty
    inner,      \* [Obj -> MaybeValue]: inner_
    status,     \* [Obj -> ContainedStatus]
    dirty,      \* SUBSET Obj: dirty_
    rawEnc,     \* [Obj -> Rules + Outer]: raw_encoding_
    spoiled,    \* SUBSET Obj: the last decode into them returned an error
                \* after it replaced the inner value
    origin,     \* [Obj -> MaybeBytes]: the bytes the object was given, as
                \* long as nothing replaced them by derived ones
    meant,      \* [Obj -> MaybeValue]: the value the field stands for, from
                \* the last program that set it, through every message since
    wire        \* the last message written, or None

objVars == <<raw, inner, status, dirty, rawEnc, spoiled, origin, meant>>
vars == <<field, objVars, wire>>

MaybeBytes == Bytes \cup {None}
Status == {"NotDecoded", "Decoded", "Skipped", "Failed"}
Outer == {"Ber", "Per", "Text"}
Form == {"hex", "inline", "inline_raw"}
\* value travels in the inline forms, bytes in the others; the rest records
\* what the sender held.
Message ==
    [outer : Outer, form : Form, bytes : MaybeBytes, value : MaybeValue,
     edited : BOOLEAN, origin : MaybeBytes, meant : MaybeValue]

TypeOK ==
    /\ field \in Field
    /\ raw \in [Obj -> MaybeBytes]
    /\ inner \in [Obj -> MaybeValue]
    /\ status \in [Obj -> Status]
    /\ dirty \subseteq Obj
    /\ rawEnc \in [Obj -> Rules \cup {"Outer"}]
    /\ spoiled \subseteq Obj
    /\ origin \in [Obj -> MaybeBytes]
    /\ meant \in [Obj -> MaybeValue]
    /\ wire \in Message \cup {None}

Init ==
    /\ field \in Field
    /\ raw = [o \in Obj |-> None]
    /\ inner = [o \in Obj |-> None]
    /\ status = [o \in Obj |-> "NotDecoded"]
    /\ dirty = {}
    /\ rawEnc = [o \in Obj |-> "Outer"]
    /\ spoiled = {}
    /\ origin = [o \in Obj |-> None]
    /\ meant = [o \in Obj |-> None]
    /\ wire = None

-----------------------------------------------------------------------------
\* XER and JER carry an outer-encoding field's contents as BER.
OuterRules(m) == IF m = "Per" THEN "Per" ELSE "Ber"
Resolve(r) == IF field.encoding = "Outer" THEN r ELSE field.encoding

\* What b is the encoding of, when it is read in rules r.
Reads(b, r) ==
    IF b = None THEN None
    ELSE IF b.rules = r THEN b.v ELSE Misread[b.rules][b.v]

\* The dresses a decoder looks through; zero_padding only warns about a tail
\* that is not zero.
Opens(kind) ==
    CASE kind = "plain" -> {"bare"}
      [] kind = "zero_padding" -> {"bare", "zeros", "tail", "pkcs7"}
      [] kind = "pkcs7" -> {"pkcs7"}
      [] kind \in {"seal", "unseal"} -> {"sealed"}
      [] kind \in {"none", "absent"} -> {}

CanEncode(kind) == kind \in {"plain", "zero_padding", "pkcs7", "seal"}
Dresses(kind) ==
    CASE kind = "pkcs7" -> "pkcs7"
      [] kind = "seal" -> "sealed"
      [] OTHER -> "bare"

\* What a decoder of this kind makes of the bytes in rules r.
Decoding(kind, b, r) ==
    IF b # None /\ b.dress \in Opens(kind) THEN Reads(b, r) ELSE None

\* The registry an encode resolves the field's decoder in.  The streams made
\* for an open type (PER) and for a SET OF element (PER and BER) have no
\* options of their own, so the defaults are used there.
EncodeKind(m) ==
    IF \/ m = "Per" /\ field.place \in {"addition", "setOf"}
       \/ m = "Ber" /\ field.place = "setOf"
    THEN field.default ELSE field.app

OtherRules(o, m) ==
    field.encoding = "Outer" /\ rawEnc[o] \notin {"Outer", OuterRules(m)}

DerivesIfOtherRules(o, m) == inner[o] # None /\ OtherRules(o, m)
Derives(o, m) == inner[o] # None /\ (o \in dirty \/ OtherRules(o, m))

WireBytesBare(o, m) ==
    IF Derives(o, m) /\ CanEncode(EncodeKind(m))
    THEN Pack(Resolve(OuterRules(m)), inner[o], "bare")
    ELSE raw[o]

\* contained_wire_bytes: the raw bytes, or bytes derived from the inner value.
WireBytes(o, m) ==
    IF Derives(o, m) /\ CanEncode(EncodeKind(m))
    THEN Pack(Resolve(OuterRules(m)), inner[o], Dresses(EncodeKind(m)))
    ELSE raw[o]

\* It reports an error only for a modified value.
Fails(o, m) == inner[o] # None /\ o \in dirty /\ ~CanEncode(EncodeKind(m))

\* The error becomes encode_failed() of the caller's writer, except through the
\* writer BER makes for a SET OF element, which nobody asks.
Reported(m) == ~(m = "Ber" /\ field.place = "setOf")

\* The bytes written are in other rules than the message: the value was not
\* decoded, or its decoder has no encode side.
Kept(o, m) == OtherRules(o, m) /\ ~(inner[o] # None /\ CanEncode(EncodeKind(m)))

-----------------------------------------------------------------------------
\* Encode o into a message; the output of an encode reported as failed is
\* dropped.  Text falls back to hex when there is no inner value.
Encode(o, m, form) ==
    /\ o \notin spoiled
    /\ form # "hex" => m = "Text" /\ inner[o] # None
    /\ ~(Fails(o, m) /\ Reported(m))
    /\ wire' = [outer |-> m, form |-> form, bytes |-> WireBytes(o, m),
                value |-> inner[o], edited |-> o \in dirty /\ inner[o] # None,
                origin |-> IF OtherRules(o, m) \/ form = "inline" THEN None ELSE origin[o],
                meant |-> IF Kept(o, m) /\ form = "hex" THEN None ELSE meant[o]]
    /\ UNCHANGED <<field, objVars>>

\* A peer's message: any bytes, or an inline form whose raw part agrees.
PeerSends(m, form, b, v) ==
    /\ form # "hex" => /\ m = "Text" /\ v # None
                       /\ Reads(b, Resolve("Ber")) = v /\ b.dress \in Opens(field.app)
    /\ form = "hex" => v = None
    /\ wire' = [outer |-> m, form |-> form, bytes |-> b, value |-> v, edited |-> FALSE,
                origin |-> IF form = "inline" THEN None ELSE b, meant |-> v]
    /\ UNCHANGED <<field, objVars>>

Assigned(o, b, v, s, e) ==
    /\ raw' = [raw EXCEPT ![o] = b]
    /\ inner' = [inner EXCEPT ![o] = v]
    /\ status' = [status EXCEPT ![o] = s]
    /\ rawEnc' = [rawEnc EXCEPT ![o] = e]
    /\ dirty' = dirty \ {o}
    /\ spoiled' = spoiled \ {o}

\* BER, PER or hex text: set_raw_from_wire, and, when the enclosing type has
\* all its members, decode_one (eager, not off, selected by its `when`
\* sibling: wanted).
DecodeBytes(o, wanted) ==
    LET r == OuterRules(wire.outer)
        v == Decoding(field.app, wire.bytes, Resolve(r))
        asked == field.eager /\ wanted /\ field.app # "none"
    IN  /\ wire # None /\ wire.form = "hex"
        /\ Assigned(o, wire.bytes, IF asked THEN v ELSE None,
                    IF ~asked THEN "Skipped" ELSE IF v = None THEN "Failed" ELSE "Decoded", r)
        /\ origin' = [origin EXCEPT ![o] = wire.origin]
        /\ meant' = [meant EXCEPT ![o] =
                        IF wire.meant = None /\ asked THEN v ELSE wire.meant]
        /\ UNCHANGED <<field, wire>>

\* Inline text: the value is decoded from its own XER or JER form, the raw
\* bytes are those of the raw part or the bare encoding of the value; decode_one
\* then finds the field decoded.
DecodeInline(o) ==
    LET r == Resolve("Ber")
    IN  /\ wire # None /\ wire.form # "hex"
        /\ Assigned(o, IF wire.form = "inline_raw" THEN wire.bytes ELSE Pack(r, wire.value, "bare"),
                    wire.value, "Decoded", r)
        /\ origin' = [origin EXCEPT ![o] = wire.origin]
        /\ meant' = [meant EXCEPT ![o] = wire.meant]
        /\ UNCHANGED <<field, wire>>

\* Inline text that turns out malformed after the inner value was replaced: an
\* error, the bytes, status and dirty flag are still those of the old value.
DecodeInlineFails(o, v) ==
    /\ inner' = [inner EXCEPT ![o] = v]
    /\ spoiled' = spoiled \cup {o}
    /\ UNCHANGED <<field, raw, status, dirty, rawEnc, origin, meant, wire>>

\* Mutant: new bytes do not drop the old inner value.
SetKeepsValue(o, b) ==
    /\ Assigned(o, b, inner[o], status[o], "Outer")
    /\ origin' = [origin EXCEPT ![o] = b]
    /\ meant' = [meant EXCEPT ![o] = None]
    /\ UNCHANGED <<field, wire>>

\* set(bytes)
Set(o, b) ==
    /\ Assigned(o, b, None, "NotDecoded", "Outer")
    /\ origin' = [origin EXCEPT ![o] = b]
    /\ meant' = [meant EXCEPT ![o] = None]
    /\ UNCHANGED <<field, wire>>

\* set_value(v), and value_mut() followed by a change of the value in place.
SetValue(o, v) ==
    /\ inner' = [inner EXCEPT ![o] = v]
    /\ status' = [status EXCEPT ![o] = "Decoded"]
    /\ dirty' = dirty \cup {o}
    /\ spoiled' = spoiled \ {o}
    /\ origin' = [origin EXCEPT ![o] = None]
    /\ meant' = [meant EXCEPT ![o] = v]
    /\ UNCHANGED <<field, raw, rawEnc, wire>>

\* RandomFiller::fill_contained: bytes derived with the default registry's
\* encode side, or bare without one; a zero_padding field may get a zero tail.
Fill(o, v, padded) ==
    LET r == Resolve("Ber")
        k == field.default
        b == Pack(r, v, IF padded THEN "zeros" ELSE Dresses(k))
    IN  /\ padded => k = "zero_padding"
        /\ Assigned(o, b, v, "Decoded", r)
        /\ origin' = [origin EXCEPT ![o] = b]
        /\ meant' = [meant EXCEPT ![o] = v]
        /\ UNCHANGED <<field, wire>>

\* dst is in S afterwards if src was.
Transfer(S, dst, src) == IF src \in S THEN S \cup {dst} ELSE S \ {dst}

\* The copy constructor behind operator=, and deep_copy.
Copy(dst, src) ==
    /\ dst # src
    /\ raw' = [raw EXCEPT ![dst] = raw[src]]
    /\ inner' = [inner EXCEPT ![dst] = inner[src]]
    /\ status' = [status EXCEPT ![dst] = status[src]]
    /\ rawEnc' = [rawEnc EXCEPT ![dst] = rawEnc[src]]
    /\ dirty' = Transfer(dirty, dst, src)
    /\ spoiled' = Transfer(spoiled, dst, src)
    /\ origin' = [origin EXCEPT ![dst] = origin[src]]
    /\ meant' = [meant EXCEPT ![dst] = meant[src]]
    /\ UNCHANGED <<field, wire>>

\* The move constructor behind operator=: the source loses bytes and value,
\* and keeps its status, rules and dirty flag.
Move(dst, src) ==
    /\ dst # src
    /\ raw' = [raw EXCEPT ![dst] = raw[src], ![src] = None]
    /\ inner' = [inner EXCEPT ![dst] = inner[src], ![src] = None]
    /\ status' = [status EXCEPT ![dst] = status[src]]
    /\ rawEnc' = [rawEnc EXCEPT ![dst] = rawEnc[src]]
    /\ dirty' = Transfer(dirty, dst, src)
    /\ spoiled' = Transfer(spoiled, dst, src)
    /\ origin' = [origin EXCEPT ![dst] = origin[src], ![src] = None]
    /\ meant' = [meant EXCEPT ![dst] = meant[src], ![src] = None]
    /\ UNCHANGED <<field, wire>>

Receive(o) ==
    \/ \E wanted \in BOOLEAN : DecodeBytes(o, wanted)
    \/ DecodeInline(o)
    \/ \E v \in Value : DecodeInlineFails(o, v)

Send(o) ==
    \E m \in Outer, form \in Form : Encode(o, m, form)

Modify(o) ==
    \/ \E b \in Given : Set(o, b)
    \/ \E v \in Value : SetValue(o, v)
    \/ \E v \in Value, padded \in BOOLEAN : Fill(o, v, padded)
    \/ \E p \in Obj : Copy(o, p)
    \/ \E p \in Obj : Move(o, p)

Peer ==
    \E m \in Outer, form \in Form, b \in Given, v \in MaybeValue :
        PeerSends(m, form, b, v)

Next == (\E o \in Obj : Receive(o) \/ Send(o) \/ Modify(o)) \/ Peer

Spec == Init /\ [][Next]_vars

-----------------------------------------------------------------------------
\* The fields for which the runtime keeps every promise below: streams it
\* makes for parts of an encode see the decoder the application meant, their
\* failures are reported, and bytes that must follow the outer rules can be
\* derived again.
Sound(f) ==
    /\ f.place = "member" \/ f.app = f.default
    /\ f.place = "setOf" => CanEncode(f.app)
    /\ f.encoding = "Outer" => f.app # "unseal"

\* An object that is not dirty holds one value twice: the raw bytes, in the
\* rules they are known to be in, encode the inner value.
Coherent ==
    \A o \in Obj \ spoiled : inner[o] # None /\ o \notin dirty =>
        Reads(raw[o], Resolve(OuterRules(rawEnc[o]))) = inner[o]

\* The inner value of every object, however many hops through BER, PER and
\* text lie behind it, is the one the last program to set it meant.
Understood == \A o \in Obj \ spoiled : inner[o] # None => inner[o] = meant[o]

\* Every message carries the value its sender's field stands for in the rules
\* the receiver will read it in, also when the sender relays bytes it never
\* decoded.
CarriesMeaning ==
    wire # None /\ wire.meant # None =>
        /\ wire.form # "inline" =>
               Reads(wire.bytes, Resolve(OuterRules(wire.outer))) = wire.meant
        /\ wire.form # "hex" => wire.value = wire.meant

\* The bytes of a modified value went through the encode side of the decoder
\* the application registered for the field (pkcs7 pads, a cipher encrypts).
EditsAreDressed ==
    wire # None /\ wire.edited /\ wire.form # "inline" =>
        wire.bytes # None /\ wire.bytes.dress = Dresses(field.app)

\* Bytes given to an object come out of it, and of its copies, unchanged until
\* the value is modified or written in other rules, so a hash over them holds.
BytesKept ==
    /\ \A o \in Obj \ spoiled : origin[o] # None => raw[o] = origin[o]
    /\ wire # None /\ wire.origin # None => wire.bytes = wire.origin

=============================================================================
