------------------------ MODULE ContainedValueProofs ------------------------
(***************************************************************************)
(* Theorems about ContainedValue for any objects, values, field            *)
(* configurations and given bytes.  SoundFields restricts the              *)
(* configurations to those for which the runtime keeps its promises        *)
(* (Sound); the inductive invariant ties the two copies of a value, raw    *)
(* bytes and inner value, to the one the last program to set it meant.     *)
(***************************************************************************)
EXTENDS ContainedValue, TLAPS

SoundFields == \A f \in Field : Sound(f)

\* The rules the raw bytes of o are read in.
ReadIn(o) == Resolve(OuterRules(rawEnc[o]))

Edited(o) == o \in dirty /\ inner[o] # None

\* Unless it was edited, the bytes of an object that stands for a value encode
\* it in rules the object knows.
BytesMean ==
    \A o \in Obj \ spoiled : meant[o] # None /\ ~Edited(o) =>
        Reads(raw[o], ReadIn(o)) = meant[o] /\ rawEnc[o] # "Outer"

\* A decoder that opens nothing leaves a value only through text or the filler.
BlindDecoder ==
    \A o \in Obj \ spoiled :
        /\ inner[o] # None /\ o \notin dirty
        /\ field.encoding = "Outer" /\ field.app \in {"none", "absent"}
        => rawEnc[o] = "Ber"

OriginsMatch ==
    \A o \in Obj : origin[o] # None => raw[o] = origin[o] /\ o \notin dirty

WireOrigin ==
    wire # None /\ wire.origin # None => wire.form # "inline" /\ wire.bytes = wire.origin

InlineIsText ==
    wire # None /\ wire.form # "hex" => wire.outer = "Text" /\ wire.value # None

InlineHasMeaning == wire # None /\ wire.form # "hex" => wire.meant # None

TInv == TypeOK /\ InlineIsText

IInv == /\ TInv /\ Understood /\ BytesMean /\ BlindDecoder
        /\ OriginsMatch /\ WireOrigin /\ InlineHasMeaning /\ CarriesMeaning /\ EditsAreDressed

-----------------------------------------------------------------------------
LEMMA OuterRulesType == \A m : OuterRules(m) \in Rules
BY DEF OuterRules, Rules

LEMMA ResolveType ==
    ASSUME field \in Field, NEW r \in Rules
    PROVE  Resolve(r) \in Rules
BY FieldAssumption DEF FieldAssumption, FieldSpec, Resolve, Rules

LEMMA ReadsType ==
    ASSUME NEW b \in MaybeBytes, NEW r \in Rules
    PROVE  Reads(b, r) \in MaybeValue
BY MisreadAssumption DEF MisreadAssumption, MaybeBytes, MaybeValue, Bytes, Reads, Rules

LEMMA ReadsPack ==
    ASSUME NEW r \in Rules, NEW v \in Value, NEW d \in Dress
    PROVE  /\ Pack(r, v, d) \in Bytes
           /\ Pack(r, v, d) # None
           /\ Reads(Pack(r, v, d), r) = v
           /\ Pack(r, v, d).dress = d
<1>1. Pack(r, v, d) \in Bytes
  BY DEF Pack, Bytes
<1>2. Pack(r, v, d) # None
  BY <1>1, NoneAssumption DEF NoneAssumption
<1> QED
  BY <1>1, <1>2 DEF Pack, Reads

LEMMA DressesType == \A k : Dresses(k) \in Dress
BY DEF Dresses, Dress

LEMMA DecodingType ==
    ASSUME NEW k, NEW b \in MaybeBytes, NEW r \in Rules
    PROVE  /\ Decoding(k, b, r) \in MaybeValue
           /\ Decoding(k, b, r) # None => Decoding(k, b, r) = Reads(b, r)
BY ReadsType DEF Decoding, MaybeValue

\* The bytes an encode writes are bytes.
LEMMA WireBytesType ==
    ASSUME TypeOK, NEW o \in Obj, NEW m \in Outer
    PROVE  WireBytes(o, m) \in MaybeBytes
<1>1. CASE Derives(o, m) /\ CanEncode(EncodeKind(m))
  <2>1. inner[o] \in Value
    BY <1>1 DEF Derives, TypeOK, MaybeValue
  <2>2. Resolve(OuterRules(m)) \in Rules
    BY OuterRulesType, ResolveType DEF TypeOK
  <2> QED
    BY <1>1, <2>1, <2>2, DressesType, ReadsPack DEF WireBytes, MaybeBytes
<1>2. CASE ~(Derives(o, m) /\ CanEncode(EncodeKind(m)))
  BY <1>2 DEF WireBytes, TypeOK
<1> QED
  BY <1>1, <1>2

-----------------------------------------------------------------------------
\* The typing part of the induction, one step for each action.
LEMMA TypeStep == TInv /\ [Next]_vars => TInv'
<1> SUFFICES ASSUME TInv, [Next]_vars PROVE TInv'
  OBVIOUS
<1>0. /\ \A r \in Rules : Resolve(r) \in Rules
      /\ \A r \in Rules, v \in Value, d \in Dress : Pack(r, v, d) \in Bytes
      /\ \A m : OuterRules(m) \in Rules
      /\ \A k : Dresses(k) \in Dress
      /\ "Ber" \in Rules /\ "bare" \in Dress /\ "zeros" \in Dress
  BY ResolveType, ReadsPack, OuterRulesType, DressesType DEF TInv, TypeOK, Rules, Dress
<1> USE DEF TInv, InlineIsText
<1>1. ASSUME NEW o \in Obj, NEW wanted \in BOOLEAN, DecodeBytes(o, wanted) PROVE TInv'
  <2> DEFINE r == OuterRules(wire.outer)
             v == Decoding(field.app, wire.bytes, Resolve(r))
  <2>1. wire \in Message
    BY <1>1 DEF DecodeBytes, TypeOK
  <2>2. r \in Rules /\ v \in MaybeValue
    BY <1>0, <2>1, DecodingType DEF Message
  <2> QED
    BY <1>1, <2>1, <2>2 DEF DecodeBytes, Assigned, TypeOK, MaybeValue, Status, Message
<1>2. ASSUME NEW o \in Obj, DecodeInline(o) PROVE TInv'
  <2>1. wire \in Message
    BY <1>2 DEF DecodeInline, TypeOK
  <2>2. wire.value \in Value
    BY <1>2, <2>1 DEF DecodeInline, Message, MaybeValue
  <2> QED
    BY <1>0, <1>2, <2>1, <2>2 DEF DecodeInline, Assigned, TypeOK, MaybeValue, MaybeBytes, Status, Message
<1>3. ASSUME NEW o \in Obj, NEW v \in Value, DecodeInlineFails(o, v) PROVE TInv'
  BY <1>3 DEF DecodeInlineFails, TypeOK, MaybeValue
<1>4. ASSUME NEW o \in Obj, NEW m \in Outer, NEW form \in Form, Encode(o, m, form)
      PROVE  TInv'
  <2>1. WireBytes(o, m) \in MaybeBytes
    BY WireBytesType
  <2>2. wire' \in Message
    BY <1>4, <2>1 DEF Encode, TypeOK, Message, MaybeValue, MaybeBytes
  <2> QED
    BY <1>4, <2>2 DEF Encode, TypeOK, objVars
<1>5. ASSUME NEW o \in Obj, NEW b \in Given, Set(o, b) PROVE TInv'
  BY <1>5, GivenAssumption DEF GivenAssumption, Set, Assigned, TypeOK, MaybeValue, MaybeBytes, Status
<1>6. ASSUME NEW o \in Obj, NEW v \in Value, SetValue(o, v) PROVE TInv'
  BY <1>6 DEF SetValue, TypeOK, MaybeValue, MaybeBytes, Status
<1>7. ASSUME NEW o \in Obj, NEW v \in Value, NEW padded \in BOOLEAN, Fill(o, v, padded)
      PROVE  TInv'
  BY <1>0, <1>7 DEF Fill, Assigned, TypeOK, MaybeValue, MaybeBytes, Status
<1>8. ASSUME NEW o \in Obj, NEW p \in Obj, Copy(o, p) PROVE TInv'
  BY <1>8 DEF Copy, Transfer, TypeOK
<1>9. ASSUME NEW o \in Obj, NEW p \in Obj, Move(o, p) PROVE TInv'
  BY <1>9 DEF Move, Transfer, TypeOK, MaybeValue, MaybeBytes
<1>10. ASSUME NEW m \in Outer, NEW form \in Form, NEW b \in Given, NEW v \in MaybeValue,
              PeerSends(m, form, b, v)
       PROVE  TInv'
  BY <1>10, GivenAssumption DEF GivenAssumption, PeerSends, TypeOK, Message, MaybeBytes, objVars
<1>11. CASE UNCHANGED vars
  BY <1>11 DEF vars, objVars, TypeOK
<1> QED
  BY <1>1, <1>2, <1>3, <1>4, <1>5, <1>6, <1>7, <1>8, <1>9, <1>10, <1>11
     DEF Next, Receive, Send, Modify, Peer

\* A value decoded or derived is a value, and the bytes held are bytes.
THEOREM TypeCorrect == Spec => []TypeOK
<1>1. Init => TInv
  BY DEF Init, TypeOK, TInv, InlineIsText, MaybeBytes, MaybeValue, Status
<1>2. TInv /\ [Next]_vars => TInv'
  BY TypeStep
<1>3. TInv => TypeOK
  BY DEF TInv
<1> QED
  BY <1>1, <1>2, <1>3, PTL DEF Spec

-----------------------------------------------------------------------------
\* What the induction needs to know of one object.
ObjOK(o) ==
    /\ o \notin spoiled =>
          /\ inner[o] # None => inner[o] = meant[o]
          /\ meant[o] # None /\ ~Edited(o) =>
                 Reads(raw[o], ReadIn(o)) = meant[o] /\ rawEnc[o] # "Outer"
          /\ /\ inner[o] # None /\ o \notin dirty
             /\ field.encoding = "Outer" /\ field.app \in {"none", "absent"}
             => rawEnc[o] = "Ber"
    /\ origin[o] # None => raw[o] = origin[o] /\ o \notin dirty

WireOK == /\ WireOrigin /\ InlineHasMeaning /\ CarriesMeaning /\ EditsAreDressed

LEMMA PerObject == IInv <=> TInv /\ WireOK /\ \A o \in Obj : ObjOK(o)
BY DEF IInv, WireOK, ObjOK, Understood, BytesMean, BlindDecoder, OriginsMatch

LEMMA PerObjectAfter == TInv' /\ WireOK' /\ (\A o \in Obj : ObjOK(o)') => IInv'
BY DEF IInv, WireOK, ObjOK, Understood, BytesMean, BlindDecoder, OriginsMatch

\* Rules resolve the same way whether they are an outer encoding or the rules
\* contents were kept in.
LEMMA RulesResolve ==
    ASSUME field \in Field, NEW m
    PROVE  /\ OuterRules(OuterRules(m)) = OuterRules(m)
           /\ OuterRules(m) # "Outer" /\ Resolve("Ber") # "Outer"
           /\ Resolve(OuterRules(Resolve("Ber"))) = Resolve("Ber")
BY FieldAssumption DEF FieldAssumption, FieldSpec, Resolve, OuterRules, Rules

\* An encode that is not reported as failed and cannot derive bytes is not one
\* of a modified value.
LEMMA EditsDerive ==
    ASSUME SoundFields, TypeOK, NEW o \in Obj, NEW m \in Outer, Edited(o),
           ~(Fails(o, m) /\ Reported(m))
    PROVE  /\ Derives(o, m) /\ CanEncode(EncodeKind(m))
           /\ Dresses(EncodeKind(m)) = Dresses(field.app)
<1>1. Sound(field)
  BY DEF SoundFields, TypeOK
<1> QED
  BY <1>1 DEF Sound, Edited, Fails, Reported, Derives, EncodeKind, TypeOK

\* Bytes that are written although they are in rules other than the message's
\* travel as hex, with no claim on what they mean there.
LEMMA InlineIsNotKept ==
    ASSUME SoundFields, TypeOK, NEW o \in Obj, ObjOK(o), o \notin spoiled,
           inner[o] # None, ~Edited(o), ~CanEncode(EncodeKind("Text"))
    PROVE  ~OtherRules(o, "Text")
<1>1. Sound(field) /\ field \in FieldSpec
  BY FieldAssumption DEF FieldAssumption, SoundFields, TypeOK
<1>2. EncodeKind("Text") = field.app
  BY DEF EncodeKind
<1>3. field.encoding = "Outer" => field.app \in {"none", "absent"}
  BY <1>1, <1>2 DEF Sound, CanEncode, FieldSpec, Kind
<1> QED
  BY <1>3 DEF ObjOK, OtherRules, OuterRules, Edited
-----------------------------------------------------------------------------
\* Messages: what an encode writes.
LEMMA EncodeStep ==
    ASSUME SoundFields, IInv, NEW o \in Obj, NEW m \in Outer, NEW form \in Form,
           Encode(o, m, form)
    PROVE  WireOK'
<1>1. TypeOK /\ ObjOK(o) /\ o \notin spoiled
  BY PerObject DEF TInv, Encode
<1>2. /\ wire'.outer = m /\ wire'.form = form
      /\ wire'.bytes = WireBytes(o, m) /\ wire'.value = inner[o]
      /\ wire'.edited <=> Edited(o)
      /\ wire'.origin = IF OtherRules(o, m) \/ form = "inline" THEN None ELSE origin[o]
      /\ wire'.meant = IF Kept(o, m) /\ form = "hex" THEN None ELSE meant[o]
      /\ form # "hex" => m = "Text" /\ inner[o] # None
      /\ ~(Fails(o, m) /\ Reported(m))
  BY DEF Encode, Edited
<1>3. Edited(o) => /\ Derives(o, m) /\ CanEncode(EncodeKind(m))
                   /\ Dresses(EncodeKind(m)) = Dresses(field.app)
  BY <1>1, <1>2, EditsDerive
<1>4. WireOrigin'
  <2>1. ASSUME ~OtherRules(o, m), origin[o] # None
        PROVE  WireBytes(o, m) = origin[o]
    BY <1>1, <2>1 DEF ObjOK, WireBytes, Derives
  <2> QED
    BY <1>2, <2>1 DEF WireOrigin
<1>5. InlineHasMeaning'
  <2>1. SUFFICES ASSUME form # "hex" PROVE meant[o] # None
    BY <1>2 DEF InlineHasMeaning
  <2> QED
    BY <1>1, <1>2, <2>1 DEF ObjOK
<1>6. ASSUME form # "inline", meant[o] # None, ~(Kept(o, m) /\ form = "hex")
      PROVE  Reads(WireBytes(o, m), Resolve(OuterRules(m))) = meant[o]
  <2>1. CASE Derives(o, m) /\ CanEncode(EncodeKind(m))
    <3>1. inner[o] \in Value /\ inner[o] = meant[o]
      BY <1>1, <2>1 DEF Derives, ObjOK, TypeOK, MaybeValue
    <3>2. Resolve(OuterRules(m)) \in Rules /\ Dresses(EncodeKind(m)) \in Dress
      BY <1>1, OuterRulesType, ResolveType, DressesType DEF TypeOK
    <3> QED
      BY <2>1, <3>1, <3>2, ReadsPack DEF WireBytes
  <2>2. CASE ~(Derives(o, m) /\ CanEncode(EncodeKind(m)))
    <3>1. ~Edited(o) /\ WireBytes(o, m) = raw[o]
      BY <1>3, <2>2 DEF WireBytes
    <3>2. Reads(raw[o], ReadIn(o)) = meant[o] /\ rawEnc[o] # "Outer"
      BY <1>1, <1>6, <3>1 DEF ObjOK
    <3>3. ~OtherRules(o, m)
      <4>1. CASE form = "hex"
        BY <1>6, <2>2, <4>1 DEF Kept, Derives
      <4>2. CASE form # "hex"
        <5>1. m = "Text" /\ inner[o] # None
          BY <1>2, <4>2
        <5>2. CASE CanEncode(EncodeKind(m))
          BY <2>2, <5>1, <5>2 DEF Derives
        <5>3. CASE ~CanEncode(EncodeKind(m))
          BY <1>1, <3>1, <5>1, <5>3, InlineIsNotKept
        <5> QED
          BY <5>2, <5>3
      <4> QED
        BY <4>1, <4>2
    <3>4. ReadIn(o) = Resolve(OuterRules(m))
      BY <1>1, <3>2, <3>3, RulesResolve DEF TypeOK, OtherRules, ReadIn, Resolve
    <3> QED
      BY <3>1, <3>2, <3>4
  <2> QED
    BY <2>1, <2>2
<1>7. CarriesMeaning'
  <2>1. Resolve(OuterRules(m))' = Resolve(OuterRules(m))
    BY DEF Encode, Resolve, OuterRules
  <2>2. form # "hex" => inner[o] = meant[o]
    BY <1>1, <1>2 DEF ObjOK
  <2>3. (wire'.meant # None =>
           /\ form # "inline" => Reads(WireBytes(o, m), Resolve(OuterRules(m))) = wire'.meant
           /\ form # "hex" => inner[o] = wire'.meant)
        => CarriesMeaning'
    BY <1>2 DEF CarriesMeaning, Encode, Resolve, Reads
  <2> QED
    BY <1>2, <1>6, <2>2, <2>3
<1>8. EditsAreDressed'
  <2>1. SUFFICES ASSUME Edited(o)
                 PROVE  WireBytes(o, m) # None /\ WireBytes(o, m).dress = Dresses(field.app)
    <3>1. Dresses(field.app)' = Dresses(field.app)
      BY DEF Encode, Dresses
    <3> QED
      BY <1>2, <3>1 DEF EditsAreDressed
  <2>2. inner[o] \in Value
    BY <1>1, <2>1 DEF Edited, TypeOK, MaybeValue
  <2>3. Resolve(OuterRules(m)) \in Rules /\ Dresses(EncodeKind(m)) \in Dress
    BY <1>1, OuterRulesType, ResolveType, DressesType DEF TypeOK
  <2> QED
    BY <1>3, <2>1, <2>2, <2>3, ReadsPack DEF WireBytes
<1> QED
  BY <1>4, <1>5, <1>7, <1>8 DEF WireOK

LEMMA PeerStep ==
    ASSUME IInv, NEW m \in Outer, NEW form \in Form, NEW b \in Given, NEW v \in MaybeValue,
           PeerSends(m, form, b, v)
    PROVE  WireOK'
<1>1. /\ wire'.outer = m /\ wire'.form = form /\ wire'.bytes = b /\ wire'.value = v
      /\ wire'.edited = FALSE /\ wire'.meant = v
      /\ wire'.origin = IF form = "inline" THEN None ELSE b
  BY DEF PeerSends
<1>2. WireOrigin' /\ InlineHasMeaning' /\ EditsAreDressed'
  BY <1>1 DEF PeerSends, WireOrigin, InlineHasMeaning, EditsAreDressed
<1>3. form # "hex" => Reads(b, Resolve(OuterRules(m))) = v
  BY DEF PeerSends, OuterRules
<1>4. CarriesMeaning'
  BY <1>1, <1>3 DEF CarriesMeaning, PeerSends, Resolve, Reads
<1> QED
  BY <1>2, <1>4 DEF WireOK

\* Objects: what a decode leaves.
LEMMA ReceiveStep ==
    ASSUME IInv, NEW o \in Obj, Receive(o)
    PROVE  \A p \in Obj : ObjOK(p)'
<1>1. /\ field' = field /\ wire' = wire /\ TypeOK /\ InlineIsText
      /\ WireOrigin /\ InlineHasMeaning /\ CarriesMeaning
      /\ \A p \in Obj : ObjOK(p)
  BY PerObject DEF TInv, WireOK, Receive, DecodeBytes, DecodeInline, DecodeInlineFails
<1>2. ASSUME NEW wanted \in BOOLEAN, DecodeBytes(o, wanted), NEW p \in Obj
      PROVE  ObjOK(p)'
  <2> DEFINE r == OuterRules(wire.outer)
             v == Decoding(field.app, wire.bytes, Resolve(r))
             asked == field.eager /\ wanted /\ field.app # "none"
  <2>1. wire \in Message /\ wire # None /\ wire.form = "hex"
    BY <1>1, <1>2 DEF DecodeBytes, TypeOK
  <2>2. v # None => v = Reads(wire.bytes, Resolve(r))
    BY <1>1, <2>1, OuterRulesType, ResolveType, DecodingType DEF Message, TypeOK
  <2>3. wire.meant # None => Reads(wire.bytes, Resolve(r)) = wire.meant
    BY <1>1, <2>1 DEF CarriesMeaning
  <2>4. field.app = "absent" => v = None
    BY DEF Decoding, Opens
  <2>5. p # o => ObjOK(p)'
    BY <1>1, <1>2 DEF DecodeBytes, Assigned, ObjOK, Edited, ReadIn, Resolve, TypeOK, Reads
  <2>6. p = o => ObjOK(p)'
    <3>1. /\ raw'[o] = wire.bytes /\ inner'[o] = IF asked THEN v ELSE None
          /\ rawEnc'[o] = r /\ o \notin dirty' /\ o \notin spoiled'
          /\ origin'[o] = wire.origin
          /\ meant'[o] = IF wire.meant = None /\ asked THEN v ELSE wire.meant
      BY <1>1, <1>2 DEF DecodeBytes, Assigned, TypeOK
    <3>2. ReadIn(o)' = Resolve(r) /\ r # "Outer"
      BY <1>1, <3>1, RulesResolve DEF ReadIn, Resolve, TypeOK
    <3>3. wire.origin # None => wire.bytes = wire.origin
      BY <1>1, <2>1 DEF WireOrigin
    <3>4. inner'[o] # None => inner'[o] = meant'[o]
      BY <2>2, <2>3, <3>1
    <3>5. meant'[o] # None => Reads(raw'[o], Resolve(r)) = meant'[o]
      BY <2>2, <2>3, <3>1
    <3>6. inner'[o] # None => field.app \notin {"none", "absent"}
      BY <2>4, <3>1
    <3>7. Reads(raw[o], ReadIn(o))' = Reads(raw'[o], Resolve(r))
      BY <3>2 DEF Reads
    <3> QED
      BY <1>1, <3>1, <3>2, <3>3, <3>4, <3>5, <3>6, <3>7 DEF ObjOK, Edited
  <2> QED
    BY <2>5, <2>6
<1>3. ASSUME DecodeInline(o), NEW p \in Obj
      PROVE  ObjOK(p)'
  <2> DEFINE r == Resolve("Ber")
             b == IF wire.form = "inline_raw" THEN wire.bytes ELSE Pack(r, wire.value, "bare")
  <2>1. wire \in Message /\ wire # None /\ wire.form # "hex"
    BY <1>1, <1>3 DEF DecodeInline, TypeOK
  <2>2. p # o => ObjOK(p)'
    BY <1>1, <1>3 DEF DecodeInline, Assigned, ObjOK, Edited, ReadIn, Resolve, TypeOK, Reads
  <2>3. p = o => ObjOK(p)'
    <3>1. /\ raw'[o] = b /\ inner'[o] = wire.value /\ rawEnc'[o] = r
          /\ o \notin dirty' /\ o \notin spoiled'
          /\ origin'[o] = wire.origin /\ meant'[o] = wire.meant
      BY <1>1, <1>3 DEF DecodeInline, Assigned, TypeOK
    <3>2. /\ wire.value \in Value /\ wire.meant = wire.value /\ OuterRules(wire.outer) = "Ber"
          /\ r \in Rules
      BY <1>1, <2>1, ResolveType
         DEF InlineIsText, InlineHasMeaning, CarriesMeaning, Message, MaybeValue, OuterRules,
             Rules, TypeOK
    <3>3. Reads(b, r) = wire.value
      <4>1. CASE wire.form = "inline_raw"
        BY <1>1, <2>1, <3>2, <4>1 DEF CarriesMeaning, InlineHasMeaning
      <4>2. CASE wire.form # "inline_raw"
        BY <3>2, <4>2, ReadsPack DEF Dress
      <4> QED
        BY <4>1, <4>2
    <3>4. ReadIn(o)' = r /\ r # "Outer"
      BY <1>1, <3>1, RulesResolve DEF ReadIn, Resolve, TypeOK
    <3>5. wire.origin # None => b = wire.origin
      BY <1>1, <2>1 DEF WireOrigin, Message, Form
    <3>6. Reads(raw[o], ReadIn(o))' = Reads(raw'[o], r)
      BY <3>4 DEF Reads
    <3>7. field.encoding = "Outer" => r = "Ber"
      BY DEF Resolve
    <3> QED
      BY <1>1, <3>1, <3>2, <3>3, <3>4, <3>5, <3>6, <3>7 DEF ObjOK, Edited
  <2> QED
    BY <2>2, <2>3
<1>4. ASSUME NEW v \in Value, DecodeInlineFails(o, v), NEW p \in Obj
      PROVE  ObjOK(p)'
  BY <1>1, <1>4 DEF DecodeInlineFails, ObjOK, Edited, ReadIn, Resolve, TypeOK, Reads
<1> QED
  BY <1>2, <1>3, <1>4 DEF Receive

\* Objects: what the application leaves.
LEMMA ModifyStep ==
    ASSUME IInv, NEW o \in Obj, Modify(o)
    PROVE  \A p \in Obj : ObjOK(p)'
<1>1. /\ field' = field /\ TypeOK
      /\ \A p \in Obj : ObjOK(p)
  BY PerObject DEF TInv, Modify, Set, SetValue, Fill, Copy, Move
<1> USE <1>1 DEF ObjOK, Edited, ReadIn, Resolve, TypeOK, Reads
<1>2. ASSUME NEW b \in Given, Set(o, b), NEW p \in Obj PROVE ObjOK(p)'
  BY <1>2 DEF Set, Assigned
<1>3. ASSUME NEW v \in Value, SetValue(o, v), NEW p \in Obj PROVE ObjOK(p)'
  BY <1>3, NoneAssumption DEF SetValue, NoneAssumption
<1>4. ASSUME NEW v \in Value, NEW padded \in BOOLEAN, Fill(o, v, padded), NEW p \in Obj
      PROVE  ObjOK(p)'
  <2> DEFINE r == Resolve("Ber")
             d == IF padded THEN "zeros" ELSE Dresses(field.default)
  <2>1. p # o => ObjOK(p)'
    BY <1>4 DEF Fill, Assigned
  <2>2. /\ raw'[o] = Pack(r, v, d) /\ inner'[o] = v /\ rawEnc'[o] = r /\ o \notin dirty'
        /\ o \notin spoiled' /\ origin'[o] = Pack(r, v, d) /\ meant'[o] = v
    BY <1>4 DEF Fill, Assigned
  <2>3. r \in Rules /\ d \in Dress
    BY ResolveType, DressesType DEF Dress, Rules
  <2>4. Pack(r, v, d) # None /\ Reads(Pack(r, v, d), r) = v
    BY <2>3, ReadsPack
  <2>5. ReadIn(o)' = r /\ r # "Outer"
    BY <2>2, RulesResolve
  <2>6. Reads(raw[o], ReadIn(o))' = Reads(raw'[o], r)
    BY <2>5 DEF Reads
  <2>7. field.encoding = "Outer" => r = "Ber"
    BY DEF Resolve
  <2>8. p = o => ObjOK(p)'
    <3> SUFFICES ObjOK(o)'
      OBVIOUS
    <3>1. inner'[o] = meant'[o] /\ o \notin dirty' /\ raw'[o] = origin'[o] /\ rawEnc'[o] # "Outer"
      <4>1. r # "Outer"
        BY <2>5
      <4> HIDE DEF r, d
      <4> QED
        BY <2>2, <4>1
    <3>2. Reads(raw[o], ReadIn(o))' = meant'[o]
      <4>1. Reads(raw'[o], r) = v /\ meant'[o] = v
        BY <2>2, <2>4
      <4> HIDE DEF r, d
      <4> QED
        BY <2>6, <4>1
    <3>3. field'.encoding = "Outer" => rawEnc'[o] = "Ber"
      BY <1>1, <2>2, <2>7
    <3> QED
      BY <3>1, <3>2, <3>3 DEF ObjOK
  <2> QED
    BY <2>1, <2>8
<1>5. ASSUME NEW src \in Obj, Copy(o, src), NEW p \in Obj PROVE ObjOK(p)'
  BY <1>5 DEF Copy, Transfer
<1>6. ASSUME NEW src \in Obj, Move(o, src), NEW p \in Obj PROVE ObjOK(p)'
  BY <1>6 DEF Move, Transfer
<1> QED
  BY <1>2, <1>3, <1>4, <1>5, <1>6 DEF Modify

-----------------------------------------------------------------------------
LEMMA InitIInv == Init => IInv
<1> SUFFICES ASSUME Init PROVE IInv
  OBVIOUS
<1>1. TInv
  BY DEF Init, TypeOK, TInv, InlineIsText, MaybeBytes, MaybeValue, Status
<1>2. WireOK
  BY DEF Init, WireOK, WireOrigin, InlineHasMeaning, CarriesMeaning, EditsAreDressed
<1>3. \A o \in Obj : ObjOK(o)
  BY DEF Init, ObjOK
<1> QED
  BY <1>1, <1>2, <1>3, PerObject

LEMMA WireUnchanged ==
    ASSUME IInv, field' = field, wire' = wire
    PROVE  WireOK'
BY DEF IInv, WireOK, WireOrigin, InlineHasMeaning, CarriesMeaning, EditsAreDressed, Reads,
       Resolve, OuterRules, Dresses

LEMMA ObjectsUnchanged ==
    ASSUME IInv, field' = field, UNCHANGED objVars
    PROVE  \A o \in Obj : ObjOK(o)'
BY PerObject DEF objVars, ObjOK, Edited, ReadIn, Resolve, Reads

\* The fields' configuration is fixed, so the induction is over sound fields.
THEOREM Invariance ==
    ASSUME SoundFields
    PROVE  Spec => []IInv
<1>1. IInv /\ [Next]_vars => IInv'
  <2> SUFFICES ASSUME IInv, [Next]_vars PROVE IInv'
    OBVIOUS
  <2>1. TInv'
    BY TypeStep DEF IInv
  <2>2. ASSUME NEW o \in Obj, Receive(o) PROVE IInv'
    <3>1. WireOK'
      BY <2>2, WireUnchanged DEF Receive, DecodeBytes, DecodeInline, DecodeInlineFails
    <3> QED
      BY <2>1, <2>2, <3>1, ReceiveStep, PerObjectAfter
  <2>3. ASSUME NEW o \in Obj, Modify(o) PROVE IInv'
    <3>1. WireOK'
      BY <2>3, WireUnchanged DEF Modify, Set, SetValue, Fill, Copy, Move
    <3> QED
      BY <2>1, <2>3, <3>1, ModifyStep, PerObjectAfter
  <2>4. ASSUME NEW o \in Obj, NEW m \in Outer, NEW form \in Form, Encode(o, m, form)
        PROVE  IInv'
    <3>1. \A p \in Obj : ObjOK(p)'
      BY <2>4, ObjectsUnchanged DEF Encode
    <3> QED
      BY <2>1, <2>4, <3>1, EncodeStep, PerObjectAfter
  <2>5. ASSUME NEW m \in Outer, NEW form \in Form, NEW b \in Given, NEW v \in MaybeValue,
               PeerSends(m, form, b, v)
        PROVE  IInv'
    <3>1. \A p \in Obj : ObjOK(p)'
      BY <2>5, ObjectsUnchanged DEF PeerSends
    <3> QED
      BY <2>1, <2>5, <3>1, PeerStep, PerObjectAfter
  <2>6. CASE UNCHANGED vars
    <3>1. WireOK' /\ \A p \in Obj : ObjOK(p)'
      BY <2>6, WireUnchanged, ObjectsUnchanged DEF vars
    <3> QED
      BY <2>1, <3>1, PerObjectAfter
  <2> QED
    BY <2>2, <2>3, <2>4, <2>5, <2>6 DEF Next, Send, Peer
<1> QED
  BY <1>1, InitIInv, PTL DEF Spec

\* However many messages in however many encodings lie between them, a
\* program reads the value the last program to set it meant.
THEOREM Meaning ==
    ASSUME SoundFields
    PROVE  Spec => [](Understood /\ CarriesMeaning)
<1>1. IInv => Understood /\ CarriesMeaning
  BY DEF IInv
<1> QED
  BY <1>1, Invariance, PTL

\* The two copies of an unmodified value agree.
THEOREM Coherence ==
    ASSUME SoundFields
    PROVE  Spec => []Coherent
<1>1. IInv => Coherent
  BY DEF IInv, TInv, Understood, BytesMean, Edited, ReadIn, Coherent
<1> QED
  BY <1>1, Invariance, PTL

\* A modified value is written through its own decoder's encode side.
THEOREM Dressing ==
    ASSUME SoundFields
    PROVE  Spec => []EditsAreDressed
<1>1. IInv => EditsAreDressed
  BY DEF IInv
<1> QED
  BY <1>1, Invariance, PTL

\* Bytes nobody modified come out as they went in.
THEOREM Preservation ==
    ASSUME SoundFields
    PROVE  Spec => []BytesKept
<1>1. IInv => BytesKept
  BY DEF IInv, OriginsMatch, WireOrigin, BytesKept
<1> QED
  BY <1>1, Invariance, PTL

=============================================================================
