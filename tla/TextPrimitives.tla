--------------------------- MODULE TextPrimitives ---------------------------
(***************************************************************************)
(* The XER (XerCodec.cpp) and JER (JerCodec.cpp) forms of the builtin      *)
(* types.  A text is a sequence of tokens <<kind, number>>: the element's  *)
(* tags, JSON punctuation and literals, characters as their octets, and    *)
(* the escapes both syntaxes have.  Layout is left out.                    *)
(***************************************************************************)
EXTENDS Primitives

CONSTANTS Control,  \* characters written <nul/> (XER utf8) or \u00XX (JER)
          Markup,   \* characters XML spells as entities
          Quote     \* characters JSON spells with a backslash

ASSUME TextAssumption ==
    /\ \A s \in {Control, Markup, Quote} : s \subseteq 0 .. Ascii
    /\ Control \cap (Markup \cup Quote) = {}

Tok(kind) == <<kind, 0>>
Tokens(kind, v) == [i \in DOMAIN v |-> <<kind, v[i]>>]
Numbers(text) == [i \in DOMAIN text |-> text[i][2]]
Kinds(text) == {text[i][1] : i \in DOMAIN text}

Text(t) == [ok |-> TRUE, out |-> t]
Parsed(v) == [ok |-> TRUE, v |-> v]
ParseError == [ok |-> FALSE, v |-> <<>>]

\* The kind of string a builtin type is written as.
WideString == {"BMPString"}
HexString == {"GeneralString"}

\* n as std::from_chars reads it into the storage: out of range fails.
FromChars(table, n) ==
    IF n \in (IF table.kind = "U64" THEN 0 .. MaxU ELSE MinS .. MaxS) THEN Parsed(<<n>>) ELSE ParseError

\* The item n's place in the sorted numbers, or none.
ItemNumber(spec, n) == {k \in DOMAIN spec.entries : spec.entries[k] = n}

-----------------------------------------------------------------------------
(* XER characters                                                           *)

XerEscape(s) == [i \in DOMAIN s |-> <<IF s[i] \in Markup THEN "entity" ELSE "char", s[i]>>]

\* Text runs of the utf8 instruction, control characters as empty elements.
WriteUtf8Text(s) ==
    [i \in DOMAIN s |-> <<CASE s[i] \in Markup -> "entity" [] s[i] \in Control -> "empty" [] OTHER -> "char", s[i]>>]

\* A named entity is its character, a numbered one a code point in UTF-8.
XerUnescape(text) ==
    FlattenSeq([i \in DOMAIN text |-> IF text[i][1] = "numbered" THEN Utf8(text[i][2]) ELSE <<text[i][2]>>])

\* read_text_content stops at any tag, so a simple element has only text.
PlainText == {"char", "entity", "numbered", "hex", "number", "digit"}

\* BMPString's text is its characters' UTF-8.
WideToUtf8(s) == FlattenSeq([i \in DOMAIN CodePoints("BMPString", s) |-> Utf8(CodePoints("BMPString", s)[i])])
Utf8ToWide(s) == Wide(Utf8Points(s, 1))

\* Base64: the bits in digits two bits narrower than an octet, the last padded.
DigitBits == OctetBits - 2
BitsOf(v) == FlattenSeq([i \in DOMAIN v |-> [k \in 1 .. OctetBits |-> (v[i] \div 2 ^ (OctetBits - k)) % 2]])

\* bits in groups of w, the last filled with 0s.
Grouped(bits, w) ==
    [g \in 1 .. (Len(bits) + w - 1) \div w |->
        FoldLeft(LAMBDA n, k : 2 * n + (IF (g - 1) * w + k \in DOMAIN bits THEN bits[(g - 1) * w + k] ELSE 0),
                 0, [k \in 1 .. w |-> k])]

Base64Encode(v) == Grouped(BitsOf(v), DigitBits)

\* An octet as soon as its bits are there; what is left over is dropped.
Base64Decode(digits) ==
    LET bits == FlattenSeq([i \in DOMAIN digits |->
                               [k \in 1 .. DigitBits |-> (digits[i] \div 2 ^ (DigitBits - k)) % 2]])
    IN Grouped(SubSeq(bits, 1, (Len(bits) \div OctetBits) * OctetBits), OctetBits)

-----------------------------------------------------------------------------
(* XER elements.  Between <name> and </name>:                               *)

XerReal(v) ==
    CASE v[1] = Decimal -> Tokens("number", <<v[2]>>)
      [] v[1] # Decimal /\ v[2] \in {Infinity, -Infinity, NotANumber} -> Tokens("empty", <<v[2]>>)
      [] OTHER -> Tokens("number", <<v[2]>>)

XerOctetString(def, v) ==
    CASE def.xer = "base64" -> Tokens("digit", Base64Encode(v))
      [] def.xer = "utf8"   -> WriteUtf8Text(v)
      [] OTHER              -> Tokens("hex", v)

XerEnumerated(spec, n) ==
    LET at == ItemNumber(spec, n)
    IN IF at = {} THEN Tokens("number", <<n>>) ELSE Tokens("empty", <<Min(at)>>)

XerContent(def, v) ==
    CASE def.builtin = "NULL"         -> <<>>
      [] def.builtin = "BOOLEAN"      -> Tokens("empty", v)
      [] def.builtin = "INTEGER"      -> Tokens("number", v)
      [] def.builtin = "REAL"         -> XerReal(v)
      [] def.builtin = "ENUMERATED"   -> XerEnumerated(EnumeratedSpec(def), v[1])
      [] def.builtin = "BIT STRING"   -> Tokens("bit", v)
      [] def.builtin = "OCTET STRING" -> XerOctetString(def, v)
      [] def.builtin \in HexString    -> Tokens("hex", v)
      [] def.builtin \in WideString   -> XerEscape(WideToUtf8(v))
      [] OTHER                        -> XerEscape(v)

XerEncode(def, v) == Text(<<Tok("open")>> \o XerContent(def, v) \o <<Tok("close")>>)

\* A simple element has text between its tags, no other element.
IsSimpleText(inner) == Kinds(inner) \subseteq PlainText

XerRealValue(inner) ==
    IF Len(inner) = 1 /\ (inner[1][1] = "empty" => inner[1][2] \in {Infinity, -Infinity, NotANumber})
    THEN Parsed(<<Double, inner[1][2]>>) ELSE ParseError

XerEnumeratedValue(spec, inner) ==
    IF Len(inner) = 1 /\ inner[1][1] = "empty" /\ inner[1][2] \in DOMAIN spec.entries
    THEN Parsed(<<spec.entries[inner[1][2]]>>) ELSE ParseError

\* The standard's <true/>, and its text form only for a lenient stream.
XerBooleanValue(inner, lenient) ==
    IF Len(inner) = 1 /\ (inner[1][1] = "empty" \/ (lenient /\ inner[1][1] = "word"))
    THEN Parsed(<<inner[1][2]>>) ELSE ParseError

\* Bits, or for a lenient stream octets in hexadecimal (asn1c's form).
XerBitStringValue(inner, lenient) ==
    CASE Kinds(inner) \subseteq {"bit"} -> Parsed(Numbers(inner))
      [] Kinds(inner) = {"hex"} /\ lenient -> Parsed(BitsOf(Numbers(inner)))
      [] OTHER -> ParseError

XerUtf8Value(inner) ==
    IF Kinds(inner) \subseteq PlainText \cup {"empty"} /\ (\A i \in DOMAIN inner :
            inner[i][1] = "empty" => inner[i][2] \in Control)
    THEN Parsed(XerUnescape(inner)) ELSE ParseError

XerSimpleValue(def, table, inner) ==
    CASE def.builtin = "INTEGER" -> IF Len(inner) = 1 THEN FromChars(table, inner[1][2]) ELSE ParseError
      [] def.builtin = "OCTET STRING" /\ def.xer = "base64" -> Parsed(Base64Decode(Numbers(inner)))
      [] (def.builtin = "OCTET STRING" /\ def.xer = "hex") \/ def.builtin \in HexString -> Parsed(Numbers(inner))
      [] def.builtin \in WideString -> Parsed(Utf8ToWide(XerUnescape(inner)))
      [] OTHER -> Parsed(XerUnescape(inner))

XerDecode(def, table, lenient, text) ==
    LET inner == SubSeq(text, 2, Len(text) - 1)
    IN CASE Len(text) < 2 \/ text[1] # Tok("open") \/ text[Len(text)] # Tok("close") -> ParseError
         [] def.builtin = "NULL"       -> IF inner = <<>> THEN Parsed(<<>>) ELSE ParseError
         [] def.builtin = "BOOLEAN"    -> XerBooleanValue(inner, lenient)
         [] def.builtin = "REAL"       -> XerRealValue(inner)
         [] def.builtin = "ENUMERATED" -> XerEnumeratedValue(EnumeratedSpec(def), inner)
         [] def.builtin = "BIT STRING" -> XerBitStringValue(inner, lenient)
         [] def.builtin = "OCTET STRING" /\ def.xer = "utf8" -> XerUtf8Value(inner)
         [] OTHER -> IF IsSimpleText(inner) THEN XerSimpleValue(def, table, inner) ELSE ParseError

-----------------------------------------------------------------------------
(* JER                                                                      *)

JsonEscape(s) ==
    [i \in DOMAIN s |-> <<CASE s[i] \in Quote -> "escape" [] s[i] \in Control -> "unicode" [] OTHER -> "char", s[i]>>]

Quoted(t) == <<Tok("quote")>> \o t \o <<Tok("quote")>>

\* What read_json_string gives: a \u escape is a code point in UTF-8.
JsonUnescape(t) ==
    FlattenSeq([i \in DOMAIN t |-> IF t[i][1] = "unicode" THEN Utf8(t[i][2]) ELSE <<t[i][2]>>])

IsQuoted(text) == Len(text) >= 2 /\ text[1] = Tok("quote") /\ text[Len(text)] = Tok("quote")
Unquoted(text) == SubSeq(text, 2, Len(text) - 1)

\* The length of a fixed SIZE, or -1.
FixedSize(table) ==
    IF Has(table, "SIZE_CONSTRAINED") /\ ~Has(table, "EXTENSIBLE") /\ table.slo = table.shi THEN table.slo ELSE -1

\* {"value": hex, "length": bits}, or the bare string when SIZE is fixed.
JerBitString(table, v) ==
    LET hex == Quoted(Tokens("hex", Grouped(v, OctetBits)))
    IN IF FixedSize(table) >= 0 /\ Len(v) = FixedSize(table) THEN hex
       ELSE <<Tok("object")>> \o hex \o <<<<"length", Len(v)>>>>

\* The first n bits of octets, missing octets being 0.
FirstBits(octets, n) == [k \in 1 .. n |-> IF k \in DOMAIN BitsOf(octets) THEN BitsOf(octets)[k] ELSE 0]

JerBitStringValue(table, text) ==
    LET n == FixedSize(table)
        octets == Numbers(Unquoted(text))
        object == SubSeq(text, 2, Len(text) - 1)
    IN CASE IsQuoted(text) ->
                IF n < 0 \/ Len(octets) # (n + OctetBits - 1) \div OctetBits THEN ParseError
                ELSE Parsed(FirstBits(octets, n))
         [] ~IsQuoted(text) /\ text[1] = Tok("array") -> Parsed(<<>>)
         [] ~IsQuoted(text) /\ text[1] = Tok("object") /\ IsQuoted(object) /\ text[Len(text)][1] = "length" ->
                Parsed(FirstBits(Numbers(Unquoted(object)), text[Len(text)][2]))
         [] OTHER -> ParseError

JerReal(table, v) ==
    CASE v[1] = Decimal ->
            IF Has(table, "REAL_BASE_10") THEN Tokens("number", <<v[2]>>) ELSE <<Tok("object"), <<"number", v[2]>> >>
      [] v[1] # Decimal /\ v[2] \in {Infinity, -Infinity, NotANumber} -> Quoted(Tokens("special", <<v[2]>>))
      [] OTHER -> Tokens("number", <<v[2]>>)

JerRealValue(table, text) ==
    CASE text[1] = Tok("object") -> Parsed(<<Decimal, text[2][2]>>)
      [] IsQuoted(text) -> Parsed(<<Double, text[2][2]>>)
      [] OTHER -> Parsed(<<IF Has(table, "REAL_BASE_10") THEN Decimal ELSE Double, text[1][2]>>)

JerEnumerated(spec, n) ==
    LET at == ItemNumber(spec, n)
    IN IF at = {} THEN Tokens("number", <<n>>) ELSE Quoted(Tokens("item", <<Min(at)>>))

\* A bare number is taken whether or not it names an item.
JerEnumeratedValue(spec, text) ==
    CASE IsQuoted(text) ->
            IF text[2][2] \in DOMAIN spec.entries THEN Parsed(<<spec.entries[text[2][2]]>>) ELSE ParseError
      [] OTHER -> Parsed(<<text[1][2]>>)

JerEncode(def, table, v) ==
    Text(CASE def.builtin = "NULL"         -> <<Tok("null")>>
           [] def.builtin = "BOOLEAN"      -> Tokens("word", v)
           [] def.builtin = "INTEGER"      -> Tokens("number", v)
           [] def.builtin = "REAL"         -> JerReal(table, v)
           [] def.builtin = "ENUMERATED"   -> JerEnumerated(EnumeratedSpec(def), v[1])
           [] def.builtin = "BIT STRING"   -> JerBitString(table, v)
           [] def.builtin = "OCTET STRING" \/ def.builtin \in HexString -> Quoted(Tokens("hex", v))
           [] def.builtin \in WideString   -> Quoted(JsonEscape(WideToUtf8(v)))
           [] OTHER                        -> Quoted(JsonEscape(v)))

\* read_json_token's text: one literal of the kind.
Literal(text, kind) == Len(text) = 1 /\ text[1][1] = kind

JerStringValue(def, text) ==
    CASE ~IsQuoted(text) -> ParseError
      [] IsQuoted(text) /\ (def.builtin = "OCTET STRING" \/ def.builtin \in HexString) -> Parsed(Numbers(Unquoted(text)))
      [] IsQuoted(text) /\ def.builtin \in WideString -> Parsed(Utf8ToWide(JsonUnescape(Unquoted(text))))
      [] OTHER -> Parsed(JsonUnescape(Unquoted(text)))

JerDecode(def, table, text) ==
    CASE def.builtin = "NULL"       -> IF Literal(text, "null") THEN Parsed(<<>>) ELSE ParseError
      [] def.builtin = "BOOLEAN"    -> IF Literal(text, "word") THEN Parsed(<<text[1][2]>>) ELSE ParseError
      [] def.builtin = "INTEGER"    -> IF Literal(text, "number") THEN FromChars(table, text[1][2]) ELSE ParseError
      [] def.builtin = "REAL"       -> JerRealValue(table, text)
      [] def.builtin = "ENUMERATED" -> JerEnumeratedValue(EnumeratedSpec(def), text)
      [] def.builtin = "BIT STRING" -> JerBitStringValue(table, text)
      [] OTHER                      -> JerStringValue(def, text)
=============================================================================
