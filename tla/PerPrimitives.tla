--------------------------- MODULE PerPrimitives ----------------------------
(***************************************************************************)
(* The unaligned PER encoding of the builtin types (PerCodec.cpp), as bits *)
(* laid out by a Constraints table.  Counts stay in the one-octet form of  *)
(* a length and below the 64K at which SIZE stops being visible; PerLength *)
(* has the other forms.                                                    *)
(***************************************************************************)
EXTENDS Primitives

-----------------------------------------------------------------------------
(* Bits.  A write keeps the low w bits of n.  A read past the end gives 0s  *)
(* and leaves the place beyond the end, where Read refuses the whole.       *)

PutBits(n, w) == [k \in 1 .. w |-> (n \div 2 ^ (w - k)) % 2]

GetBits(bits, at, w) ==
    FoldLeft(LAMBDA n, k : 2 * n + (IF at + k \in DOMAIN bits THEN bits[at + k] ELSE 0),
             0, [k \in 1 .. w |-> k - 1])

Bits(b) == [ok |-> TRUE, out |-> b]
EncodeFailed == [ok |-> FALSE, out |-> <<>>]
Found(v, at) == [ok |-> TRUE, v |-> v, at |-> at]
DecodeFailed == [ok |-> FALSE, v |-> <<>>, at |-> 1]

\* X.691 10.8, two's complement in the fewest octets after their number.
OctetsFor(n) == Min({k \in 1 .. Octets : n \in -(2 ^ (k * OctetBits - 1)) .. 2 ^ (k * OctetBits - 1) - 1})
UnconstrainedInt(n) == PutBits(OctetsFor(n), OctetBits) \o PutBits(n, OctetsFor(n) * OctetBits)

DecodeUnconstrainedInt(bits, at) ==
    LET len == GetBits(bits, at, OctetBits)
        w == len * OctetBits
        n == GetBits(bits, at + OctetBits, w)
    IN IF len \notin 1 .. Octets THEN DecodeFailed
       ELSE Found(<<IF n >= 2 ^ (w - 1) THEN n - 2 ^ w ELSE n>>, at + OctetBits + w)

\* X.691 10.7, the offset from the lower bound.
SemiOctets(n) == Min({k \in 1 .. Octets : n < 2 ^ (k * OctetBits)})
SemiConstrainedInt(n) == PutBits(SemiOctets(n), OctetBits) \o PutBits(n, SemiOctets(n) * OctetBits)

DecodeSemiConstrainedInt(bits, at) ==
    LET len == GetBits(bits, at, OctetBits)
        n == GetBits(bits, at + OctetBits, len * OctetBits)
    IN IF len = 0 \/ n > MaxU THEN DecodeFailed ELSE Found(<<n>>, at + OctetBits * (len + 1))

IntegerPerEncode(table, n) ==
    LET ranged == Has(table, "CONSTRAINED")
        inRoot == n >= Lower(table) /\ (ranged => n <= Upper(table))
        root   == IF ranged THEN PutBits(n - Lower(table), table.bits)
                  ELSE SemiConstrainedInt(Unsigned(n - Lower(table)))
        plain  == UnconstrainedInt(Signed(Unsigned(n)))
    IN CASE ~ranged /\ ~Has(table, "SEMI_CONSTRAINED") -> plain
         [] (ranged \/ Has(table, "SEMI_CONSTRAINED")) /\ Has(table, "EXTENSIBLE") ->
                IF inRoot THEN <<0>> \o root ELSE <<1>> \o plain
         [] OTHER -> root

IntegerPerDecode(table, bits) ==
    LET ranged == Has(table, "CONSTRAINED")
        semi   == Has(table, "SEMI_CONSTRAINED")
        ext    == (ranged \/ semi) /\ Has(table, "EXTENSIBLE")
        at     == IF ext THEN 2 ELSE 1
        plain  == DecodeUnconstrainedInt(bits, at)
        offset == DecodeSemiConstrainedInt(bits, at)
        room   == (IF table.kind = "U64" THEN MaxU ELSE MaxS) - Lower(table)
    IN CASE (~ranged /\ ~semi) \/ (ext /\ GetBits(bits, 1, 1) = 1) ->
                IF plain.ok THEN [plain EXCEPT !.v = <<AsStorage(table, @[1])>>] ELSE plain
         [] ranged /\ ~(ext /\ GetBits(bits, 1, 1) = 1) ->
                Found(<<AsStorage(table, Lower(table) + GetBits(bits, at, table.bits))>>, at + table.bits)
         [] OTHER ->
                IF ~offset.ok \/ offset.v[1] > room THEN DecodeFailed
                ELSE [offset EXCEPT !.v = <<AsStorage(table, Lower(table) + @[1])>>]

-----------------------------------------------------------------------------
(* SIZE and the strings.                                                    *)

SizeSeen(table) == Has(table, "SIZE_CONSTRAINED")
InSize(table, n) == n \in table.slo .. table.shi

GeneralLength(n, items) == Bits(PutBits(n, OctetBits) \o items)

\* Broken form for the mutants: a count outside SIZE keeps its low bits.
CutSizeAndItems(table, n, items) ==
    IF SizeSeen(table) THEN Bits(PutBits(n - table.slo, table.sbits) \o items) ELSE GeneralLength(n, items)

\* encode_size_and_items: a count the constrained form cannot say fails.
SizeAndItems(table, n, items) ==
    CASE ~SizeSeen(table) -> GeneralLength(n, items)
      [] SizeSeen(table) /\ ~InSize(table, n) -> EncodeFailed
      [] OTHER -> Bits(PutBits(n - table.slo, table.sbits) \o items)

\* With the extension bit of OCTET STRING and BIT STRING in front.
ExtSizeAndItems(table, n, items) ==
    LET root == SizeAndItems(table, n, items) IN
    CASE ~(SizeSeen(table) /\ Has(table, "EXTENSIBLE")) -> root
      [] SizeSeen(table) /\ Has(table, "EXTENSIBLE") /\ InSize(table, n) -> Bits(<<0>> \o root.out)
      [] OTHER -> Bits(<<1>> \o GeneralLength(n, items).out)

\* Broken form for the mutants: the lower bound is not added back.
OffsetSizeAt(table, bits, at) ==
    IF SizeSeen(table) THEN Found(<<GetBits(bits, at, table.sbits)>>, at + table.sbits)
    ELSE Found(<<GetBits(bits, at, OctetBits)>>, at + OctetBits)

\* The count read at a place, as its value, and the place of the first item.
SizeAt(table, bits, at) ==
    IF SizeSeen(table) THEN Found(<<table.slo + GetBits(bits, at, table.sbits)>>, at + table.sbits)
    ELSE Found(<<GetBits(bits, at, OctetBits)>>, at + OctetBits)

ExtSizeAt(table, bits) ==
    CASE ~(SizeSeen(table) /\ Has(table, "EXTENSIBLE")) -> SizeAt(table, bits, 1)
      [] SizeSeen(table) /\ Has(table, "EXTENSIBLE") /\ GetBits(bits, 1, 1) = 0 -> SizeAt(table, bits, 2)
      [] OTHER -> SizeAt(NoTable, bits, 2)

\* count items of w bits each.
Items(bits, size, w) ==
    Found([k \in 1 .. size.v[1] |-> GetBits(bits, size.at + (k - 1) * w, w)], size.at + size.v[1] * w)

BitStringPerEncode(table, v) ==
    LET sent == IF Has(table, "NAMED_BITS") THEN NormalizeNamedBits(table, v) ELSE v
    IN ExtSizeAndItems(table, Len(sent), sent)

Spread(v, w) == FlattenSeq([i \in DOMAIN v |-> PutBits(v[i], w)])

OctetStringPerEncode(table, v) == ExtSizeAndItems(table, Len(v), Spread(v, OctetBits))

\* Bits of a character and octets a character is stored in.
CharacterBits(builtin) == IF builtin = "IA5String" THEN OctetBits - 1 ELSE OctetBits
UnitOctets(builtin) == IF builtin = "BMPString" THEN 2 ELSE 1

HasAlphabet(table) == table.abits > 0

\* Where c's octet stands in the alphabet, from 0; the last of duplicates.
IndexIn(table, c) == Max({k \in DOMAIN table.alpha : table.alpha[k] = c}) - 1

\* The characters as the handler looks at them: an alphabet is asked about
\* their low octet, once the high one is found to be zero.
StringUnits(builtin, s) == IF builtin = "BMPString" THEN CodePoints(builtin, s) ELSE s
InAlphabet(builtin, table, s) == ToSet(StringUnits(builtin, s)) \subseteq ToSet(table.alpha)

\* The characters, by index into a FROM alphabet or octet by octet.
StringItems(builtin, table, s) ==
    IF HasAlphabet(table)
    THEN FlattenSeq([i \in DOMAIN StringUnits(builtin, s) |->
                        PutBits(IndexIn(table, StringUnits(builtin, s)[i]), table.abits)])
    ELSE Spread(s, CharacterBits(builtin))

\* StringPerHandler::encode below the extension bit and the invisible form.
VisibleStringEncode(builtin, table, s) ==
    LET n == Len(s) \div UnitOctets(builtin)
        closed == ~Has(table, "EXTENSIBLE")
    IN IF \/ SizeSeen(table) /\ closed /\ ~InSize(table, n)
          \/ builtin = "IA5String" /\ ~HasAlphabet(table) /\ closed /\ \E i \in DOMAIN s : s[i] > Ascii
          \/ HasAlphabet(table) /\ ~InAlphabet(builtin, table, s)
       THEN EncodeFailed
       ELSE SizeAndItems(table, n, StringItems(builtin, table, s))

StringPerEncode(builtin, table, s) ==
    LET plain  == VisibleStringEncode(builtin, NoTable, s)
        n      == Len(s) \div UnitOctets(builtin)
        inRoot == /\ SizeSeen(table) => InSize(table, n)
                  /\ HasAlphabet(table) => InAlphabet(builtin, table, s)
        hidden == Has(table, "PER_SIZE_INVISIBLE")
        ext    == Has(table, "EXTENSIBLE")
        chars  == CodePoints(builtin, s)
    IN CASE hidden ->
                IF \/ SizeSeen(table) /\ ~ext /\ ~InSize(table, Len(chars))
                   \/ HasAlphabet(table) /\ ~Spelled(table, chars)
                THEN EncodeFailed ELSE plain
         [] ~hidden /\ ext ->
                IF inRoot THEN Bits(<<0>> \o VisibleStringEncode(builtin, table, s).out)
                ELSE IF plain.ok THEN Bits(<<1>> \o plain.out) ELSE EncodeFailed
         [] OTHER -> VisibleStringEncode(builtin, table, s)

VisibleStringDecode(builtin, table, bits, at) ==
    LET size == SizeAt(table, bits, at)
        unit == UnitOctets(builtin)
        found == IF HasAlphabet(table) THEN Items(bits, size, table.abits)
                 ELSE Items(bits, [size EXCEPT !.v[1] = @ * unit], CharacterBits(builtin))
        index == found.v
    IN CASE ~HasAlphabet(table) -> found
         [] HasAlphabet(table) /\ (\E i \in DOMAIN index : index[i] >= Len(table.alpha)) -> DecodeFailed
         [] OTHER -> LET cps == [i \in DOMAIN index |-> table.alpha[index[i] + 1]]
                     IN [found EXCEPT !.v = IF unit = 2 THEN Wide(cps) ELSE cps]

StringPerDecode(builtin, table, bits) ==
    LET hidden == Has(table, "PER_SIZE_INVISIBLE")
        ext == Has(table, "EXTENSIBLE")
    IN CASE hidden -> VisibleStringDecode(builtin, NoTable, bits, 1)
         [] ~hidden /\ ext ->
                VisibleStringDecode(builtin, IF GetBits(bits, 1, 1) = 1 THEN NoTable ELSE table, bits, 2)
         [] OTHER -> VisibleStringDecode(builtin, table, bits, 1)

-----------------------------------------------------------------------------
(* ENUMERATED, by its place in the sorted numbers; an unknown number goes   *)
(* out as the first extension item.                                         *)

ShortFormBits == OctetBits - 2

\* A specification without a root count has every item in its root.
RootCount(spec) == IF spec.root > 0 THEN spec.root ELSE Len(spec.entries)

EnumeratedPerEncode(spec, n) ==
    LET known == {k \in DOMAIN spec.entries : spec.entries[k] = n}
        ordinal == IF known = {} THEN -1 ELSE Min(known) - 1
        isExt == ordinal < 0 \/ ordinal >= RootCount(spec)
    IN Bits((IF spec.ext THEN PutBits(IF isExt THEN 1 ELSE 0, 1) ELSE <<>>)
            \o (IF isExt THEN <<0>> \o PutBits(Max({0, ordinal - RootCount(spec)}), ShortFormBits)
                ELSE PutBits(ordinal, BitsFor(RootCount(spec) - 1))))

EnumeratedPerDecode(spec, bits) ==
    LET isExt == spec.ext /\ GetBits(bits, 1, 1) = 1
        at == IF spec.ext THEN 2 ELSE 1
        w == BitsFor(RootCount(spec) - 1)
        \* An extension item's number follows the small form's 0 bit.
        ordinal == IF isExt THEN RootCount(spec) + GetBits(bits, at + 1, ShortFormBits) ELSE GetBits(bits, at, w)
    IN IF ordinal >= (IF isExt THEN Len(spec.entries) ELSE RootCount(spec)) THEN DecodeFailed
       ELSE Found(<<spec.entries[ordinal + 1]>>, at + (IF isExt THEN 1 + ShortFormBits ELSE w))

-----------------------------------------------------------------------------
(* Dispatch.  A REAL's contents octets stand for its storage and number.    *)

RealBits == 2 * Width

PerEncode(def, table, v) ==
    CASE def.builtin = "NULL"         -> Bits(<<>>)
      [] def.builtin = "BOOLEAN"      -> Bits(PutBits(v[1], 1))
      [] def.builtin = "INTEGER"      -> Bits(IntegerPerEncode(table, v[1]))
      [] def.builtin = "REAL"         -> Bits(PutBits(v[1], 1) \o PutBits(v[2], RealBits))
      [] def.builtin = "ENUMERATED"   -> EnumeratedPerEncode(EnumeratedSpec(def), v[1])
      [] def.builtin = "BIT STRING"   -> BitStringPerEncode(table, v)
      [] def.builtin = "OCTET STRING" -> OctetStringPerEncode(table, v)
      [] OTHER                        -> StringPerEncode(def.builtin, table, v)

RealAt(bits) ==
    LET n == GetBits(bits, 2, RealBits)
    IN Found(<<GetBits(bits, 1, 1), IF n >= 2 ^ (RealBits - 1) THEN n - 2 ^ RealBits ELSE n>>, RealBits + 2)

PerDecode(def, table, bits) ==
    LET found ==
        CASE def.builtin = "NULL"         -> Found(<<>>, 1)
          [] def.builtin = "BOOLEAN"      -> Found(<<GetBits(bits, 1, 1)>>, 2)
          [] def.builtin = "INTEGER"      -> IntegerPerDecode(table, bits)
          [] def.builtin = "REAL"         -> RealAt(bits)
          [] def.builtin = "ENUMERATED"   -> EnumeratedPerDecode(EnumeratedSpec(def), bits)
          [] def.builtin = "BIT STRING"   -> Items(bits, ExtSizeAt(table, bits), 1)
          [] def.builtin = "OCTET STRING" -> Items(bits, ExtSizeAt(table, bits), OctetBits)
          [] OTHER                        -> StringPerDecode(def.builtin, table, bits)
    IN IF found.ok /\ found.at <= Len(bits) + 1 THEN found ELSE DecodeFailed
=============================================================================
