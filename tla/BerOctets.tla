----------------------------- MODULE BerOctets -----------------------------
(***************************************************************************)
(* BER on octets: identifier and length octets as BerWriter.hpp writes and *)
(* BerReader.hpp reads them, and the contents octets of the builtin types  *)
(* as the handlers of BerCodec.cpp and the BerTraits they call do.         *)
(*                                                                         *)
(* An octet has Bits bits (8 in the code).  An identifier octet is the     *)
(* constructed bit and a number, all ones for a long form; the two class   *)
(* bits are copied and compared like more bits of the number and are left  *)
(* out, so the number 0 is left to the end-of-contents octets.             *)
(***************************************************************************)
EXTENDS Integers, Sequences, FiniteSets, SequencesExt

CONSTANTS
    Bits,       \* bits of an octet (8)
    TagDigits,  \* octets of a long-form number that are read (5)
    TagBits,    \* width of Tag::number (32)
    LenOctets,  \* length octets that are read (8)
    FastLen,    \* length octets the fast path takes (4)
    IntOctets,  \* octets of an integer (8)
    ArcBits,    \* width of an OID arc (32)
    Forty       \* second arcs under 0 and 1 (40)

ASSUME OctetAssumption ==
    /\ {Bits, TagDigits, TagBits, LenOctets, FastLen, IntOctets, ArcBits, Forty} \subseteq Nat \ {0}
    /\ Bits >= 3 /\ FastLen <= LenOctets /\ LenOctets < 2 ^ (Bits - 1)

Full == 2 ^ Bits
Half == 2 ^ (Bits - 1)
LowMask == Half - 1

Tag(number, constructed) == [number |-> number, constructed |-> constructed]

\* n in base b, most significant digit first, at least one digit.
Digits(n, b) ==
    LET k == CHOOSE k \in 1 .. 16 : n < b ^ k /\ (k = 1 \/ n >= b ^ (k - 1))
    IN  [i \in 1 .. k |-> (n \div b ^ (k - i)) % b]

Number(ds, b) == FoldLeft(LAMBDA n, d : n * b + d, 0, ds)

\* Base 128, bit 8 set on every octet but the last.
Chained(n) == LET ds == Digits(n, Half)
              IN  [i \in DOMAIN ds |-> IF i < Len(ds) THEN Half + ds[i] ELSE ds[i]]

-----------------------------------------------------------------------------
(* Writing.                                                                *)

TagOctets(t) ==
    LET first == IF t.constructed THEN Half ELSE 0
    IN  IF t.number < LowMask THEN <<first + t.number>>
        ELSE <<first + LowMask>> \o Chained(t.number)

LengthOctets(n) ==
    IF n < Half THEN <<n>>
    ELSE LET ds == Digits(n, Full) IN <<Half + Len(ds)>> \o ds

Primitive(t, value) == TagOctets(t) \o LengthOctets(Len(value)) \o value

\* Mutant: a length of one octet also at 128.
CloseOffByOne(buf, at) ==
    LET content == SubSeq(buf, at + 3, Len(buf))
        n == Len(content)
        before == SubSeq(buf, 1, at - 1)
    IN  CASE n <= Half         -> before \o <<n % Full>> \o content
          [] n > Half /\ n < Full -> before \o <<Half + 1, n>> \o content
          [] OTHER             -> before \o <<Half + 2, n \div Full, n % Full>> \o content

\* Three octets were reserved at "at" for the length of what follows them:
\* close the gap, fill it, or widen it.
CloseLength(buf, at) ==
    LET content == SubSeq(buf, at + 3, Len(buf))
        n == Len(content)
        before == SubSeq(buf, 1, at - 1)
    IN  CASE n < Half                    -> before \o <<n>> \o content
          [] n >= Half /\ n < Full       -> before \o <<Half + 1, n>> \o content
          [] n >= Full /\ n < Full * Full ->
                before \o <<Half + 2, n \div Full, n % Full>> \o content
          [] OTHER                       -> before \o <<Half + Len(Digits(n, Full))>>
                                              \o Digits(n, Full) \o content

\* Octets of the identifier at p, in octets that were just written.
TagByteCount(buf, p) ==
    IF buf[p] % Half # LowMask THEN 1
    ELSE 1 + (CHOOSE k \in 1 .. Len(buf) - p :
                 buf[p + k] < Half /\ \A j \in 1 .. k - 1 : buf[p + j] >= Half)

\* IMPLICIT tagging: another identifier in place of the one at p.
ReplaceTag(buf, p, t) ==
    SubSeq(buf, 1, p - 1) \o TagOctets(t) \o SubSeq(buf, p + TagByteCount(buf, p), Len(buf))

-----------------------------------------------------------------------------
(* Reading.  A position is the index of the next octet; a reading that     *)
(* fails is Bad.                                                           *)

Bad == [ok |-> FALSE]

Avail(data, pos) == Len(data) - pos + 1

\* parse_tag_at, and read_tag's test for its sentinel.
ReadTag(data, pos) ==
    IF pos > Len(data) THEN Bad
    ELSE LET constructed == data[pos] >= Half
             low == data[pos] % Half
             ends == {k \in 1 .. TagDigits : pos + k <= Len(data) /\ data[pos + k] < Half}
         IN  IF low # LowMask
             THEN [ok |-> TRUE, tag |-> Tag(low, constructed), pos |-> pos + 1]
             ELSE IF ends = {} THEN Bad
             ELSE LET k == CHOOSE k \in ends : \A j \in ends : k <= j
                      num == Number([i \in 1 .. k |-> data[pos + i] % Half], Half) % 2 ^ TagBits
                  IN  IF num = 2 ^ TagBits - 1 THEN Bad
                      ELSE [ok |-> TRUE, tag |-> Tag(num, constructed), pos |-> pos + 1 + k]

ReadLength(data, pos) ==
    IF pos > Len(data) THEN Bad
    ELSE LET n == data[pos] - Half
         IN  IF n = 0 THEN [ok |-> TRUE, len |-> 0, indefinite |-> TRUE, pos |-> pos + 1]
             ELSE IF n < 0
             THEN [ok |-> TRUE, len |-> data[pos], indefinite |-> FALSE, pos |-> pos + 1]
             ELSE IF n > LenOctets \/ Avail(data, pos + 1) < n THEN Bad
             ELSE [ok |-> TRUE, len |-> Number(SubSeq(data, pos + 1, pos + n), Full),
                   indefinite |-> FALSE, pos |-> pos + 1 + n]

Tlv(tag, data, from, len, next, indefinite) ==
    [ok |-> TRUE, tag |-> tag, value |-> SubSeq(data, from, from + len - 1),
     pos |-> next, indefinite |-> indefinite]

\* One turn of the walk over the elements of an indefinite length, at position
\* pos with "open" lengths open, t and l the identifier and length there;
\* <<0, 0>> if it fails.
PastElement(data, pos, open, t, l) ==
    IF Avail(data, pos) < 2 THEN <<0, 0>>
    ELSE IF data[pos] = 0 /\ data[pos + 1] = 0 THEN <<pos + 2, open - 1>>
    ELSE IF ~t.ok THEN <<0, 0>>
    ELSE IF ~l.ok THEN <<0, 0>>
    ELSE IF l.indefinite THEN IF t.tag.constructed THEN <<l.pos, open + 1>> ELSE <<0, 0>>
    ELSE IF Avail(data, l.pos) < l.len THEN <<0, 0>> ELSE <<l.pos + l.len, open>>

\* The position behind the end-of-contents octets of the length read before p.
EndOfContents(data, p) ==
    LET step(pos, open, t) == PastElement(data, pos, open, t, ReadLength(data, t.pos))
        walk[q \in Nat \X Nat] ==
            IF q[2] = 0 THEN q[1] ELSE walk[step(q[1], q[2], ReadTag(data, q[1]))]
    IN  walk[<<p, 1>>]

\* What is behind the identifier t and the length l.
TlvAt(data, t, l) ==
    LET ended(end) == IF end = 0 THEN Bad ELSE Tlv(t.tag, data, l.pos, end - 2 - l.pos, end, TRUE)
    IN  IF ~l.ok THEN Bad
        ELSE IF l.indefinite THEN IF t.tag.constructed THEN ended(EndOfContents(data, l.pos)) ELSE Bad
        ELSE IF Avail(data, l.pos) < l.len THEN Bad
        ELSE Tlv(t.tag, data, l.pos, l.len, l.pos + l.len, FALSE)

SlowTlv(data, pos) ==
    LET after(t) == IF t.ok THEN TlvAt(data, t, ReadLength(data, t.pos)) ELSE Bad
    IN  after(ReadTag(data, pos))

\* Mutant: what is there of the contents is taken for them.
ClippedTlv(data, pos) ==
    IF Avail(data, pos) < 2 THEN Bad
    ELSE IF data[pos] % Half = LowMask \/ data[pos + 1] >= Half THEN Bad
    ELSE LET there == Avail(data, pos) - 2
             len == IF data[pos + 1] < there THEN data[pos + 1] ELSE there
         IN  Tlv(Tag(data[pos] % Half, data[pos] >= Half), data, pos + 2, len, pos + 2 + len, FALSE)

\* One identifier octet, a definite length of few octets, and all there: read_tlv
\* reads those on its own.  Bad: not one of those.
FastTlv(data, pos) ==
    IF Avail(data, pos) < 2 THEN Bad
    ELSE LET tb == data[pos]
             nb == IF data[pos + 1] < Half THEN 0 ELSE data[pos + 1] - Half
             len == IF nb = 0 THEN data[pos + 1] ELSE Number(SubSeq(data, pos + 2, pos + 1 + nb), Full)
             from == pos + 2 + nb
         IN  IF \/ tb % Half = LowMask \/ data[pos + 1] = Half \/ nb > FastLen
                \/ Avail(data, pos) < 2 + nb
             THEN Bad
             ELSE IF Avail(data, pos) < 2 + nb + len THEN Bad
             ELSE Tlv(Tag(tb % Half, tb >= Half), data, from, len, from + len, FALSE)

ReadTlv(data, pos) == LET fast == FastTlv(data, pos)
                      IN  IF fast.ok THEN fast ELSE SlowTlv(data, pos)

-----------------------------------------------------------------------------
(* Contents octets.  Octets that stand for no value are Bad.               *)

Value(v) == [ok |-> TRUE, v |-> v]

\* Two's complement, most significant octet first.
Complement(n) == [i \in 1 .. IntOctets |-> (n \div Full ^ (IntOctets - i)) % Full]

\* Leading octets that repeat the sign of the next are left out.
IntegerContents(n) ==
    LET o == Complement(n)
        redundant(i) == o[i] = (IF n < 0 THEN Full - 1 ELSE 0) /\ ((o[i + 1] >= Half) <=> (n < 0))
        start == CHOOSE s \in 1 .. IntOctets :
                    /\ \A i \in 1 .. s - 1 : redundant(i)
                    /\ s = IntOctets \/ ~redundant(s)
    IN  SubSeq(o, start, IntOctets)

IntegerValue(o) ==
    IF o = <<>> \/ Len(o) > IntOctets THEN Bad
    ELSE Value(<<Number(o, Full) - (IF o[1] >= Half THEN Full ^ Len(o) ELSE 0)>>)

\* Unsigned: a zero octet in front when the first would read as a sign.
UIntegerContents(n) == LET ds == Digits(n, Full) IN IF ds[1] >= Half THEN <<0>> \o ds ELSE ds

UIntegerValue(o) ==
    LET padded == Len(o) = IntOctets + 1 /\ o[1] = 0
    IN  IF o = <<>> THEN Bad
        ELSE IF padded THEN Value(<<Number(Tail(o), Full)>>)
        ELSE IF Len(o) > IntOctets \/ o[1] >= Half THEN Bad
        ELSE Value(<<Number(o, Full)>>)

MaxArc == 2 ^ ArcBits - 1

\* decode_subid until the octets end; the first may be up to "first".
Subids(o, first) ==
    LET ends == SelectSeq([k \in DOMAIN o |-> k], LAMBDA k : o[k] < Half)
        from(i) == IF i = 1 THEN 1 ELSE ends[i - 1] + 1
        ids == [i \in DOMAIN ends |->
                   Number([j \in 1 .. ends[i] - from(i) + 1 |-> o[from(i) + j - 1] % Half], Half)]
    IN  IF \/ o # <<>> /\ o[Len(o)] >= Half
           \/ \E i \in DOMAIN ids : ids[i] > (IF i = 1 THEN first ELSE MaxArc)
        THEN Bad ELSE Value(ids)

\* The first two arcs share a subidentifier.
OidContents(arcs) ==
    LET ids == CASE Len(arcs) >= 2 -> <<arcs[1] * Forty + arcs[2]>> \o SubSeq(arcs, 3, Len(arcs))
                 [] Len(arcs) = 1  -> <<arcs[1] * Forty>>
                 [] OTHER          -> <<>>
    IN  FlattenSeq([i \in DOMAIN ids |-> Chained(ids[i])])

OidValue(o) ==
    LET ids == Subids(o, MaxArc + 2 * Forty)
    IN  IF o = <<>> THEN Value(<<>>)
        ELSE IF ~ids.ok THEN Bad
        ELSE LET f == ids.v[1]
                 x == IF f < 2 * Forty THEN f \div Forty ELSE 2
             IN  Value(<<x, f - x * Forty>> \o Tail(ids.v))

RelativeOidContents(arcs) == FlattenSeq([i \in DOMAIN arcs |-> Chained(arcs[i])])
RelativeOidValue(o) == Subids(o, MaxArc)

\* A bit string: how many bits of the last octet are not used, and the octets.
BitStringContents(b) == b

BitStringValue(o) ==
    IF o = <<>> THEN Bad
    ELSE IF o[1] >= Bits \/ (o[1] # 0 /\ Len(o) = 1) THEN Bad
    ELSE Value(o)
=============================================================================
