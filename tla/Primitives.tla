----------------------------- MODULE Primitives -----------------------------
(***************************************************************************)
(* Values of the builtin types in the C++ runtime and their check against  *)
(* a Constraints table (Validate.hpp and the types' headers).              *)
(*                                                                         *)
(* A value is a sequence of numbers: an INTEGER, BOOLEAN or ENUMERATED its *)
(* one number, a REAL <<storage, number>>, a BIT STRING its bits, and the  *)
(* strings the octets they store.                                          *)
(***************************************************************************)
EXTENDS Constraining

Double == 0
Decimal == 1
NotANumber == 2 * Infinity

Octets == Width \div OctetBits

-----------------------------------------------------------------------------
(* Characters of a stored string.                                           *)

\* UTF-8 with octets of OctetBits: a trailing octet carries two bits fewer,
\* the first of two octets three fewer, the first of three four fewer.
Part == 2 ^ (OctetBits - 2)
Trailing == {2 ^ (OctetBits - 1) + k : k \in 0 .. Part - 1}
Lead2 == 3 * Part
Lead3 == 7 * 2 ^ (OctetBits - 3)
Lead4 == 15 * 2 ^ (OctetBits - 4)

Utf8(cp) ==
    LET trail(n) == 2 ^ (OctetBits - 1) + (n % Part) IN
    CASE cp <= Ascii -> <<cp>>
      [] cp > Ascii /\ cp \div Part < Lead3 - Lead2 -> <<Lead2 + cp \div Part, trail(cp)>>
      [] OTHER -> <<Lead3 + cp \div (Part * Part), trail(cp \div Part), trail(cp)>>

\* The octets the character at i takes: one where the form is broken.
Taken(s, i) ==
    LET want == CASE s[i] >= Lead2 /\ s[i] < Lead3 -> 2
                  [] s[i] >= Lead3 /\ s[i] < Lead4 -> 3
                  [] OTHER -> 1
    IN IF i + want - 1 <= Len(s) /\ \A k \in i + 1 .. i + want - 1 : s[k] \in Trailing
       THEN want ELSE 1

CodePoint(s, i) ==
    CASE Taken(s, i) = 1 -> s[i]
      [] Taken(s, i) = 2 -> (s[i] - Lead2) * Part + (s[i + 1] % Part)
      [] OTHER -> (s[i] - Lead3) * Part * Part + (s[i + 1] % Part) * Part + (s[i + 2] % Part)

RECURSIVE Utf8Points(_, _)
Utf8Points(s, i) == IF i > Len(s) THEN <<>> ELSE <<CodePoint(s, i)>> \o Utf8Points(s, i + Taken(s, i))

CodePoints(builtin, s) ==
    CASE builtin = "BMPString"  -> [i \in 1 .. Len(s) \div 2 |-> s[2 * i - 1] * 2 ^ OctetBits + s[2 * i]]
      [] builtin = "UTF8String" -> Utf8Points(s, 1)
      [] OTHER -> s

Wide(cps) == FlattenSeq([i \in DOMAIN cps |-> <<cps[i] \div 2 ^ OctetBits, cps[i] % 2 ^ OctetBits>>])

\* How a string type stores the characters cps.
Stored(builtin, cps) ==
    CASE builtin = "BMPString"  -> Wide(cps)
      [] builtin = "UTF8String" -> FlattenSeq([i \in DOMAIN cps |-> Utf8(cps[i])])
      [] OTHER -> cps

-----------------------------------------------------------------------------
(* asn1::validate: 0, or the signed distance to the bound broken.           *)

Has(table, flag) == flag \in table.flags

\* Distance of n to [lo, hi].
Distance(n, lo, hi) == CASE n < lo -> lo - n [] n >= lo /\ n > hi -> hi - n [] OTHER -> 0

Lower(table) == IF table.kind = "U64" THEN table.ulo ELSE table.lo
Upper(table) == IF table.kind = "U64" THEN table.uhi ELSE table.hi

\* n as the value's 64-bit storage holds it.
AsStorage(table, n) == IF table.kind = "U64" THEN Unsigned(n) ELSE Signed(Unsigned(n))

ValidateInteger(table, n) ==
    CASE Has(table, "EXTENSIBLE")       -> 0
      [] ~Has(table, "EXTENSIBLE") /\ Has(table, "CONSTRAINED")
                                        -> Distance(n, Lower(table), Upper(table))
      [] ~Has(table, "EXTENSIBLE") /\ Has(table, "SEMI_CONSTRAINED")
                                        -> Distance(n, Lower(table), Infinity)
      [] OTHER -> 0

\* The length of a value of count items against SIZE, unless it is extensible.
ValidateSize(table, count) ==
    CASE Has(table, "EXTENSIBLE") -> 0
      [] ~Has(table, "EXTENSIBLE") /\ Has(table, "SIZE_LOWER_BOUND") -> Distance(count, table.slo, Infinity)
      [] ~Has(table, "EXTENSIBLE") /\ Has(table, "SIZE_CONSTRAINED") -> Distance(count, table.slo, table.shi)
      [] OTHER -> 0

\* The characters a table lists; its encode_table has one entry for each octet.
Listed(table) == IF table.enc = "builtin" THEN 0 .. Ascii ELSE ToSet(table.alpha)
Spelled(table, cps) == table.enc # "none" => ToSet(cps) \subseteq Listed(table)

ValidateString(builtin, table, s) ==
    LET cps == CodePoints(builtin, s)
        size == ValidateSize(table, Len(cps))
    IN IF size # 0 THEN size ELSE IF Spelled(table, cps) THEN 0 ELSE 1

SignificantBits(bits) == Max({0} \cup {i \in DOMAIN bits : bits[i] = 1})
NamedBitsLength(table, bits) == Max({SignificantBits(bits), table.slo})

\* The form PER transmits.
NormalizeNamedBits(table, bits) ==
    [i \in 1 .. NamedBitsLength(table, bits) |-> IF i \in DOMAIN bits THEN bits[i] ELSE 0]

ValidateBitString(table, bits) ==
    IF Has(table, "NAMED_BITS")
    THEN IF Has(table, "SIZE_CONSTRAINED") /\ ~Has(table, "EXTENSIBLE")
         THEN Distance(SignificantBits(bits), 0, table.shi) ELSE 0
    ELSE ValidateSize(table, Len(bits))

ValidateReal(table, n) ==
    LET below == n < table.rlo \/ (Has(table, "REAL_LOWER_OPEN") /\ n = table.rlo)
        above == n > table.rhi \/ (Has(table, "REAL_UPPER_OPEN") /\ n = table.rhi)
    IN CASE ~Has(table, "REAL_RANGE") \/ Has(table, "EXTENSIBLE") -> 0
         [] Has(table, "REAL_RANGE") /\ ~Has(table, "EXTENSIBLE") /\ (n = NotANumber \/ below) -> 1
         [] Has(table, "REAL_RANGE") /\ ~Has(table, "EXTENSIBLE") /\ n # NotANumber /\ ~below /\ above -> -1
         [] OTHER -> 0

Validate(def, table, v) ==
    CASE def.builtin = "ENUMERATED"   -> IF v[1] \in ToSet(EnumeratedSpec(def).entries) THEN 0 ELSE 1
      [] def.builtin = "INTEGER"      -> ValidateInteger(table, v[1])
      [] def.builtin = "REAL"         -> ValidateReal(table, v[2])
      [] def.builtin = "OCTET STRING" -> ValidateSize(table, Len(v))
      [] def.builtin = "BIT STRING"   -> ValidateBitString(table, v)
      [] def.builtin \in CharacterString -> ValidateString(def.builtin, table, v)
      [] OTHER -> 0
=============================================================================
