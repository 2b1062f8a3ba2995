-------------------------- MODULE PrimitiveFiller ---------------------------
(***************************************************************************)
(* RandomFiller.cpp on the builtin types: the values a table lets the      *)
(* generator draw, its repair of a draw the table refuses, and the         *)
(* out-of-spec draws of invalid_percent.  Every random choice is a set;    *)
(* Drawn bounds the characters, octets and REAL numbers drawn from.        *)
(***************************************************************************)
EXTENDS Primitives

CONSTANTS MinLen, MaxLen,  \* cfg_.min_str_len, cfg_.max_str_len
          Span,            \* width of the window drawn from where a range is open
          SizeCap,         \* longest value made (65536, 64 and 256 in the code)
          Drawn,           \* characters, octets and REAL numbers drawn from
          Unprintable      \* characters outside DEFAULT_STRING_ALPHABET

ASSUME FillerAssumption ==
    /\ {MinLen, MaxLen, Span, SizeCap} \subseteq Nat
    /\ MinLen <= MaxLen /\ MaxLen <= SizeCap
    /\ Drawn \subseteq Nat /\ Unprintable \subseteq Nat

MaxRetries == 16

Smaller(a, b) == IF a < b THEN a ELSE b
Larger(a, b)  == IF a < b THEN b ELSE a

SizeRange(table) ==
    CASE Has(table, "SIZE_CONSTRAINED") ->
            LET lo == Smaller(table.slo, SizeCap)
            IN <<lo, Larger(lo, Smaller(table.shi, SizeCap))>>
      [] Has(table, "SIZE_LOWER_BOUND") /\ table.slo > 0 ->
            LET lo == Smaller(table.slo, SizeCap) IN <<lo, Smaller(SizeCap, lo + MaxLen - MinLen)>>
      [] OTHER -> <<MinLen, MaxLen>>

\* Around the bounds of SIZE, or none where there is no SIZE.
LooseSizeRange(table) ==
    LET spread(n) == Larger(2, (n \div 4) + 2) IN
    CASE Has(table, "SIZE_CONSTRAINED") ->
            LET margin == spread(table.shi - table.slo)
                hi == Smaller(SizeCap, table.shi + margin)
            IN << <<Smaller(Larger(0, table.slo - margin), hi), hi>> >>
      [] Has(table, "SIZE_LOWER_BOUND") ->
            LET margin == spread(table.slo)
                hi == Smaller(Larger(SizeCap, table.slo), table.slo + margin)
            IN << <<Smaller(Larger(0, table.slo - margin), hi), hi>> >>
      [] OTHER -> <<>>

Strings(set, range) == UNION {[1 .. n -> set] : n \in range[1] .. range[2]}

DrawnOctets == Drawn \cap 0 .. 2 ^ OctetBits - 1
Printable == DrawnOctets \cap (0 .. Ascii \ Unprintable)

\* Broken form for the mutants: FROM does not reach the draw.
DrawAnything(table) == Printable

\* The alphabet a narrow string is drawn from: the table's FROM, else printable.
DrawAlphabet(table) == IF table.abits > 0 THEN ToSet(table.alpha) ELSE Printable

DrawString(builtin, table, range) ==
    IF builtin = "BMPString" /\ table.abits = 0
    THEN {Wide(cps) : cps \in Strings(Drawn \ Unprintable, range)}
    ELSE Strings(DrawAlphabet(table), range)

\* The numbers of a window of Span + 1 values from lo, as the storage has them.
Window(lo) == {n \in lo .. lo + Span : n <= MaxU}

DrawInteger(table) ==
    CASE table.kind = "U64" ->
            LET open == Has(table, "SEMI_CONSTRAINED") \/ table.uhi = MaxU
            IN IF open THEN Window(table.ulo) ELSE table.ulo .. Larger(table.ulo, table.uhi)
      [] table.kind = "S64" /\ Has(table, "CONSTRAINED") ->
            table.lo .. (IF table.lo > table.hi THEN MaxS ELSE table.hi)
      [] table.kind = "S64" /\ Has(table, "SEMI_CONSTRAINED") -> {n \in Window(table.lo) : n <= MaxS}
      [] OTHER -> -Span .. Span

\* A draw outside a range is replaced by one inside, an open end by the next number.
DrawReal(table) ==
    LET any == {NotANumber, Infinity, -Infinity, 0} \cup Drawn
        lo == IF table.rlo = -Infinity THEN IF table.rhi = Infinity THEN -Span ELSE table.rhi - Span ELSE table.rlo
        hi == IF table.rhi = Infinity THEN IF table.rlo = -Infinity THEN Span ELSE lo + Span ELSE table.rhi
        up(n)   == IF Has(table, "REAL_LOWER_OPEN") /\ n <= table.rlo THEN table.rlo + 1 ELSE n
        down(n) == IF Has(table, "REAL_UPPER_OPEN") /\ n >= table.rhi THEN table.rhi - 1 ELSE n
        inside == {down(up(n)) : n \in IF lo < hi THEN lo .. hi ELSE {lo}}
    IN {<<Double, n>> : n \in {m \in any : ValidateReal(table, m) = 0}
                              \cup (IF Has(table, "REAL_RANGE") THEN inside ELSE {})}

\* fill_primitive
Draw(def, table) ==
    CASE def.builtin = "NULL"         -> {<<>>}
      [] def.builtin = "BOOLEAN"      -> {<<0>>, <<1>>}
      [] def.builtin = "INTEGER"      -> {<<n>> : n \in DrawInteger(table)}
      [] def.builtin = "REAL"         -> DrawReal(table)
      [] def.builtin = "OCTET STRING" -> Strings(DrawnOctets, SizeRange(table))
      [] def.builtin = "BIT STRING"   -> Strings({0, 1}, SizeRange(table))
      [] OTHER                        -> DrawString(def.builtin, table, SizeRange(table))

\* resize_in_place: len units, whatever the alphabet says.
Resized(def, len) ==
    CASE def.builtin = "OCTET STRING" -> Strings(DrawnOctets, <<len, len>>)
      [] def.builtin = "BIT STRING"   -> Strings({0, 1}, <<len, len>>)
      [] def.builtin = "BMPString"    -> {Wide(cps) : cps \in Strings(Drawn \ Unprintable, <<len, len>>)}
      [] def.builtin \in CharacterString \ {"BMPString"} -> Strings(Printable, <<len, len>>)
      [] OTHER -> {}

\* The working copy of the table after a draw missed the real one by dist.
Tightened(table, n, dist) ==
    LET to == n + dist
        fresh == ~Has(table, "CONSTRAINED")
        next == IF dist > 0
                THEN [table EXCEPT !.lo = IF fresh \/ to > table.lo THEN to ELSE table.lo]
                ELSE [table EXCEPT !.hi = IF fresh \/ to < table.hi THEN to ELSE table.hi]
    IN [next EXCEPT !.flags = {"CONSTRAINED"}]

\* A signed INTEGER, redrawn from a tighter table while the real one refuses.
RECURSIVE Retry(_, _, _)
Retry(table, work, round) ==
    LET draws == DrawInteger(work)
        good == {n \in draws : ValidateInteger(table, n) = 0}
        narrower == {Tightened(work, n, ValidateInteger(table, n)) : n \in draws \ good}
    IN {[ok |-> TRUE, v |-> <<n>>] : n \in good}
       \cup UNION {IF next.lo > next.hi \/ round = MaxRetries THEN {[ok |-> FALSE, v |-> <<next.lo>>]}
                   ELSE Retry(table, next, round + 1) : next \in narrower}

\* One draw, and where it is refused one of the length the bound asks for.
Repaired(def, table, v) ==
    LET dist == Validate(def, table, v)
        len == Smaller(Larger(0, IF dist > 0 THEN table.slo ELSE table.shi), SizeCap)
    IN IF dist = 0 THEN {[ok |-> TRUE, v |-> v]}
       ELSE IF Resized(def, len) = {} THEN {[ok |-> FALSE, v |-> v]}
            ELSE {[ok |-> TRUE, v |-> w] : w \in Resized(def, len)}

\* fill_enum: a root item, in the schema's order.
FillEnum(def) ==
    LET acc == FoldLeft(Number, NoItems, def.items) IN
    {[ok |-> TRUE, v |-> <<acc.values[k]>>] : k \in 1 .. (IF acc.root > 0 THEN acc.root ELSE Len(acc.values))}

\* try_fill_primitive on the strict path, and fill's last touch.
Fillings(def, table) ==
    LET made ==
        CASE def.builtin = "ENUMERATED" -> FillEnum(def)
          [] def.builtin = "INTEGER" /\ table.kind = "S64" -> Retry(table, table, 1)
          [] def.builtin = "INTEGER" /\ table.kind = "U64" ->
                {[ok |-> Validate(def, table, v) = 0, v |-> v] : v \in Draw(def, table)}
          [] OTHER -> UNION {Repaired(def, table, v) : v \in Draw(def, table)}
    IN IF Has(table, "NAMED_BITS") THEN {[m EXCEPT !.v = NormalizeNamedBits(table, @)] : m \in made} ELSE made

\* fill_primitive_loose: values around the bounds, from the signed bounds
\* whatever the storage; none where nothing bounds them.
LooseInteger(table) ==
    LET margin == Larger(2, ((table.hi - table.lo) \div 4) + 5)
        lo == IF table.lo > MinS + margin THEN table.lo - margin ELSE table.lo
        hi == IF table.hi < MaxS - margin THEN table.hi + margin ELSE table.hi
        from == IF table.lo > MinS + Span THEN table.lo - Span ELSE table.lo
    IN CASE Has(table, "CONSTRAINED") -> Smaller(lo, hi) .. Larger(lo, hi)
         [] Has(table, "SEMI_CONSTRAINED") -> from .. Smaller(MaxS, from + 2 * Span)
         [] OTHER -> {}

LooseFillings(def, table) ==
    LET range == LooseSizeRange(table)
        strings(set) == UNION {Strings(set, range[k]) : k \in DOMAIN range}
    IN CASE def.builtin = "INTEGER"      -> {<<AsStorage(table, n)>> : n \in LooseInteger(table)}
         [] def.builtin = "OCTET STRING" -> strings(DrawnOctets)
         [] def.builtin = "BIT STRING"   -> {IF Has(table, "NAMED_BITS") THEN NormalizeNamedBits(table, b) ELSE b :
                                                 b \in strings({0, 1})}
         [] def.builtin \in CharacterString ->
                IF range = <<>> /\ table.abits > 0 THEN Strings(Printable, <<1, MaxLen>>) ELSE strings(Printable)
         [] OTHER -> {}
=============================================================================
