---------------------------- MODULE Constraining ----------------------------
(***************************************************************************)
(* From the constraints a schema puts on a builtin type to the Constraints *)
(* tables the runtimes read.  The compiler keeps constraints as a tree and *)
(* flattens what it understands of it into bounds, flags and an alphabet   *)
(* (Generator.cpp); each backend then prints a table (CppBackend.cpp,      *)
(* RustBackend.cpp, JavaBackend.cpp).  Machine integers have Width bits;   *)
(* an octet has OctetBits, and a character above Ascii is outside          *)
(* IA5String.                                                              *)
(*                                                                         *)
(* A type definition is a record: its builtin type, the serial constraints *)
(* cs, whether it names bits, whether it is a member or an assignment, the *)
(* sidecar's per_nkm_size entries that concern it, the --per-nkm-size      *)
(* default and, for ENUMERATED, its items.  A constraint is a tree node    *)
(* [is, ext, lo, hi, ops]: "range" (of numbers or characters), "value"     *)
(* (lo = hi), "and" and "or" of ops, and "size", "from" and "base" (the    *)
(* inner constraint on a REAL's base component) around ops[1].             *)
(***************************************************************************)
EXTENDS Integers, Sequences, SequencesExt, FiniteSets, FiniteSetsExt

CONSTANTS Width, OctetBits, Ascii,
          Infinity  \* stands for a REAL's infinite bound, above every number used

ASSUME ConstrainingAssumption ==
    /\ {Width, OctetBits, Ascii, Infinity} \subseteq Nat
    /\ OctetBits > 4 /\ Width % OctetBits = 0 /\ Width >= OctetBits
    /\ Ascii = 2 ^ (OctetBits - 1) - 1 /\ Infinity > 2 ^ Width

MaxS == 2 ^ (Width - 1) - 1
MinS == -(2 ^ (Width - 1))
MaxU == 2 ^ Width - 1
Signed(n)   == IF n > MaxS THEN n - 2 ^ Width ELSE n
Unsigned(n) == n % 2 ^ Width

NonKnownMultiplier == {"UTF8String", "GeneralString"}
CharacterString == NonKnownMultiplier \cup {"IA5String", "BMPString"}
Sizeable == CharacterString \cup {"OCTET STRING", "BIT STRING"}

\* Bits for a value of 0 .. n; none when n is 0.
BitsFor(n) == Min({k \in 0 .. Width : 2 ^ k > n})

-----------------------------------------------------------------------------
(* The constraint tree.                                                     *)

RECURSIVE Walk(_)
Walk(c) == <<c>> \o IF c.is = "and" THEN FlattenSeq([i \in DOMAIN c.ops |-> Walk(c.ops[i])]) ELSE <<>>

\* The clauses of one kind that hold together, in the schema's order.
Clauses(def, is) ==
    SelectSeq(FlattenSeq([i \in DOMAIN def.cs |-> Walk(def.cs[i])]), LAMBDA c : c.is = is)

RECURSIVE TreeExtensible(_)
TreeExtensible(c) ==
    \/ c.ext
    \/ c.is \in {"and", "size", "from"} /\ \E i \in DOMAIN c.ops : TreeExtensible(c.ops[i])

IsExtensible(def) == \E i \in DOMAIN def.cs : TreeExtensible(def.cs[i])

\* A SIZE or FROM in c with an extension marker in it or around it.
RECURSIVE Marked(_, _, _)
Marked(c, is, around) ==
    LET ext == around \/ c.ext IN
    IF c.is = "and" THEN \E i \in DOMAIN c.ops : Marked(c.ops[i], is, ext)
    ELSE /\ c.is = is
         /\ ext \/ (\E i \in DOMAIN c.ops : TreeExtensible(c.ops[i]))

SizeExtensible(def) == \E i \in DOMAIN def.cs : Marked(def.cs[i], "size", FALSE)
FromVisible(def) == ~\E i \in DOMAIN def.cs : Marked(def.cs[i], "from", FALSE)

\* A literal above MaxS is kept unsigned; asked for a signed number, or
\* reached through a value reference, it is cast.
ResolveInt(e) == Signed(e.n)

-----------------------------------------------------------------------------
(* INTEGER                                                                  *)

NoRange == [has |-> FALSE, lo |-> 0, hi |-> 0, max |-> FALSE, hiU |-> 0, large |-> FALSE]

UpperEndpoint(e) ==
    CASE e.kind = "max"                -> [hi |-> MaxS, max |-> TRUE, hiU |-> MaxU, large |-> FALSE]
      [] e.kind # "max" /\ e.n > MaxS /\ ~e.named
                                       -> [hi |-> Signed(e.n), max |-> FALSE, hiU |-> e.n, large |-> TRUE]
      [] OTHER                         -> [hi |-> ResolveInt(e), max |-> FALSE, hiU |-> 0, large |-> FALSE]

\* One more range clause: the larger lower and the smaller upper bound win.
Narrow(r, c) ==
    LET real  == c.lo.kind # "min"
        lo    == IF real THEN ResolveInt(c.lo) ELSE MinS
        upper == UpperEndpoint(c.hi)
        raise == ~r.some \/ lo > r.lo \/ (lo = r.lo /\ real)
        lower == ~r.some \/ upper.hi < r.up.hi
    IN [some |-> TRUE,
        lo   |-> IF raise THEN lo ELSE r.lo,
        real |-> r.real \/ (raise /\ real),
        up   |-> IF lower THEN upper ELSE r.up]

ExtractIntegerRange(def) ==
    LET none == [some |-> FALSE, lo |-> 0, real |-> FALSE, up |-> UpperEndpoint([kind |-> "max"])]
        found(r) ==
            IF ~r.some \/ (~r.real /\ ~r.up.max) THEN NoRange
            ELSE [has |-> TRUE, lo |-> r.lo, hi |-> r.up.hi, max |-> r.up.max, hiU |-> r.up.hiU, large |-> r.up.large]
    IN found(FoldLeft(Narrow, none, Clauses(def, "range")))

\* The storage of an INTEGER with the range r.
ClassifyIntegerStorage(r) ==
    IF r.has /\ (r.max \/ r.large) /\ r.lo >= 0 THEN "U64" ELSE "S64"

NonNegative(n) == IF n >= 0 THEN n ELSE 0

\* The spec of an INTEGER with the range r.
RangeSpec(r, ext) ==
    LET blank == [kind |-> ClassifyIntegerStorage(r), has |-> r.has, ext |-> FALSE, semi |-> FALSE,
                  large |-> FALSE, bits |-> 0, lo |-> 0, hi |-> 0, ulo |-> 0, uhi |-> 0]
        spec  == [blank EXCEPT !.ext = ext, !.semi = r.max, !.large = r.large,
                               !.lo = r.lo, !.hi = r.hi, !.ulo = NonNegative(r.lo)]
    IN CASE ~r.has   -> blank
         [] r.has /\ r.max -> [spec EXCEPT !.bits = -1, !.hi = 0, !.uhi = MaxU]
         [] r.has /\ ~r.max /\ r.large ->
                [spec EXCEPT !.bits = BitsFor(Unsigned(r.hiU - NonNegative(r.lo))), !.uhi = r.hiU]
         [] OTHER    -> [spec EXCEPT !.bits = BitsFor(Unsigned(r.hi - r.lo)), !.uhi = NonNegative(r.hi)]

\* build_integer_spec for an assignment; for a member
\* build_member_type_descriptor_spec computes the same.
IntegerSpec(def) == RangeSpec(ExtractIntegerRange(def), IsExtensible(def))

-----------------------------------------------------------------------------
(* SIZE and FROM                                                            *)

NoSize == <<>>

\* The first SIZE around a range or a single value; others are passed over.
ExtractSizeRange(def) ==
    LET plain == SelectSeq(Clauses(def, "size"), LAMBDA c : c.ops[1].is \in {"range", "value"})
        c == plain[1].ops[1]
    IN IF plain = <<>> THEN NoSize
       ELSE <<IF c.lo.kind = "min" THEN 0 ELSE ResolveInt(c.lo),
              IF c.hi.kind = "max" THEN MaxS ELSE ResolveInt(c.hi)>>

Bounded(size) == size # NoSize /\ size[2] # MaxS

ComputeSizeConstraint(size) ==
    IF size = NoSize THEN [lower |-> 0, upper |-> 0, bits |-> 0]
    ELSE [lower |-> size[1],
          upper |-> IF Bounded(size) THEN size[2] ELSE 0,
          bits  |-> IF Bounded(size) /\ size[2] > size[1] THEN BitsFor(size[2] - size[1]) ELSE 0]

\* The single-octet characters of a FROM's ranges and values, through "or".
RECURSIVE Collect(_)
Collect(c) ==
    CASE c.is = "or" -> FlattenSeq([i \in DOMAIN c.ops |-> Collect(c.ops[i])])
      [] c.is \in {"range", "value"} ->
            IF /\ c.lo.kind = "value" /\ c.hi.kind = "value"
               /\ c.lo.n <= Ascii /\ c.hi.n <= Ascii
            THEN [k \in 1 .. NonNegative(c.hi.n - c.lo.n + 1) |-> c.lo.n + k - 1] ELSE <<>>
      [] OTHER -> <<>>

\* Every FROM's characters together, sorted.
ExtractFromAlphabet(def) ==
    LET froms == Clauses(def, "from")
    IN SortSeq(FlattenSeq([i \in DOMAIN froms |-> Collect(froms[i].ops[1])]), <)

PerVisibleAlphabet(def) == IF FromVisible(def) THEN ExtractFromAlphabet(def) ELSE <<>>

AlphabetBitsFor(size) == Max({1, BitsFor(NonNegative(size - 1))})

\* What the sidecar's entries come to (PerNkmSize::build): one entry for the
\* type and one for the field; a second of either is an error, an entry for
\* something else is skipped with a warning.
Entries(def, for) == SelectSeq(def.entries, LAMBDA e : e.for = for)
Configurable(def) == Len(Entries(def, "type")) <= 1 /\ Len(Entries(def, "field")) <= 1

\* A member's own entry wins, then its type's; an assignment only has the latter.
NkmSizeMode(def) ==
    LET own  == IF def.member THEN Entries(def, "field") ELSE <<>>
        type == Entries(def, "type")
    IN CASE own # <<>> -> own[1].mode
         [] own = <<>> /\ type # <<>> -> type[1].mode
         [] OTHER -> def.dflt

\* build_builtin_alias_spec for an assignment, the Sizeable part of
\* build_member_type_descriptor_spec for a member.
SizeableSpec(def) ==
    LET size  == ExtractSizeRange(def)
        alpha == IF def.member /\ def.builtin = "UTF8String" THEN <<>> ELSE PerVisibleAlphabet(def)
    IN [size |-> size, bounded |-> Bounded(size), sc |-> ComputeSizeConstraint(size), alphabet |-> alpha,
        ext |-> SizeExtensible(def), namedBits |-> def.bits,
        invisible |-> /\ def.builtin \in NonKnownMultiplier
                      /\ size # NoSize \/ alpha # <<>>
                      /\ NkmSizeMode(def) = "strict"]

-----------------------------------------------------------------------------
(* REAL                                                                     *)

Inside(c, n) ==
    /\ c.lo.kind = "value" => n >= c.lo.n + (IF c.lo.open THEN 1 ELSE 0)
    /\ c.hi.kind = "value" => n <= c.hi.n - (IF c.hi.open THEN 1 ELSE 0)

RECURSIVE Admits(_, _)
Admits(c, b) ==
    CASE c.is \in {"range", "value"} -> Inside(c, b)
      [] c.is = "and" -> \A i \in DOMAIN c.ops : Admits(c.ops[i], b)
      [] c.is = "or"  -> \E i \in DOMAIN c.ops : Admits(c.ops[i], b)
      [] OTHER -> TRUE

\* The bases a constraint leaves a REAL, as <<set>>, or <<>> when it is silent.
RECURSIVE RealBaseSet(_)
RealBaseSet(c) ==
    LET parts == SelectSeq([i \in DOMAIN c.ops |-> RealBaseSet(c.ops[i])], LAMBDA s : s # <<>>)
        sets  == {s[1] : s \in ToSet(parts)}
    IN CASE c.ext -> <<>>
         [] ~c.ext /\ c.is = "base" ->
                IF c.ops[1].ext THEN <<>> ELSE << {b \in {2, 10} : Admits(c.ops[1], b)} >>
         [] ~c.ext /\ c.is \in {"and", "or"} /\ parts # <<>> ->
                << {b \in {2, 10} : IF c.is = "and" THEN \A s \in sets : b \in s ELSE \E s \in sets : b \in s} >>
         [] OTHER -> <<>>

RealEnd(e, unbounded) == IF e.kind = "value" THEN e.n ELSE unbounded

NarrowReal(r, c) ==
    LET lo == RealEnd(c.lo, -Infinity)
        hi == RealEnd(c.hi, Infinity)
    IN [present |-> TRUE,
        lower |-> IF ~r.present \/ lo > r.lower THEN lo ELSE r.lower,
        lowerOpen |-> CASE ~r.present \/ lo > r.lower -> c.lo.open
                        [] r.present /\ lo = r.lower -> r.lowerOpen \/ c.lo.open
                        [] OTHER -> r.lowerOpen,
        upper |-> IF ~r.present \/ hi < r.upper THEN hi ELSE r.upper,
        upperOpen |-> CASE ~r.present \/ hi < r.upper -> c.hi.open
                        [] r.present /\ hi = r.upper -> r.upperOpen \/ c.hi.open
                        [] OTHER -> r.upperOpen]

NoReal == [present |-> FALSE, lower |-> -Infinity, lowerOpen |-> FALSE, upper |-> Infinity, upperOpen |-> FALSE]

ExtractRealRange(def) ==
    LET r == FoldLeft(NarrowReal, NoReal, Clauses(def, "range"))
        silent == SelectSeq([i \in DOMAIN def.cs |-> RealBaseSet(def.cs[i])], LAMBDA s : s # <<>>)
    IN [range |-> r, ext |-> r.present /\ IsExtensible(def),
        base10 |-> /\ silent # <<>>
                   /\ {b \in {2, 10} : \A i \in DOMAIN silent : b \in silent[i][1]} = {10}]

-----------------------------------------------------------------------------
(* ENUMERATED: items <<name, number>>, number -1 where the schema gives     *)
(* none, and the marker.                                                    *)

Ellipsis == <<"...", -1>>

Number(acc, item) ==
    IF item = Ellipsis THEN [acc EXCEPT !.ext = TRUE]
    ELSE LET v == IF item[2] >= 0 THEN item[2] ELSE acc.next
         IN [acc EXCEPT !.values = Append(@, v), !.next = v + 1, !.root = IF acc.ext THEN @ ELSE @ + 1]

NoItems == [values |-> <<>>, next |-> 0, root |-> 0, ext |-> FALSE]

\* The numbers in ascending order, root and extension items together.
EnumeratedSpec(def) ==
    LET acc == FoldLeft(Number, NoItems, def.items)
    IN [entries |-> SortSeq(acc.values, <), root |-> acc.root, ext |-> acc.ext]

-----------------------------------------------------------------------------
(* The tables.  What a backend leaves out of an initializer is zero.        *)

NoTable == [flags |-> {}, kind |-> "S64", lo |-> 0, hi |-> 0, ulo |-> 0, uhi |-> 0, bits |-> 0,
            slo |-> 0, shi |-> 0, sbits |-> 0, alpha |-> <<>>, abits |-> 0, enc |-> "none",
            rlo |-> 0, rhi |-> 0]

Flag(name, holds) == IF holds THEN {name} ELSE {}

\* IA5String's own descriptor lists its characters for validation only.
BuiltinTable(builtin) == IF builtin = "IA5String" THEN [NoTable EXCEPT !.enc = "builtin"] ELSE NoTable

IntegerTable(spec, semi) ==
    [NoTable EXCEPT !.flags = Flag("SEMI_CONSTRAINED", spec.has /\ semi)
                              \cup Flag("CONSTRAINED", spec.has /\ ~semi) \cup Flag("EXTENSIBLE", spec.ext),
                    !.kind = spec.kind, !.bits = NonNegative(spec.bits),
                    !.lo = spec.lo, !.hi = spec.hi, !.ulo = spec.ulo, !.uhi = spec.uhi]

\* C++ leaves an unconstrained INTEGER's table empty; Rust and Java fill only
\* the bounds of its storage, and give up a large upper bound where they cannot
\* hold it (Rust: for every assignment).
CppInteger(spec) == IF ~spec.has THEN NoTable ELSE IntegerTable(spec, spec.semi)

OneStorage(table) ==
    IF table.kind = "S64" THEN [table EXCEPT !.ulo = 0, !.uhi = 0] ELSE [table EXCEPT !.lo = 0, !.hi = 0]

RustInteger(spec, member) ==
    OneStorage(IntegerTable(spec, spec.semi \/ (spec.large /\ (~member \/ spec.kind = "S64"))))

JavaInteger(spec, member) ==
    LET table == IntegerTable(spec, spec.semi \/ (spec.large /\ member /\ spec.kind = "S64"))
    IN IF member \/ spec.kind = "S64" THEN OneStorage(table) ELSE table

\* Broken form for the mutants: SIZE(n..MAX) leaves no trace.
UnflooredTable(spec, ext, upper) ==
    [NoTable EXCEPT
        !.flags = Flag("SIZE_CONSTRAINED", spec.bounded) \cup Flag("EXTENSIBLE", ext)
                  \cup Flag("NAMED_BITS", spec.namedBits) \cup Flag("PER_SIZE_INVISIBLE", spec.invisible),
        !.slo = spec.sc.lower, !.shi = upper, !.sbits = spec.sc.bits]

SizeableTable(spec, ext, upper) ==
    [NoTable EXCEPT
        !.flags = Flag("SIZE_CONSTRAINED", spec.bounded) \cup Flag("EXTENSIBLE", ext)
                  \cup Flag("NAMED_BITS", spec.namedBits) \cup Flag("PER_SIZE_INVISIBLE", spec.invisible)
                  \cup Flag("SIZE_LOWER_BOUND", spec.size # NoSize /\ ~spec.bounded /\ spec.sc.lower > 0),
        !.slo = spec.sc.lower, !.shi = upper, !.sbits = spec.sc.bits]

WithAlphabet(table, alphabet) ==
    IF alphabet = <<>> THEN table
    ELSE [table EXCEPT !.alpha = alphabet, !.abits = AlphabetBitsFor(Len(alphabet)), !.enc = "from"]

\* C++ puts the builtin type's characters where there is no FROM.
CppSizeable(spec, def) ==
    LET table == SizeableTable(spec, spec.ext, spec.sc.upper)
    IN IF spec.size = NoSize /\ spec.alphabet = <<>> /\ ~spec.namedBits
       THEN IF def.member THEN BuiltinTable(def.builtin) ELSE NoTable
       ELSE IF spec.alphabet = <<>> THEN [table EXCEPT !.enc = BuiltinTable(def.builtin).enc]
            ELSE WithAlphabet(table, spec.alphabet)

\* Rust and Java: no marker without SIZE, and an open upper bound is the
\* largest number.
OpenTable(spec) ==
    SizeableTable(spec, spec.size # NoSize /\ spec.ext, IF spec.bounded THEN spec.sc.upper ELSE MaxS)

RustSizeable(spec, member) == WithAlphabet(OpenTable(spec), IF member THEN spec.alphabet ELSE <<>>)

\* Broken form for the mutants: one backend misses --per-nkm-size.
VisibleSizeable(spec) == WithAlphabet(OpenTable([spec EXCEPT !.invisible = FALSE]), spec.alphabet)

JavaSizeable(spec) == WithAlphabet(OpenTable(spec), spec.alphabet)

RealTable(spec) ==
    [NoTable EXCEPT !.flags = Flag("REAL_RANGE", spec.range.present) \cup Flag("REAL_BASE_10", spec.base10)
                              \cup Flag("REAL_LOWER_OPEN", spec.range.lowerOpen)
                              \cup Flag("REAL_UPPER_OPEN", spec.range.upperOpen)
                              \cup Flag("EXTENSIBLE", spec.ext),
                    !.rlo = spec.range.lower, !.rhi = spec.range.upper]

\* What is extracted for a definition; the other builtin types have no table.
ConstraintSpec(def) ==
    CASE def.builtin = "INTEGER"  -> IntegerSpec(def)
      [] def.builtin \in Sizeable -> SizeableSpec(def)
      [] def.builtin = "REAL"     -> ExtractRealRange(def)
      [] OTHER -> NoTable

\* A member whose constraints come to nothing uses its builtin type's table
\* (build_member_type_descriptor_spec).
HasOwnTable(def, spec) ==
    def.member => CASE def.builtin = "INTEGER"  -> spec.has
                    [] def.builtin = "REAL"     -> spec.range.present \/ spec.base10
                    [] def.builtin \in Sizeable -> spec.size # NoSize \/ spec.alphabet # <<>> \/ spec.namedBits
                    [] OTHER -> FALSE

CppTableOf(def, spec) ==
    CASE ~HasOwnTable(def, spec) -> BuiltinTable(def.builtin)
      [] HasOwnTable(def, spec) /\ def.builtin = "INTEGER"  -> CppInteger(spec)
      [] HasOwnTable(def, spec) /\ def.builtin \in Sizeable -> CppSizeable(spec, def)
      [] HasOwnTable(def, spec) /\ def.builtin = "REAL"     -> RealTable(spec)
      [] OTHER -> NoTable

RustTableOf(def, spec) ==
    CASE HasOwnTable(def, spec) /\ def.builtin = "INTEGER"  -> RustInteger(spec, def.member)
      [] HasOwnTable(def, spec) /\ def.builtin \in Sizeable -> RustSizeable(spec, def.member)
      [] HasOwnTable(def, spec) /\ def.builtin = "REAL"     -> RealTable(spec)
      [] OTHER -> NoTable

JavaTableOf(def, spec) ==
    CASE HasOwnTable(def, spec) /\ def.builtin = "INTEGER"  -> JavaInteger(spec, def.member)
      [] HasOwnTable(def, spec) /\ def.builtin \in Sizeable -> JavaSizeable(spec)
      [] HasOwnTable(def, spec) /\ def.builtin = "REAL"     -> RealTable(spec)
      [] OTHER -> NoTable

CppTable(def)  == CppTableOf(def, ConstraintSpec(def))
RustTable(def) == RustTableOf(def, ConstraintSpec(def))
JavaTable(def) == JavaTableOf(def, ConstraintSpec(def))
=============================================================================
