------------------------------ MODULE Scalars -------------------------------
(***************************************************************************)
(* A value of a constrained builtin type between two programs: the         *)
(* compiler turns its constraints into a table (Constraining), a program   *)
(* sets or fills a value, any codec writes it, the other program reads it  *)
(* by the same table and may pass it on in another encoding.               *)
(***************************************************************************)
EXTENDS PerPrimitives, TextPrimitives, PrimitiveFiller

CONSTANTS Defs,       \* the type definitions looked at
          Values(_)   \* the values an application sets of one

VARIABLES def, table, src, wire, dest

vars == <<def, table, src, wire, dest>>

NoWire == [form |-> "none", ok |-> FALSE, out |-> <<>>]
NoDest == [read |-> FALSE, ok |-> FALSE, v |-> <<>>]

\* Three octets of UTF-8 hold a BMP character: 16 bits of the code's 24 - 8.
BmpLimit == 2^(3 * OctetBits - 8)

\* A number's storage decides which numbers an application can set.
Settable(d, t, v) ==
    /\ d.builtin = "BMPString" => \A i \in DOMAIN CodePoints(d.builtin, v) : CodePoints(d.builtin, v)[i] < BmpLimit
    /\ d.builtin = "INTEGER" => v[1] \in (IF t.kind = "U64" THEN 0 .. MaxU ELSE MinS .. MaxS)
    /\ d.builtin = "ENUMERATED" => v[1] \in MinS .. MaxS

Start(made, v) ==
    /\ src' = [made |-> made, ok |-> TRUE, v |-> v]
    /\ wire' = NoWire /\ dest' = NoDest
    /\ UNCHANGED <<def, table>>

Init ==
    /\ def \in {d \in Defs : Configurable(d)}
    /\ table = CppTable(def)
    /\ src = [made |-> "nothing", ok |-> FALSE, v |-> <<>>]
    /\ wire = NoWire /\ dest = NoDest

Fresh == src.made = "nothing"

Set == Fresh /\ \E v \in Values(def) : Settable(def, table, v) /\ Start("set", v)

Fill ==
    /\ Fresh
    /\ \E made \in Fillings(def, table) :
        /\ Start("filled", made.v)
        /\ src'.ok = made.ok

FillLoose == Fresh /\ \E v \in LooseFillings(def, table) : Settable(def, table, v) /\ Start("loose", v)

Write(form, result) ==
    /\ wire' = [form |-> form, ok |-> result.ok, out |-> result.out]
    /\ UNCHANGED <<def, table, src, dest>>

Ready == src.made # "nothing" /\ src.ok /\ wire.form = "none"

EncodePer == Ready /\ Write("PER", PerEncode(def, table, src.v))
EncodeXer == Ready /\ Write("XER", XerEncode(def, src.v))
EncodeJer == Ready /\ Write("JER", JerEncode(def, table, src.v))

\* Another product's texts for a value: every character by its number, and
\* in XER for a lenient reader words for <true/> and hexadecimal bits.
Points == CodePoints(def.builtin, src.v)
Spelling ==
    /\ def.builtin \in CharacterString \ HexString
    /\ def.builtin = "IA5String" => ToSet(Points) \subseteq 0 .. Ascii

PeerXer ==
    /\ Ready
    /\ \/ Spelling /\ Write("XER", Text(<<Tok("open")>> \o Tokens("numbered", Points) \o <<Tok("close")>>))
       \/ def.builtin = "BOOLEAN" /\ Write("XER, lenient", Text(<<Tok("open"), <<"word", src.v[1]>>, Tok("close")>>))
       \/ /\ def.builtin = "BIT STRING" /\ Len(src.v) % OctetBits = 0 /\ src.v # <<>>
          /\ Write("XER, lenient", Text(<<Tok("open")>> \o Tokens("hex", Grouped(src.v, OctetBits)) \o <<Tok("close")>>))

PeerJer == Ready /\ Spelling /\ Write("JER", Text(Quoted(Tokens("unicode", Points))))

Read(result) ==
    /\ dest' = [read |-> TRUE, ok |-> result.ok, v |-> result.v]
    /\ UNCHANGED <<def, table, src, wire>>

Arrived(forms) == wire.form \in forms /\ wire.ok /\ ~dest.read

DecodePer == Arrived({"PER"}) /\ Read(PerDecode(def, table, wire.out))
DecodeXer == Arrived({"XER", "XER, lenient"}) /\ Read(XerDecode(def, table, wire.form = "XER, lenient", wire.out))
DecodeJer == Arrived({"JER"}) /\ Read(JerDecode(def, table, wire.out))

\* The reader passes on what it read.
Relay == dest.read /\ dest.ok /\ Start("relayed", dest.v)

Next == Set \/ Fill \/ FillLoose \/ EncodePer \/ EncodeXer \/ EncodeJer \/ PeerXer \/ PeerJer
        \/ DecodePer \/ DecodeXer \/ DecodeJer \/ Relay

Spec == Init /\ [][Next]_vars

-----------------------------------------------------------------------------
(* What the constraints say (X.680), without the table.                     *)

InRange(c, n) ==
    /\ c.lo.kind = "value" => IF c.lo.open THEN n > c.lo.n ELSE n >= c.lo.n
    /\ c.hi.kind = "value" => IF c.hi.open THEN n < c.hi.n ELSE n <= c.hi.n

RECURSIVE NumberHolds(_, _)
NumberHolds(c, n) ==
    CASE c.is \in {"range", "value"} -> InRange(c, n)
      [] c.is = "and" -> \A i \in DOMAIN c.ops : NumberHolds(c.ops[i], n)
      [] c.is = "or"  -> \E i \in DOMAIN c.ops : NumberHolds(c.ops[i], n)
      [] OTHER -> TRUE

\* A string's constraint on counts, the lengths its value can be taken to
\* have, and on its characters; an extensible one holds of every value.
RECURSIVE StringHolds(_, _, _)
StringHolds(c, counts, chars) ==
    CASE TreeExtensible(c) -> TRUE
      [] ~TreeExtensible(c) /\ c.is = "size" -> \E n \in counts : NumberHolds(c.ops[1], n)
      [] ~TreeExtensible(c) /\ c.is = "from" -> \A ch \in chars : NumberHolds(c.ops[1], ch)
      [] OTHER -> \A i \in DOMAIN c.ops : StringHolds(c.ops[i], counts, chars)

\* Trailing 0s of a value with named bits are not counted (X.680 22.7).
Counts(d, v) ==
    CASE d.bits -> SignificantBits(v) .. Larger(Len(v), SizeCap)
      [] ~d.bits /\ d.builtin \in CharacterString -> {Len(CodePoints(d.builtin, v))}
      [] OTHER -> {Len(v)}

\* The generator fills BMPString octet by octet where it has an alphabet or
\* looks for values out of spec; half a character is dropped by every writer.
Halved(d, v) == d.builtin = "BMPString" /\ Len(v) % 2 = 1

Admitted(d, v) ==
    LET last == Len(d.cs)
        waived(i) == i = last /\ TreeExtensible(d.cs[i])
        chars == IF d.builtin \in CharacterString THEN ToSet(CodePoints(d.builtin, v)) ELSE {}
    IN CASE d.builtin = "INTEGER" -> \A i \in 1 .. last : waived(i) \/ NumberHolds(d.cs[i], v[1])
         [] d.builtin = "REAL" ->
                \A i \in 1 .. last : waived(i) \/ d.cs[i].is = "base" \/ (v[2] # NotANumber /\ NumberHolds(d.cs[i], v[2]))
         [] d.builtin = "ENUMERATED" -> v[1] \in ToSet(EnumeratedSpec(d).entries)
         [] d.builtin \in Sizeable ->
                /\ \A i \in 1 .. last : StringHolds(d.cs[i], Counts(d, v), chars)
                /\ d.builtin = "IA5String" => chars \subseteq 0 .. Ascii
                /\ ~Halved(d, v)
         [] OTHER -> TRUE

\* Definitions whose table says what their constraints say; README.md lists
\* the others, one deviation for each line left out here.
RegularRange(c) ==
    /\ c.is = "range" /\ ~c.lo.open /\ ~c.hi.open
    /\ c.lo.kind = "value" => c.lo.n <= MaxS
    /\ c.hi.kind = "value" => /\ c.lo.kind = "value" /\ c.lo.n <= c.hi.n
                              /\ c.hi.n > MaxS => c.lo.n >= 0 /\ ~c.hi.named

RegularInteger(d) ==
    /\ \A i \in DOMAIN d.cs : RegularRange(d.cs[i]) /\ (d.cs[i].ext => i = Len(d.cs))
    /\ Len(d.cs) > 1 => \A i \in DOMAIN d.cs : d.cs[i].hi.kind = "value" => d.cs[i].hi.n <= MaxS
    /\ Len(d.cs) > 1 => ~IsExtensible(d)

RegularString(d) ==
    /\ \A is \in {"size", "from"} : Len(Clauses(d, is)) <= 1
    /\ \A i \in DOMAIN d.cs : ~d.cs[i].ext \/ d.cs[i].is \in {"size", "from"}
    /\ \A i \in DOMAIN Clauses(d, "size") : Clauses(d, "size")[i].ops[1].is \in {"range", "value"}
    /\ d.builtin = "UTF8String" /\ d.member => Clauses(d, "from") = <<>>
    /\ d.builtin = "IA5String" /\ ~d.member => Clauses(d, "size") # <<>> \/ PerVisibleAlphabet(d) # <<>>

Regular(d) ==
    /\ d.builtin = "INTEGER" => RegularInteger(d)
    /\ d.builtin \in Sizeable => RegularString(d)

-----------------------------------------------------------------------------
(* Properties                                                               *)

\* BIT STRING values with named bits mean the same without trailing 0s, and
\* XER turns a base-10 REAL into a double of the same number.
Same(d, v, w) ==
    CASE d.bits -> SubSeq(v, 1, SignificantBits(v)) = SubSeq(w, 1, SignificantBits(w))
      [] ~d.bits /\ d.builtin = "REAL" -> v[2] = w[2]
      [] OTHER -> v = w

\* A visible SIZE of a UTF8String counts octets in PER and characters in
\* validate(); README.md, section 5.
CountedTwice(d, t, v) ==
    /\ d.builtin = "UTF8String" /\ ~Has(t, "PER_SIZE_INVISIBLE") /\ Has(t, "SIZE_CONSTRAINED")
    /\ Len(v) # Len(CodePoints(d.builtin, v))

\* A value the constraints admit crosses every encoding: it is neither
\* refused by the encoder nor by the decoder, and means the same on arrival
\* (PerCodec.cpp, XerCodec.cpp, JerCodec.cpp against Generator.cpp's tables).
AdmittedSurvives ==
    /\ wire.form # "none" /\ src.ok
    /\ Regular(def) /\ Admitted(def, src.v)
    /\ ~(wire.form = "PER" /\ CountedTwice(def, table, src.v))
    =>  /\ wire.ok
        /\ dest.read => dest.ok /\ Same(def, src.v, dest.v)

\* PER writes some values it cannot say as other values: an INTEGER outside a
\* range without marker (IntegerPerHandler keeps the low bits), an IA5String
\* character above Ascii when SIZE is extensible, an unknown ENUMERATED.
Misspelt(d, t, v) ==
    \/ d.builtin = "INTEGER" /\ ~Has(t, "EXTENSIBLE") /\ ValidateInteger(t, v[1]) # 0
    \/ d.builtin = "IA5String" /\ Has(t, "EXTENSIBLE") /\ \E i \in DOMAIN v : v[i] > Ascii
    \/ d.builtin = "ENUMERATED" /\ v[1] \notin ToSet(EnumeratedSpec(d).entries)

\* Whatever is sent, admitted or not: a reader that succeeds reads what was
\* written, apart from PER's misspelt values.  A value that breaks its SIZE or
\* alphabet is refused on one side, never cut or replaced on the way
\* (encode_size_and_items, StringPerHandler::encode).
ReadIsWritten ==
    /\ dest.read /\ dest.ok
    /\ ~(wire.form = "PER" /\ Misspelt(def, table, src.v)) /\ ~Halved(def, src.v)
    => Same(def, src.v, dest.v)

\* validate() accepts exactly the values the schema's constraints admit: the
\* tables the compiler prints lose no bound, flag or character that matters
\* to it (build_integer_spec, build_builtin_alias_spec, extract_real_range
\* against asn1::validate).
TableMeansConstraint ==
    src.made = "set" /\ wire.form = "none" /\ Regular(def) => (Validate(def, table, src.v) = 0) = Admitted(def, src.v)

\* The generator's strict path gives up or makes a value the constraints
\* admit (RandomFiller::try_fill_primitive).  BMPString with FROM is left out:
\* its draw is a string of single octets, and the repair ignores the alphabet.
FillIsAdmitted ==
    /\ src.made = "filled" /\ src.ok /\ wire.form = "none" /\ Regular(def)
    /\ ~(def.builtin = "BMPString" /\ table.abits > 0)
    => Admitted(def, src.v)

\* What of a table decides the layout of a PER encoding and its validation.
Layout(t) ==
    [flags |-> t.flags, kind |-> t.kind,
     range |-> IF {"CONSTRAINED", "SEMI_CONSTRAINED"} \cap t.flags = {} THEN <<>>
               ELSE IF "CONSTRAINED" \in t.flags THEN <<Lower(t), Upper(t), t.bits>> ELSE <<Lower(t)>>,
     size  |-> IF "SIZE_CONSTRAINED" \in t.flags THEN <<t.slo, t.shi, t.sbits>> ELSE <<t.slo>>,
     alpha |-> t.alpha, abits |-> t.abits]

\* The three backends print tables that lay a type's encoding out alike, so
\* programs generated in different languages understand each other
\* (CppBackend.cpp, RustBackend.cpp, JavaBackend.cpp).  Rust assignments are
\* left out where they drop a FROM or widen an INTEGER beyond the signed range.
BackendsAgree ==
    Fresh /\ Regular(def) =>
        /\ Layout(JavaTable(def)) = Layout(table)
        /\ def.member \/ (table.abits = 0 /\ table.kind = "S64") => Layout(RustTable(def)) = Layout(table)
=============================================================================
