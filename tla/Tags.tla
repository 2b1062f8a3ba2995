-------------------------------- MODULE Tags --------------------------------
(***************************************************************************)
(* Which TLV belongs to which component.  Three parts of the program have  *)
(* to agree on it: the compiler's check that the tags of a SEQUENCE, SET   *)
(* or CHOICE are distinct (Resolver), the tags it writes into the tables   *)
(* (Generator), and the walk of BerCodec over those tables.  One state     *)
(* machine runs a schema through all three, with senders that reorder the  *)
(* components of a SET or know a newer version of the type.                *)
(*                                                                         *)
(* A type is a record [tag, mode, body]: a TaggedType's tag and keyword    *)
(* (NoTag and "" when there is none) and what it tags.  A component is     *)
(* [d |-> type, opt |-> BOOLEAN].  A tag is <<class, number>>, the class   *)
(* 0 for universal and 2 for context.  A TLV is [tag, in, leaf]: the TLVs  *)
(* inside a constructed one, or the contents of a primitive one.           *)
(***************************************************************************)
EXTENDS Integers, Sequences, FiniteSets, SequencesExt, FiniteSetsExt

CONSTANTS
    Declared,   \* the module's type assignments: name -> type
    Components  \* the component lists compiled, as every kind of type, in a
                \* module of every default, with a marker in every place

NoTag   == <<>>
Zero    == <<0, 0>>          \* the tag of a row that has none
Foreign == <<3, 9>>          \* the tag of what only a newer version knows
NoExt   == -1                \* no extension marker
Absent  == <<>>              \* a value is a path: the alternatives, then what
Unknown == <<"unknown">>     \* the builtin type at its end holds
Garbage == <<"garbage">>
AltName == <<"first", "second", "third">>

VARIABLES
    symbols,    \* each type assignment: what it says, and what it comes to
    schema,     \* the type, and the tag default of its module
    phase,      \* parsed, refused, compiled, sent, received, failed
    table,      \* the rows the compiler wrote for it
    sent,       \* the value of each component
    wire,       \* the TLVs inside the type's own TLV, or a CHOICE's one TLV
    got         \* what the decoder made of them
vars == <<symbols, schema, phase, table, sent, wire, got>>

---------------------------------------------------------------------------
(* Type references.  resolve_ref goes to the end of a chain of aliases and  *)
(* takes no notice of the tags on the way.                                  *)

BaseOf[n \in DOMAIN Declared] ==
    LET d == Declared[n] IN IF d.body.is = "ref" THEN BaseOf[d.body.name] ELSE d

Base(d) == IF d.body.is = "ref" THEN symbols[d.body.name].base ELSE d

Composite(d) == d.body.is \in {"rec", "choice"}

\* An alias with a tag of its own has a descriptor of its own, if what it
\* names in the end is a builtin type other than INTEGER and ENUMERATED.
Retagged(d) == /\ d.tag # NoTag /\ d.body.is = "ref"
               /\ Base(d).body.is \in {"any", "prim"}
               /\ Base(d).body.is = "prim" => Base(d).body.u # 2

---------------------------------------------------------------------------
(* The compiler's check.                                                    *)

Tagset(T, o, a) == [tags |-> T, open |-> o, any |-> a]

\* The tags a decoder can see at the start of a value.
RECURSIVE TagSetOf(_)
TagSetOf(d) ==
    CASE d.tag # NoTag -> Tagset({d.tag}, FALSE, FALSE)
      [] d.tag = NoTag /\ d.body.is = "choice" ->
            LET subs == {TagSetOf(d.body.comps[i].d) : i \in DOMAIN d.body.comps}
            IN Tagset(UNION {s.tags : s \in subs},
                      d.body.ext # NoExt \/ \E s \in subs : s.open, \E s \in subs : s.any)
      [] d.tag = NoTag /\ d.body.is = "ref"  -> TagSetOf(Base(d))
      [] d.tag = NoTag /\ d.body.is = "any"  -> Tagset({}, FALSE, TRUE)
      [] d.tag = NoTag /\ d.body.is = "rec"  -> Tagset({<<0, 16>>}, FALSE, FALSE)
      [] d.tag = NoTag /\ d.body.is = "prim" -> Tagset({<<0, d.body.u>>}, FALSE, FALSE)

Clash(a, b) == \/ a.any \/ b.any
               \/ a.tags \cap b.tags # {}
               \/ a.open /\ b.open

\* Mutant of Span: the component that ends the span is not compared.
SpanOfOptional(t, i) == {j \in i + 1 .. Len(t.comps) : \A k \in i + 1 .. j : t.comps[k].opt}

\* The components an optional component of a SEQUENCE is compared with: up to
\* the first that must be there, or to the extension marker.
Span(t, i) ==
    {j \in i + 1 .. Len(t.comps) :
        /\ \A k \in i + 1 .. j - 1 : t.comps[k].opt
        /\ ~ (i <= t.ext /\ t.ext < j)}

AutoTagged(t) == /\ schema.default = "AUTOMATIC"
                 /\ \A i \in DOMAIN t.comps : t.comps[i].d.tag = NoTag

\* Mutant of Distinct: the tags AUTOMATIC will replace are compared too.
DistinctAsWritten(t) ==
    \A i, j \in DOMAIN t.comps :
        (/\ i < j
         /\ t.kind = "SEQUENCE" => t.comps[i].opt /\ j \in Span(t, i))
        => ~ Clash(TagSetOf(t.comps[i].d), TagSetOf(t.comps[j].d))

Distinct(t) ==
    \/ AutoTagged(t)
    \/ \A i, j \in DOMAIN t.comps :
        (/\ i < j
         /\ t.kind = "SEQUENCE" => t.comps[i].opt /\ j \in Span(t, i))
        => ~ Clash(TagSetOf(t.comps[i].d), TagSetOf(t.comps[j].d))

ImplicitAny(d) == d.tag # NoTag /\ d.mode = "IMPLICIT" /\ Base(d).body.is = "any"

\* The CHOICE types among the type assignments are checked like the type.
ChoiceTypes == {symbols[n].direct.body : n \in {m \in DOMAIN symbols : symbols[m].direct.body.is = "choice"}}

Accepts == /\ \A t \in {schema} \cup ChoiceTypes : Distinct(t)
           /\ \A i \in DOMAIN schema.comps : ~ ImplicitAny(schema.comps[i].d)

---------------------------------------------------------------------------
(* The tables the compiler writes.                                          *)

UntaggedChoice(d) == \/ d.body.is = "choice"
                     \/ Base(d).body.is = "choice" /\ Base(d).tag = NoTag

IsAny(d) == Base(d).body.is = "any"

MemberExplicit(d) ==
    \/ d.mode = "EXPLICIT"
    \/ /\ d.mode = ""
       /\ (schema.default = "EXPLICIT" \/ UntaggedChoice(d) \/ IsAny(d))

UnderlyingTag(d) ==
    LET b == Base(d).body
    IN CASE b.is = "prim" -> <<0, b.u>> [] b.is = "any" -> <<0, 4>>
         [] b.is = "rec" -> <<0, 16>>   [] b.is = "choice" -> NoTag

NaturalTag(d) ==
    CASE d.tag # NoTag -> d.tag
      [] d.tag = NoTag /\ d.body.is # "ref" -> UnderlyingTag(d)
      [] d.tag = NoTag /\ d.body.is = "ref" ->
            LET direct == symbols[d.body.name].direct
            IN IF Retagged(direct) THEN direct.tag
               ELSE IF Base(d).tag # NoTag THEN Base(d).tag ELSE UnderlyingTag(d)

\* An EXPLICIT tag wraps; so does any tag over an alias of something that is
\* constructed, or is EXPLICIT itself.
TypeExplicit(d) ==
    /\ d.tag # NoTag
    /\ \/ MemberExplicit(d)
       \/ /\ d.body.is = "ref"
          /\ \/ Composite(Base(d))
             \/ Base(d).tag # NoTag /\ MemberExplicit(Base(d))

MemberTag(d, auto, n) ==
    IF d.tag # NoTag
    THEN [tag |-> d.tag, override |-> TRUE, explicit |-> MemberExplicit(d)]
    ELSE IF auto
    THEN [tag |-> <<2, n>>, override |-> TRUE, explicit |-> UntaggedChoice(d)]
    ELSE [tag |-> IF NaturalTag(d) = NoTag THEN Zero ELSE NaturalTag(d),
          override |-> FALSE, explicit |-> FALSE]

Less(a, b) == a[1] < b[1] \/ (a[1] = b[1] /\ a[2] < b[2])

LastKey == <<9, 9>>             \* sorts behind every tag

\* Where a component sorts: by its tag, an untagged CHOICE by the smallest tag
\* of its root.
RECURSIVE SortKey(_)
SortKey(d) ==
    LET b == Base(d)
        Root == {SortKey(b.body.comps[i].d) :
                   i \in {k \in DOMAIN b.body.comps : b.body.ext = NoExt \/ k <= b.body.ext}}
    IN CASE d.tag # NoTag -> d.tag
         [] d.tag = NoTag /\ b.body.is = "choice" /\ (d.body.is = "choice" \/ b.tag = NoTag) ->
               IF Root = {} THEN LastKey ELSE CHOOSE k \in Root : \A l \in Root : ~ Less(l, k)
         [] OTHER -> NaturalTag(d)

\* The components in table order: a CHOICE's alternatives and a SET's root
\* components by tag, root and additions apart; the rest as written.
TableOrder(t) ==
    LET n == Len(t.comps)
        root == IF t.ext = NoExt THEN n ELSE t.ext
        Keyed(S, sort) == {[key |-> IF sort THEN SortKey(t.comps[i].d) ELSE Zero, at |-> i] : i \in S}
        Before(a, b) == Less(a.key, b.key) \/ (a.key = b.key /\ a.at < b.at)
        Sorts(part) == ~ AutoTagged(t) /\ (t.kind = "CHOICE" \/ (t.kind = "SET" /\ part = "root"))
        places(keyed) == [k \in DOMAIN keyed |-> keyed[k].at]
    IN places(SetToSortSeq(Keyed(1 .. root, Sorts("root")), Before)
              \o SetToSortSeq(Keyed(root + 1 .. n, Sorts("additions")), Before))

\* The tags that lead to an alternative: its own, or those of the CHOICE it is.
RECURSIVE BerTagsFor(_)
BerTagsFor(d) ==
    IF NaturalTag(d) # NoTag THEN {NaturalTag(d)}
    ELSE UNION {BerTagsFor(Base(d).body.comps[i].d) : i \in DOMAIN Base(d).body.comps}

\* A CHOICE gets a table of tags when one of its alternatives has no tag.
HasBerTable(t) == /\ t.kind = "CHOICE" /\ ~ AutoTagged(t)
                  /\ \E i \in DOMAIN t.comps : NaturalTag(t.comps[i].d) = NoTag

RECURSIVE Rows(_)

\* A descriptor: the tag, and the table of the type under it.
Describe(d) ==
    [tag |-> NaturalTag(d), explicit |-> TypeExplicit(d), natural |-> UnderlyingTag(d),
     of |-> LET b == Base(d).body
            IN IF b.is = "choice" THEN [is |-> "choice", rows |-> Rows(b), open |-> b.ext # NoExt] ELSE b]

\* The descriptor of a component's type.  The tag written at the component is
\* the component's, not part of it.
Descriptor(d) ==
    Describe(IF d.body.is # "ref" THEN [d EXCEPT !.tag = NoTag]
             ELSE IF Retagged(symbols[d.body.name].direct) THEN symbols[d.body.name].direct ELSE Base(d))

\* The row of component i, the n-th of the table: its type's descriptor, its
\* tag, and the tags that lead to it.  Additions are OPTIONAL whatever the
\* schema says.
Row(t, i, n) ==
    LET c == t.comps[i]
        row(m) == [of |-> i, def |-> Descriptor(c.d), tag |-> m.tag, override |-> m.override,
                   explicit |-> m.explicit,
                   on |-> IF HasBerTable(t) THEN BerTagsFor(c.d) ELSE {m.tag},
                   optional |-> c.opt \/ (t.ext # NoExt /\ i > t.ext)]
    IN row(MemberTag(c.d, AutoTagged(t), n - 1))

Rows(t) == LET rows(order) == [n \in DOMAIN order |-> Row(t, order[n], n)] IN rows(TableOrder(t))

---------------------------------------------------------------------------
(* BerCodec over the tables.                                                *)

Wrap(tag, in)   == [tag |-> tag, in |-> in, leaf |-> Absent]
Leaf(tag, leaf) == [tag |-> tag, in |-> <<>>, leaf |-> leaf]

\* What a SEQUENCE holds here: one BOOLEAN.  An ANY holds a TLV of any tag.
RecContent(v) == <<Leaf(<<0, 1>>, v)>>
AnyTLV(v)     == Leaf(<<1, 7>>, v)
NewTLV        == Leaf(Foreign, <<"new">>)

\* A descriptor under its EXPLICIT tag.
Inner(def) == [def EXCEPT !.tag = def.natural, !.explicit = FALSE]

RECURSIVE Write(_, _)
WriteRow(row, v) ==
    LET tagged(plain) ==
            CASE ~ row.override -> plain
              [] row.override /\ row.explicit   -> <<Wrap(row.tag, plain)>>
              [] row.override /\ ~ row.explicit -> <<[plain[1] EXCEPT !.tag = row.tag]>>
    IN tagged(Write(row.def, v))

RowOf(rows, i) == rows[CHOOSE r \in DOMAIN rows : rows[r].of = i]

WriteBody(def, v) ==
    CASE def.of.is = "prim" -> <<Leaf(def.tag, v)>>
      [] def.of.is = "rec"  -> <<Wrap(def.tag, RecContent(v))>>
      [] def.of.is = "any"  -> <<AnyTLV(v)>>
      [] def.of.is = "choice" /\ v = Unknown -> <<NewTLV>>
      [] def.of.is = "choice" /\ v # Unknown ->
            LET alt == CHOOSE i \in DOMAIN def.of.rows : AltName[i] = v[1]
            IN WriteRow(RowOf(def.of.rows, alt), Tail(v))

Write(def, v) ==
    LET body == WriteBody(IF def.explicit THEN Inner(def) ELSE def, v)
    IN IF def.explicit THEN <<Wrap(def.tag, body)>> ELSE body

Failed == [ok |-> FALSE, v |-> Garbage, rest |-> <<>>]
Done(v, rest) == [ok |-> TRUE, v |-> v, rest |-> rest]

\* The contents of a TLV as the value of a builtin type: any octets are one.
Octets(tlv) == IF tlv.in = <<>> THEN tlv.leaf ELSE Garbage

\* The contents of a TLV as the components of a SEQUENCE.
Content(tlv) == IF tlv.in # <<>> /\ tlv.in = RecContent(tlv.in[1].leaf)
                THEN Done(tlv.in[1].leaf, <<>>) ELSE Failed

\* The builtin types whose contents decode_value takes as they are; for the
\* others it puts the type's own tag back and starts over.
ReadsContent == {1, 2}

Peek(in) == IF in = <<>> THEN NoTag ELSE in[1].tag

RECURSIVE Read(_, _)
RECURSIVE ReadValue(_, _)
ReadRow(row, in) ==
    CASE ~ row.override -> Read(row.def, in)
      [] row.override /\ Peek(in) # row.tag -> Failed
      [] row.override /\ Peek(in) = row.tag ->
            [(IF row.explicit THEN Read(row.def, in[1].in) ELSE ReadValue(row.def, in[1]))
                EXCEPT !.rest = Tail(in)]

\* The alternative a table sends the next TLV to; a table of an extensible
\* CHOICE passes over what it does not know.
ReadChoice(rows, open, in) ==
    LET hits == {r \in DOMAIN rows : Peek(in) \in rows[r].on}
        named(row, r) == IF r.ok THEN [r EXCEPT !.v = <<AltName[row.of]>> \o @] ELSE r
        taken(row) == named(row, ReadRow(row, in))
    IN CASE in = <<>> -> Failed
         [] in # <<>> /\ hits # {} -> taken(rows[Min(hits)])
         [] in # <<>> /\ hits = {} -> IF open THEN Done(Unknown, Tail(in)) ELSE Failed

ReadBody(def, in) ==
    CASE def.of.is = "choice" -> ReadChoice(def.of.rows, def.of.open, in)
      [] def.of.is = "any"  -> Done(IF in # <<>> /\ in = <<AnyTLV(in[1].leaf)>> THEN in[1].leaf ELSE Garbage, <<>>)
      [] def.of.is = "prim" -> IF Peek(in) = def.tag THEN Done(Octets(in[1]), Tail(in)) ELSE Failed
      [] def.of.is = "rec"  -> IF Peek(in) = def.tag
                               THEN [Content(in[1]) EXCEPT !.rest = Tail(in)] ELSE Failed

Read(def, in) ==
    IF def.explicit /\ Peek(in) # def.tag THEN Failed
    ELSE LET r == ReadBody(IF def.explicit THEN Inner(def) ELSE def, IF def.explicit THEN in[1].in ELSE in)
         IN IF def.explicit THEN [r EXCEPT !.rest = Tail(in)] ELSE r

\* decode_value: the contents of a TLV whose tag was the component's.
ReadValue(def, tlv) ==
    CASE def.of.is = "prim" /\ def.of.u \in ReadsContent -> Done(Octets(tlv), <<>>)
      [] def.of.is = "prim" /\ def.of.u \notin ReadsContent ->
            Read(def, <<[tlv EXCEPT !.tag = def.tag]>>)
      [] def.of.is = "any" -> Done(Garbage, <<>>)
      [] def.of.is = "rec" -> Content(tlv)
      [] def.of.is = "choice" -> ReadChoice(def.of.rows, def.of.open, tlv.in)

\* Whether a TLV with this tag is row's: an untagged CHOICE is known by the tags
\* of its alternatives.
Matches(row, tag) ==
    IF row.def.of.is = "choice" /\ row.tag = Zero
    THEN \E r \in DOMAIN row.def.of.rows : tag \in row.def.of.rows[r].on
    ELSE tag = row.tag

\* The components of a SET, put in table order; what matches no row comes last.
SetInTableOrder(rows, in) ==
    LET Place(slots, tlv) ==
          LET free == {r \in DOMAIN rows : slots[r] = <<>> /\ Matches(rows[r], tlv.tag)}
              at   == IF free = {} THEN Len(rows) + 1 ELSE Min(free)
          IN [slots EXCEPT ![at] = Append(@, tlv)]
    IN FlattenSeq(FoldLeft(Place, [r \in 1 .. Len(rows) + 1 |-> <<>>], in))

\* The walk over the rows: an optional row takes the next TLV if the tag is its.
ReadRows(rows, set, in) ==
    LET Absorb(acc, row, r) == [r EXCEPT !.v = [acc.v EXCEPT ![row.of] = r.v]]
        Step(acc, row) ==
          IF ~ acc.ok \/ (row.optional /\ ~ (acc.rest # <<>> /\ Matches(row, Peek(acc.rest))))
          THEN acc
          ELSE Absorb(acc, row, ReadRow(row, acc.rest))
    IN FoldLeft(Step, Done([i \in DOMAIN rows |-> Absent], IF set THEN SetInTableOrder(rows, in) ELSE in), rows)

\* A CHOICE's value as a component list with one component in it.
ReadTop(kind, rows, open, in) ==
    LET alone(r) == [r EXCEPT !.v = [i \in DOMAIN rows |->
                        IF r.ok /\ r.v[1] = AltName[i] THEN Tail(r.v) ELSE Absent]]
    IN IF kind = "CHOICE" THEN alone(ReadChoice(rows, open, in)) ELSE ReadRows(rows, kind = "SET", in)

WriteTop(rows, v) ==
    FlattenSeq([r \in DOMAIN rows |->
        IF v[rows[r].of] = Absent THEN <<>> ELSE WriteRow(rows[r], v[rows[r].of])])

---------------------------------------------------------------------------
(* The values of a type: each component's builtin types hold a value that no *)
(* other component has.  An extensible CHOICE may hold an alternative that   *)
(* only a newer version has.                                                 *)

RECURSIVE ValuesOf(_, _)
ValuesOf(d, own) ==
    LET b == Base(d).body
    IN IF b.is # "choice" THEN {own}
       ELSE UNION {{<<AltName[i]>> \o v : v \in ValuesOf(b.comps[i].d, own)} : i \in DOMAIN b.comps}
              \cup (IF b.ext = NoExt THEN {} ELSE {Unknown})

\* An addition that is not OPTIONAL is there whenever a later one is.
Legal(t, v) ==
    IF t.kind = "CHOICE" THEN Cardinality({i \in DOMAIN v : v[i] # Absent}) = 1
    ELSE \A i \in DOMAIN v :
           v[i] = Absent => \/ t.comps[i].opt
                            \/ (t.ext # NoExt /\ i > t.ext /\ \A j \in i .. Len(v) : v[j] = Absent)

Values(t) ==
    LET comps == DOMAIN t.comps
        held  == [i \in comps |-> ValuesOf(t.comps[i].d, <<AltName[i], "value">>) \cup {Absent}]
        all   == UNION {held[i] : i \in comps}
    IN {v \in [comps -> all] : (\A i \in comps : v[i] \in held[i]) /\ Legal(t, v)}

Orders(t, in) == IF t.kind = "SET" THEN {[i \in DOMAIN in |-> in[p[i]]] : p \in Permutations(DOMAIN in)} ELSE {in}

---------------------------------------------------------------------------

Schemas == [kind : {"SEQUENCE", "SET", "CHOICE"},
            default : {"EXPLICIT", "IMPLICIT", "AUTOMATIC"},
            comps : Components, ext : -1 .. 3]

Init == /\ symbols = [n \in DOMAIN Declared |-> [direct |-> Declared[n], base |-> BaseOf[n]]]
        /\ schema \in Schemas
        /\ schema.ext # 0 /\ schema.ext <= Len(schema.comps)
        /\ schema.kind = "CHOICE" => \A i \in DOMAIN schema.comps : ~ schema.comps[i].opt
        /\ phase = "parsed" /\ table = <<>> /\ sent = <<>> /\ wire = <<>> /\ got = <<>>

Refuse == /\ phase = "parsed" /\ ~ Accepts
          /\ phase' = "refused"
          /\ UNCHANGED <<symbols, schema, table, sent, wire, got>>

Compile == /\ phase = "parsed" /\ Accepts
           /\ phase' = "compiled" /\ table' = Rows(schema)
           /\ UNCHANGED <<symbols, schema, sent, wire, got>>

\* A peer encodes a value, in any order if it is a SET (DER peers sort).
Send == /\ phase = "compiled"
        /\ \E v \in Values(schema) : \E w \in Orders(schema, WriteTop(table, v)) :
              sent' = v /\ wire' = w
        /\ phase' = "sent"
        /\ UNCHANGED <<symbols, schema, table, got>>

\* A peer with a newer version of the type sends something more: an addition
\* at the end, or an alternative of its own.
SendNewer ==
    /\ phase = "compiled" /\ schema.ext # NoExt
    /\ IF schema.kind = "CHOICE"
       THEN sent' = [i \in DOMAIN schema.comps |-> Absent] /\ wire' = <<NewTLV>>
       ELSE \E v \in Values(schema) : sent' = v /\ wire' = Append(WriteTop(table, v), NewTLV)
    /\ phase' = "sent"
    /\ UNCHANGED <<symbols, schema, table, got>>

Decoded(rows, in) == ReadTop(schema.kind, rows, schema.ext # NoExt, in)

Receive == /\ phase = "sent"
           /\ \E r \in {Decoded(table, wire)} :
                phase' = (IF r.ok THEN "received" ELSE "failed") /\ got' = r.v
           /\ UNCHANGED <<symbols, schema, table, sent, wire>>

Stop == phase \in {"refused", "received", "failed"} /\ UNCHANGED vars

Next == Refuse \/ Compile \/ Send \/ SendNewer \/ Receive \/ Stop

Spec == Init /\ [][Next]_vars

---------------------------------------------------------------------------

(* Where check, tables and codec do not agree with each other today; each is  *)
(* described in the README.                                                   *)

\* The check stops at the extension marker, the decoder does not.
SpanPassesMarker(t) ==
    /\ t.kind = "SEQUENCE" /\ t.ext \in 1 .. Len(t.comps) - 1
    /\ t.comps[t.ext].opt

\* The tags AUTOMATIC gives the alternatives of a CHOICE are known to the
\* CHOICE's own table only.
AutoChoiceInside(t) ==
    /\ schema.default = "AUTOMATIC" /\ ~ AutoTagged(t)
    /\ \E i \in DOMAIN t.comps : LET b == Base(t.comps[i].d).body
                               IN b.is = "choice" /\ AutoTagged(b)

\* decode_value takes the contents of an EXPLICIT type for those of what it tags.
ImplicitOverExplicit(t) ==
    \E row \in ToSet(Rows(t)) : row.override /\ ~ row.explicit /\ row.def.explicit

\* The check does not see the tag of an alias.
RetaggedAlias(t) ==
    \E i \in DOMAIN t.comps : LET b == t.comps[i].d.body
                             IN b.is = "ref" /\ Retagged(symbols[b.name].direct)

\* An ANY of its own takes the rest; one tagged by AUTOMATIC loses its tag.
BareAny(t) == \E i \in DOMAIN t.comps : IsAny(t.comps[i].d) /\ t.comps[i].d.tag = NoTag

\* An unknown alternative is no reason to call an OPTIONAL CHOICE present, and
\* in a SET it is not put in the CHOICE's place.
UnknownUnseen(t) ==
    \E i \in DOMAIN t.comps :
        LET c == t.comps[i]
        IN /\ Base(c.d).body.is = "choice" /\ Base(c.d).body.ext # NoExt
           /\ MemberTag(c.d, AutoTagged(t), 0).tag = Zero
           /\ (c.opt \/ (t.ext # NoExt /\ i > t.ext) \/ t.kind # "SEQUENCE")

\* A type and the CHOICE types in it.
RECURSIVE TypesIn(_)
TypesIn(t) ==
    {t} \cup UNION {IF Base(t.comps[i].d).body.is = "choice" THEN TypesIn(Base(t.comps[i].d).body)
                    ELSE {} : i \in DOMAIN t.comps}

Regular(type) == \A t \in TypesIn(type) :
    ~ (\/ SpanPassesMarker(t)
       \/ AutoChoiceInside(t)
       \/ ImplicitOverExplicit(t)
       \/ RetaggedAlias(t)
       \/ BareAny(t)
       \/ UnknownUnseen(t))

\* What the compiler accepts, the codec reads back as it was sent: each TLV
\* goes to the component it was written for, whatever is absent, in whatever
\* order a SET comes and whatever a newer peer adds.  That a SET may come in
\* any order is what set_in_table_order and its tests say, and one line of the
\* book denies (README, section 5).
ReadsBack ==
    phase \in {"received", "failed"} =>
        \/ phase = "received" /\ got = sent
        \/ ~ Regular(schema)

\* What the compiler refuses as ambiguous would be misread: some value, in some
\* order, would not come back.
RefusedForCause ==
    phase = "refused" =>
        \/ \E rows \in {Rows(schema)} : \E v \in Values(schema) : \E w \in Orders(schema, WriteTop(rows, v)) :
              \E r \in {Decoded(rows, w)} : ~ r.ok \/ r.v # v
        \/ ~ Regular(schema)

=============================================================================
