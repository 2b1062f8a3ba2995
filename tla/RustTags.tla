------------------------------ MODULE RustTags ------------------------------
(***************************************************************************)
(* The same schema compiled with --target=rust.  RustBackend turns the     *)
(* tags of Tags into the framing of each row, ber::object of the Rust      *)
(* runtime walks the rows, and a peer that runs it talks to one that runs  *)
(* the C++ tables.                                                         *)
(*                                                                         *)
(* A framing is [how, tag]: the TLV a row puts around its value.           *)
(***************************************************************************)
EXTENDS Tags

Frame(how, tag) == [how |-> how, tag |-> tag]
Delegate == Frame("Delegate", NoTag)

\* compute_member_tag says "explicit" also of a reference to a tagged type
\* whose own tag is EXPLICIT.
OwnTagExplicit(d) == d.body.is = "ref" /\ Base(d).tag # NoTag /\ MemberExplicit(Base(d))

\* A type assignment's own framing, nothing if its tag is that of the builtin;
\* def is the type's descriptor, written from the same decision.
BerFraming(def) ==
    IF ~ def.explicit /\ def.tag = def.natural THEN Delegate
    ELSE Frame(IF def.explicit THEN "Explicit" ELSE "Implicit", def.tag)

\* An ANY that no EXPLICIT tag introduces cannot be told from its neighbours;
\* one that is an alternative has no row that reads it.
Covered(kind, d, explicit) == d.body.is = "any" => kind # "CHOICE" /\ explicit

\* The framing of a component in a type of this kind, from the row decided for
\* it and what compute_member_tag says of "explicit".
Framing(kind, d, row, explicit) ==
    LET primitive == row.def.of.is \in {"prim", "any"}
    IN CASE ~ Covered(kind, d, explicit) -> Frame("Unsupported", NoTag)
         [] Covered(kind, d, explicit) /\ row.override ->
               Frame(IF explicit THEN "Explicit" ELSE "Implicit", row.tag)
         [] Covered(kind, d, explicit) /\ ~ row.override /\ explicit ->
               IF primitive THEN BerFraming(row.def) ELSE Delegate
         [] Covered(kind, d, explicit) /\ ~ row.override /\ ~ explicit ->
               IF row.tag # Zero /\ (kind = "CHOICE" \/ (primitive /\ row.tag[1] # 0))
               THEN Frame("Implicit", row.tag)
               ELSE Frame(IF kind # "CHOICE" /\ row.optional /\ row.tag = Zero
                          THEN "DelegateChoice" ELSE "Delegate", NoTag)

RECURSIVE RustRows(_, _)

\* The Rust type under a component: what its PrimitiveRef, SequenceSpec or
\* ChoiceSpec knows of tags.
RustType(d, def) ==
    CASE def.of.is = "prim" -> [is |-> "prim", tag |-> def.natural]
      [] def.of.is = "any"  -> [is |-> "any", tag |-> NoTag]
      [] def.of.is = "rec"  -> [is |-> "rec", tag |-> def.tag]
      [] def.of.is = "choice" -> [is |-> "choice", tag |-> def.tag, open |-> def.of.open,
                                  rows |-> RustRows(Base(d).body, def.of.rows)]

\* A row of the Rust table.  The tags that lead to an alternative are those of
\* the C++ row; a member without a tag has a placeholder.
RustRow(kind, d, row) ==
    [of |-> row.of, on |-> row.on, optional |-> row.optional, type |-> RustType(d, row.def),
     tag |-> IF row.tag = Zero THEN <<0, 16>> ELSE row.tag,
     ber |-> Framing(kind, d, row, row.explicit \/ (~ row.override /\ OwnTagExplicit(d)))]

RustRows(t, rows) == [n \in DOMAIN rows |-> RustRow(t.kind, t.comps[rows[n].of].d, rows[n])]

---------------------------------------------------------------------------
(* encode_member_ref and its counterpart, over lists of TLVs.               *)

RECURSIVE RustWrite(_, _, _)

\* The chosen alternative of a CHOICE, or the TLV captured as an unknown one.
RustDispatch(type, v) ==
    IF v = Unknown THEN <<NewTLV>>
    ELSE LET write(row) == RustWrite(row.type, row.ber, Tail(v))
         IN write(RowOf(type.rows, CHOOSE i \in DOMAIN type.rows : AltName[i] = v[1]))

\* What a type's own TLV encloses, or all it writes if it has no tag.
RustContent(type, v) ==
    CASE type.is = "prim" -> <<>>            [] type.is = "any"    -> <<AnyTLV(v)>>
      [] type.is = "rec"  -> RecContent(v)   [] type.is = "choice" -> RustDispatch(type, v)

RustWrite(type, ber, v) ==
    LET under(tag, content) ==
            IF tag = NoTag THEN content ELSE <<[tag |-> tag, in |-> content, leaf |-> IF type.is = "prim" THEN v ELSE Absent]>>
        own(content) == under(IF ber.how = "Implicit" THEN ber.tag ELSE type.tag, content)
        framed(tlv) == IF ber.how = "Explicit" THEN <<Wrap(ber.tag, tlv)>> ELSE tlv
    IN framed(own(RustContent(type, v)))

RECURSIVE RustRead(_, _, _)

RustChoice(rows, open, in) ==
    LET hits == {r \in DOMAIN rows : Peek(in) \in rows[r].on}
        named(row, r) == IF r.ok THEN [r EXCEPT !.v = <<AltName[row.of]>> \o @] ELSE r
        taken(row) == named(row, RustRead(row.type, row.ber, in))
    IN CASE in = <<>> -> Failed
         [] in # <<>> /\ hits # {} -> taken(rows[Min(hits)])
         [] in # <<>> /\ hits = {} -> IF open THEN Done(Unknown, Tail(in)) ELSE Failed

\* A value whose own tag, if it has one, is that of the first TLV.
RustUnder(type, own, in) ==
    CASE type.is = "prim" -> Done(Octets(in[1]), <<>>)
      [] type.is = "rec"  -> Content(in[1])
      [] type.is = "any"  -> Done(IF in # <<>> /\ in = <<AnyTLV(in[1].leaf)>> THEN in[1].leaf ELSE Garbage, <<>>)
      [] type.is = "choice" -> RustChoice(type.rows, type.open, IF own = NoTag THEN in ELSE in[1].in)

\* Under an EXPLICIT tag, a SEQUENCE takes any one TLV for its own.
RustRead(type, ber, in) ==
    LET explicit == ber.how = "Explicit"
        own == IF ber.how = "Implicit" THEN ber.tag ELSE type.tag
        isOwn(at) == \/ own = NoTag
                     \/ Peek(at) = own
                     \/ explicit /\ type.is = "rec" /\ at # <<>>
        after(at, r) == [r EXCEPT !.rest = IF explicit THEN Tail(in) ELSE IF own = NoTag THEN @ ELSE Tail(at)]
        read(at) == IF isOwn(at) THEN after(at, RustUnder(type, own, at)) ELSE Failed
    IN IF ber.how = "Unsupported" \/ (explicit /\ Peek(in) # ber.tag) THEN Failed
       ELSE read(IF explicit THEN in[1].in ELSE in)

\* The tags a CHOICE without a tag may start with.
ChoiceBerTags(type) == UNION {type.rows[r].on : r \in DOMAIN type.rows}

StartsWith(row, tag) ==
    IF row.ber.how = "DelegateChoice" THEN tag \in ChoiceBerTags(row.type) ELSE tag = row.tag

\* A member that frames itself and holds a CHOICE is known by the CHOICE's
\* alternatives; an absent one holds nothing yet.
RustSetMatches(row, tag) ==
    IF row.ber.how = "Delegate" /\ row.type.is = "choice" /\ ~ row.optional
    THEN tag \in ChoiceBerTags(row.type)
    ELSE StartsWith(row, tag)

RustSetOrder(rows, in) ==
    LET Place(slots, tlv) ==
          LET free == {r \in DOMAIN rows : slots[r] = <<>> /\ RustSetMatches(rows[r], tlv.tag)}
          IN [slots EXCEPT ![IF free = {} THEN Len(rows) + 1 ELSE Min(free)] = Append(@, tlv)]
    IN FlattenSeq(FoldLeft(Place, [r \in 1 .. Len(rows) + 1 |-> <<>>], in))

RustReadRows(rows, set, in) ==
    LET Absorb(acc, row, r) == [r EXCEPT !.v = [acc.v EXCEPT ![row.of] = r.v]]
        Step(acc, row) ==
          IF ~ acc.ok \/ (row.optional /\ ~ (acc.rest # <<>> /\ StartsWith(row, Peek(acc.rest))))
          THEN acc
          ELSE Absorb(acc, row, RustRead(row.type, row.ber, acc.rest))
    IN FoldLeft(Step, Done([i \in DOMAIN rows |-> Absent], IF set THEN RustSetOrder(rows, in) ELSE in), rows)

RustReadTop(kind, rows, open, in) ==
    LET alone(r) == [r EXCEPT !.v = [i \in DOMAIN rows |->
                        IF r.ok /\ r.v[1] = AltName[i] THEN Tail(r.v) ELSE Absent]]
    IN IF kind = "CHOICE" THEN alone(RustChoice(rows, open, in)) ELSE RustReadRows(rows, kind = "SET", in)

RustWriteTop(rows, v) ==
    FlattenSeq([r \in DOMAIN rows |->
        IF v[rows[r].of] = Absent THEN <<>> ELSE RustWrite(rows[r].type, rows[r].ber, v[rows[r].of])])

---------------------------------------------------------------------------
(* Where the Rust walker differs from the C++ tables today; see the README.  *)

\* An EXPLICIT tag over a type assignment with a tag of its own: the alias is
\* taken apart to its builtin type and its own tag is lost.
RustDropsOwnTag(t) ==
    \E i \in DOMAIN t.comps : LET d == t.comps[i].d
                             IN /\ d.body.is = "ref" /\ ~ Composite(Base(d))
                                /\ d.tag # NoTag /\ MemberExplicit(d) /\ Base(d).tag # NoTag

\* A mandatory SET member of a CHOICE type with a tag: its TLV matches no row
\* and is moved to the end.
TaggedChoiceInSet(t) ==
    /\ t.kind = "SET"
    /\ \E i \in DOMAIN t.comps : LET d == t.comps[i].d
                               IN d.tag = NoTag /\ Base(d).body.is = "choice" /\ NaturalTag(d) # NoTag

\* An alternative ANY.
AnyAlternative(t) == t.kind = "CHOICE" /\ \E i \in DOMAIN t.comps : t.comps[i].d.body.is = "any"

BackendsDiffer(type) ==
    \E t \in TypesIn(type) : RustDropsOwnTag(t) \/ TaggedChoiceInSet(t) \/ AnyAlternative(t)


\* What either backend writes for a value is the same, and the Rust decoder
\* reads what a C++ peer sends, in whatever order a SET comes, and what a newer
\* C++ peer adds: the two runtimes interoperate on every schema outside the
\* disagreements named above.  The order of a SET is free in object.rs as it is
\* in C++, whatever one line of the book says (README, section 5).
BackendsInteroperate ==
    phase = "compiled" /\ Regular(schema) /\ ~ BackendsDiffer(schema) =>
        \E rows \in {RustRows(schema, table)} :
            \A v \in Values(schema) : \E written \in {WriteTop(table, v)} :
                /\ RustWriteTop(rows, v) = written
                /\ \A in \in Orders(schema, written)
                             \cup (IF schema.ext = NoExt \/ schema.kind = "CHOICE" THEN {} ELSE {Append(written, NewTLV)}) :
                      \E r \in {RustReadTop(schema.kind, rows, schema.ext # NoExt, in)} : r.ok /\ r.v = v

=============================================================================
