----------------------------- MODULE MCScalars ------------------------------
(* Constrained types of every kind: each bound at, below and above the edges *)
(* of a machine number, each way to write SIZE and FROM, as a member and as  *)
(* an assignment.                                                            *)
EXTENDS Scalars

At(n)   == [kind |-> "value", n |-> n, open |-> FALSE, named |-> FALSE]
Open(n) == [At(n) EXCEPT !.open = TRUE]
MIN == [kind |-> "min", n |-> 0, open |-> FALSE, named |-> FALSE]
MAX == [kind |-> "max", n |-> 0, open |-> FALSE, named |-> FALSE]

Node(is, lo, hi, ops) == [is |-> is, ext |-> FALSE, lo |-> lo, hi |-> hi, ops |-> ops]
Range_(lo, hi) == Node("range", lo, hi, <<>>)
One(n) == Node("value", At(n), At(n), <<>>)
Around(is, c) == Node(is, MIN, MAX, <<c>>)
Both(a, b) == Node("and", MIN, MAX, <<a, b>>)
Either(a, b) == Node("or", MIN, MAX, <<a, b>>)
Ext(c) == [c EXCEPT !.ext = TRUE]

Type(builtin, cs) ==
    [builtin |-> builtin, cs |-> cs, bits |-> FALSE, member |-> FALSE, entries |-> <<>>, dflt |-> "strict",
     items |-> <<>>, xer |-> "hex"]
Member(d) == [d EXCEPT !.member = TRUE]

Ints == {<<>>} \cup {<<Range_(lo, hi)>> : lo \in {MIN, At(-512), At(-1), At(0), At(3)}, hi \in {MAX}}
        \cup {<<Range_(At(lo), At(hi))>> : lo \in {-512, -1, 0, 3}, hi \in {-1, 3, 20, 511}}
        \cup {<<Range_(At(lo), At(hi))>> : lo \in {0, 3}, hi \in {512, 1023}}
Marked_ == {<<Ext(cs[1])>> : cs \in Ints \ {<<>>}}
Serial == {<<Range_(At(0), At(20)), Range_(At(3), MAX)>>, <<Range_(At(-1), At(20)), Range_(At(-512), At(3))>>}
Integers_ == {d \in {Type("INTEGER", cs) : cs \in Ints \cup Marked_ \cup Serial} :
                 \A i \in DOMAIN d.cs : d.cs[i].hi.kind = "max" \/ d.cs[i].lo.n <= d.cs[i].hi.n}

Sizes == {Around("size", One(1)), Around("size", Range_(At(0), At(2))), Around("size", Range_(At(1), MAX))}
Froms == {Around("from", Range_(At(1), At(5))), Around("from", Either(One(1), One(5))), Around("from", One(2))}
SizeOnly == {<<>>} \cup {<<s>> : s \in Sizes} \cup {<<Around("size", Ext(Range_(At(1), At(2))))>>, <<Ext(Around("size", One(1)))>>}
Strings_ == SizeOnly \cup {<<f>> : f \in Froms} \cup {<<s, f>> : s \in Sizes, f \in Froms}
            \cup {<<Both(Around("size", Range_(At(1), At(2))), Around("from", Either(One(1), One(5))))>>,
                  <<Around("size", Ext(Range_(At(1), At(2)))), Around("from", Range_(At(1), At(5)))>>,
                  <<Around("from", Ext(Range_(At(1), At(5))))>>}

\* The sidecar asks for a visible SIZE of a member, of its type, or of something else.
Configs == {<<>>, <<[for |-> "field", mode |-> "visible"]>>,
            <<[for |-> "type", mode |-> "visible"], [for |-> "field", mode |-> "strict"]>>,
            <<[for |-> "type", mode |-> "visible"], [for |-> "type", mode |-> "strict"]>>}

Texts == {Type("IA5String", cs) : cs \in Strings_} \cup {Type("BMPString", cs) : cs \in Strings_}
         \cup {Type("UTF8String", cs) : cs \in Strings_}
         \cup {[Type("UTF8String", <<s>>) EXCEPT !.entries = e] : s \in Sizes, e \in Configs}
         \cup {Type("GeneralString", cs) : cs \in SizeOnly}
Raw == {[Type("OCTET STRING", cs) EXCEPT !.xer = x] : cs \in SizeOnly, x \in {"hex", "base64", "utf8"}}
Bits_ == {[Type("BIT STRING", cs) EXCEPT !.bits = b] : cs \in SizeOnly, b \in BOOLEAN}
Reals == {Type("REAL", cs) : cs \in
            {<<>>, <<Range_(At(-1), Open(5))>>, <<Range_(MIN, At(3))>>, <<Range_(Open(0), MAX)>>,
             <<Ext(Range_(At(0), At(3)))>>, <<Range_(At(0), At(5)), Range_(At(-1), Open(3))>>,
             <<Around("base", One(10))>>}}
Enums == {[Type("ENUMERATED", <<>>) EXCEPT !.items = items] : items \in
            {<< <<"a", -1>>, <<"b", 5>>, <<"c", -1>> >>, << <<"a", 3>>, Ellipsis, <<"b", -1>>, <<"c", 9>> >>,
             << <<"a", 5>>, <<"b", 2>>, <<"c", 8>>, Ellipsis, <<"d", 1>> >>}}

MCDefs == UNION {{d, Member(d)} : d \in Integers_ \cup Texts \cup Raw \cup Bits_}
          \cup Reals \cup Enums \cup {Type("NULL", <<>>), Type("BOOLEAN", <<>>)}

Chars == {0, 1, 2, 5}
CharsOf(builtin) ==
    CASE builtin = "IA5String"  -> Chars \cup {20}
      [] builtin = "BMPString"  -> {1, 5, 20, 33}
      [] builtin = "UTF8String" -> {0, 2, 5, 20, 40}
      [] OTHER -> {0, 1, 5, 20}

UpTo(set, n) == UNION {[1 .. k -> set] : k \in 0 .. n}

MCValues(d) ==
    CASE d.builtin = "INTEGER" -> {<<n>> : n \in {-512, -2, -1, 0, 2, 3, 4, 20, 21, 511, 512, 1023}}
      [] d.builtin = "REAL" -> {<<s, n>> : s \in {Double, Decimal}, n \in {-2, -1, 0, 1, 3, 4, 5}}
                               \cup {<<Double, n>> : n \in {Infinity, -Infinity, NotANumber}}
      [] d.builtin = "ENUMERATED" -> {<<n>> : n \in {0, 1, 2, 3, 5, 6, 8, 9, 10}}
      [] d.builtin = "BOOLEAN" -> {<<0>>, <<1>>}
      [] d.builtin = "NULL" -> {<<>>}
      [] d.builtin = "BIT STRING" -> UpTo({0, 1}, 3) \cup {<<0, 1, 1, 0, 0>>, <<1, 1, 1, 1, 1>>}
      [] OTHER -> {Stored(d.builtin, cps) : cps \in UpTo(CharsOf(d.builtin), 1)
                      \cup {<<1, 5>>, <<5, 2>>, <<20, 1>>, <<20, 20>>, <<1, 5, 5>>, <<20, 2, 0>>}}
=============================================================================
