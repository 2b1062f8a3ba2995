------------------------------- MODULE MCTags -------------------------------
(* Small modules for Tags: types of one, two and three components, the more  *)
(* components the fewer forms they take.                                     *)
EXTENDS RustTags

Plain(body) == [tag |-> NoTag, mode |-> "", body |-> body]
Tagged(n, mode, body) == [tag |-> <<2, n>>, mode |-> mode, body |-> body]
Comp(d, opt) == [d |-> d, opt |-> opt]

Flag == [is |-> "prim", u |-> 1]
Whole  == [is |-> "prim", u |-> 2]
Text == [is |-> "prim", u |-> 12]
Rec  == [is |-> "rec"]
Anything  == [is |-> "any"]
Ref(n) == [is |-> "ref", name |-> n]
Choice(comps, ext) == [is |-> "choice", kind |-> "CHOICE", comps |-> comps, ext |-> ext]

MCDeclared ==
    [Number |-> Tagged(1, "", Whole),                   \* Number ::= [1] INTEGER
     Wrapped |-> Tagged(3, "EXPLICIT", Whole),          \* Wrapped ::= [3] EXPLICIT INTEGER
     Label  |-> Plain(Text),                          \* Label ::= UTF8String
     Label2 |-> Tagged(1, "", Ref("Label")),          \* Label2 ::= [1] Label
     Either |-> Plain(Choice(<<Comp(Plain(Whole), FALSE), Comp(Plain(Flag), FALSE)>>, NoExt)),
     Open   |-> Plain(Choice(<<Comp(Tagged(0, "", Flag), FALSE), Comp(Plain(Rec), FALSE)>>, 1)),
     Nested |-> Plain(Choice(<<Comp(Tagged(2, "", Whole), FALSE), Comp(Plain(Ref("Either")), FALSE)>>, NoExt)),
     Outer  |-> Tagged(1, "", Choice(<<Comp(Plain(Flag), FALSE), Comp(Tagged(0, "", Whole), FALSE)>>, NoExt))]

\* What a component may be when there are one, two and three of them.
One == {Plain(b) : b \in {Flag, Whole, Rec, Anything} \cup {Ref(n) : n \in DOMAIN MCDeclared}}
         \cup {Tagged(0, "", Ref(n)) : n \in DOMAIN MCDeclared}
         \cup {Tagged(0, "", Anything), Tagged(0, "IMPLICIT", Anything), Tagged(0, "IMPLICIT", Text)}

Two == {Plain(b) : b \in {Whole, Rec, Anything, Ref("Number"), Ref("Label2"),
                          Ref("Either"), Ref("Open"), Ref("Nested"), Ref("Outer")}}
         \cup {Tagged(0, "", Flag), Tagged(0, "", Ref("Either")), Tagged(1, "", Whole),
               Tagged(1, "", Ref("Open")), Tagged(1, "EXPLICIT", Ref("Number"))}

Three == {Plain(Whole), Plain(Ref("Either")), Tagged(0, "", Flag)}

Of(forms, n) == [1 .. n -> {Comp(d, o) : d \in forms, o \in BOOLEAN}]

MCComponents == Of(One, 1) \cup Of(Two, 2) \cup Of(Three, 3)
=============================================================================
