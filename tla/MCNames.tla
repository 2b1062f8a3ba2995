------------------------------ MODULE MCNames --------------------------------
(***************************************************************************)
(* Two modules that use each other's names, in both orders of the files,   *)
(* and a third that competes with one of them for an object identifier.    *)
(***************************************************************************)
EXTENDS Names

T == <<"T">>
U == <<"U">>
F == <<"F">>
H == <<"H">>
G == <<"G">>
C == <<"C">>
V == <<"v">>
W == <<"w">>
K == <<"K">>

Base == Body("base", "", Nothing, Nothing)
Ref(n) == Body("ref", "", n, Nothing)
Far(m, n) == Body("ref", m, n, Nothing)
Inst(n, a) == Body("inst", "", n, [mod |-> "", to |-> a])
Generic(n) == Body("generic", "", n, Nothing)
Class(n) == Body("class", "", n, Nothing)
Field(n) == Body("field", "", n, Nothing)
Literal == Body("value", "", Nothing, Nothing)
Link(m, n) == Body("link", m, n, Nothing)

Def(n, b) == [name |-> n, body |-> b]
All == {Nothing}

Both(a, b) == {<<a, b>>, <<b, a>>}

\* A uses B's types, generics and classes; either may have a U of its own.
Types == UNION {Both(
    Module("A", <<>>, All, <<Import("B", <<>>, "exact", <<T, G, C>>)>>,
           <<Def(F, f), Def(H, h)>> \o u),
    Module("B", <<>>, All, im, <<Def(T, t), Def(G, g), Def(C, c), Def(K, k)>> \o w)) :
      f \in {Ref(T), Far("B", T), Inst(G, T), Field(C), Ref(U), Ref(F)},
      h \in {Ref(F), Inst(G, F)},
      u \in {<<>>, <<Def(U, Base)>>}, w \in {<<>>, <<Def(U, Base)>>},
      im \in {<<>>, <<Import("A", <<>>, "exact", <<U>>)>>},
      t \in {Base, Ref(U), Inst(G, U)}, g \in {Generic(Formal), Generic(U)},
      c \in {Class(Nothing), Class(U)}, k \in {Base, Inst(G, T)}}

\* B and D compete for what A imports.
Oids == UNION {{<<a, b, d>>, <<d, b, a>>} : a \in {
    Module("A", o, All, <<Import(from, <<1, 1, 1>>, p, <<T>>)>>, <<Def(F, Ref(T))>>) :
      o \in {<<>>, <<1, 1, 2>>}, from \in {"A", "B", "D"},
      p \in {"exact", "successors", "descendants"}},
    b \in {Module("B", o, All, <<>>, <<Def(T, Base)>>) : o \in {<<>>, <<1, 1, 1>>, <<1, 1, 2>>}},
    d \in {Module(n, o, x, <<>>, <<Def(T, Base)>>) : n \in {"B", "D"},
      o \in {<<1, 1, 1>>, <<1, 2, 1>>, <<1, 1, 1, 1>>}, x \in {All, {}}}}

Values == UNION {Both(
    Module("A", <<>>, All, <<Import("B", <<>>, "exact", <<W>>)>>, <<Def(V, v), Def(U, u)>>),
    Module("B", <<>>, All, <<Import("A", <<>>, "exact", <<V>>)>>, <<Def(W, w)>>)) :
      v \in {Literal, Link("", U), Link("", W), Link("B", W), Link("B", U)},
      u \in {Literal, Link("", V), Link("", W), Link("", U)},
      w \in {Literal, Link("", V), Link("A", U), Link("A", V)}}

\* A chain of values through three modules, each visible to the one before.
X == <<"x">>
Rings == {<<Module("A", <<>>, All, <<Import("B", <<>>, "exact", <<W>>)>>, <<Def(V, Link("", W))>>),
            Module("B", <<>>, All, <<Import("C", <<>>, "exact", <<X>>)>>, <<Def(W, Link("", X))>>),
            Module("C", <<>>, All, <<Import("A", <<>>, "exact", <<V>>)>>, <<Def(X, x)>>)>> :
              x \in {Literal, Link("", V), Link("A", V), Link("B", W)}}

Duplicates == {<<Module("A", <<>>, All, <<>>, <<Def(T, Base), Def(T, Ref(T))>>)>>}

MCPrograms == Types \cup Oids \cup Values \cup Rings \cup Duplicates
=============================================================================
