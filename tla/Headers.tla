------------------------------ MODULE Headers -------------------------------
(***************************************************************************)
(* The files the compiler writes for types that refer to each other, and   *)
(* what a C++ compiler makes of them.  Every type has a header, every      *)
(* SEQUENCE OF member a header of its own (its wrapper), and the generator *)
(* breaks the cycles of a recursive schema: it holds a value behind a      *)
(* pointer, declares a class in place of including its header, or includes *)
(* the header after the class.  The state machine is the preprocessor: it  *)
(* reads one source file, each header at most once (#pragma once).         *)
(*                                                                         *)
(* A schema maps a name to [kind |-> "record" | "choice", members],        *)
(* [kind |-> "list" | "alias", to] (a named SEQUENCE OF, a type reference) *)
(* or [kind |-> "leaf"].  A member is [to, opt, many]: OPTIONAL (or an     *)
(* extension addition), and SEQUENCE OF.  An inline SEQUENCE or CHOICE is  *)
(* the named type it is promoted to; a CHOICE has further alternatives of  *)
(* builtin types.                                                          *)
(***************************************************************************)
EXTENDS Integers, Sequences, FiniteSets, SequencesExt

CONSTANTS
    Names,      \* names of types
    Schemas,    \* the schemas compiled
    Modes       \* subset of BOOLEAN: with a namespace (-fprefix) or without

\* A type: its members are of types of the schema.
MemberOf == [to : Names, opt : BOOLEAN, many : BOOLEAN]
Definition == [kind : {"record", "choice"}, members : Seq(MemberOf)]
         \cup [kind : {"list", "alias"}, to : Names]
         \cup [kind : {"leaf"}]

WellFormed == /\ IsFiniteSet(Names) /\ Modes \subseteq BOOLEAN
              /\ \A s \in Schemas : s \in [Names -> Definition]
ASSUME SchemaAssumption == WellFormed

VARIABLES
    schema, prefixed,
    unit,       \* the type whose source file is compiled
    todo,       \* the directives and declarations left to read
    opened,     \* the headers read or being read
    declared,   \* the names declared so far
    complete    \* the classes defined so far
reader == <<schema, prefixed, unit, todo, opened, declared, complete>>

---------------------------------------------------------------------------
(* The type graph                                                           *)

IsClass(n) == schema[n].kind \in {"record", "choice"}
Record(n)  == schema[n].kind = "record"

\* Only SEQUENCE, SET and CHOICE have members: a walk ends at a named
\* SEQUENCE OF and at a type reference.
Members(n) == IF IsClass(n) THEN Range(schema[n].members) ELSE {}
Numbered(n) == IF IsClass(n) THEN schema[n].members ELSE <<>>

\* What is reached from S by any number of steps, step a function on Names.
Reach(S, step) ==
    LET R[k \in 0 .. Cardinality(Names)] ==
            IF k = 0 THEN S
            ELSE LET r == R[k - 1] IN r \cup UNION {step[x] : x \in r}
    IN R[Cardinality(Names)]

\* Steps of the walks: members of class type, those among them held by value
\* in C++, and all members and elements.
ClassMembers ==
    [n \in Names |-> {m.to : m \in {x \in Members(n) : ~ x.many /\ IsClass(x.to)}}]

HeldByValue == [n \in Names |->
    {m.to : m \in {x \in Members(n) : /\ ~ x.many /\ IsClass(x.to)
                                      /\ ~ (Record(n) /\ x.opt)
                                      /\ ~ (~ Record(n) /\ x.to = n)}}]

ThroughContainers == [n \in Names |-> {m.to : m \in Members(n)}]

Reaches(from, target, step) == target \in UNION {step[x] : x \in Reach({from}, step)}

AlternativeInCycle(n, t) == IsClass(t) /\ (t = n \/ Reaches(t, n, HeldByValue))

AliasWouldCycle(a) ==
    LET t == schema[a].to IN IsClass(t) /\ Reaches(t, a, ThroughContainers)

\* Mutant of MemberInCycle: only the direct case.
MemberIsSelf(n, t) == IsClass(t) /\ t = n
MemberInCycle(n, t) == IsClass(t) /\ Reaches(t, n, ClassMembers)

\* A reference followed to the type at the end of the chain.
Concrete(n) ==
    LET R[k \in 0 .. Cardinality(Names)] ==
            IF k = 0 THEN n
            ELSE LET r == R[k - 1] IN IF schema[r].kind = "alias" THEN schema[r].to ELSE r
    IN R[Cardinality(Names)]

\* The names of class types an element of type t reaches, as they are written.
Reachable(t) ==
    Reach({t}, [x \in Names |->
                   {m.to : m \in {y \in Members(Concrete(x)) : IsClass(Concrete(y.to))}}])

ExtraIncludes(t, self) == IF IsClass(Concrete(t)) THEN Reachable(t) \ {self} ELSE {}

\* What the definition of n refers to: the closure the -pdu option generates.
\* Mutant of TypeRefs: elements of collections are forgotten.
MemberRefs == [n \in Names |-> {m.to : m \in {x \in Members(n) : ~ x.many}}]
TypeRefs == [n \in Names |-> IF schema[n].kind \in {"alias", "list"} THEN {schema[n].to}
                             ELSE {m.to : m \in Members(n)}]
Closure(roots) == Reach(roots, TypeRefs)

---------------------------------------------------------------------------
(* The files.  <<n, 0>> is the header of n, <<n, i>> that of the wrapper of *)
(* its member i.                                                            *)

Include(f) == <<"include", f>>
Header(n)  == <<n, 0>>

\* The includes of a set of headers, in some order.
IncludeAll(S) == [i \in 1 .. Cardinality(S) |-> Include(Header(SetToSeq(S)[i]))]

\* What a SEQUENCE's header says before the class, for member i.
BeforeRecord(n, i) ==
    LET m == Numbered(n)[i]
    IN IF m.many
         THEN IF m.to = n THEN <<>> ELSE <<Include(<<n, i>>), Include(Header(m.to))>>
         ELSE IF m.opt /\ IsClass(m.to) THEN <<<<"declare", m.to>>>>
                                        ELSE <<Include(Header(m.to))>>

AfterRecord(n, i) ==
    LET m == Numbered(n)[i] IN IF m.many /\ m.to = n THEN <<Include(<<n, i>>)>> ELSE <<>>

BeforeChoice(n, i) ==
    LET m == Numbered(n)[i]
        cyclic == AlternativeInCycle(n, m.to)
        leaf == IF m.to = n THEN <<>> ELSE <<Include(Header(m.to))>>
    IN IF m.many THEN (IF cyclic THEN <<>> ELSE <<Include(<<n, i>>)>>) \o leaf
       ELSE IF ~ cyclic THEN leaf
       ELSE IF m.to = n THEN <<>> ELSE <<<<"declare", m.to>>>>

AfterChoice(n, i) ==
    LET m == Numbered(n)[i]
    IN IF ~ AlternativeInCycle(n, m.to) THEN <<>>
       ELSE IF m.many THEN <<Include(<<n, i>>)>>
       ELSE IF m.to = n THEN <<>> ELSE <<Include(Header(m.to))>>

\* The headers the definitions of a SEQUENCE need beyond its own header.
\* Mutant of OptionalIncludes: those of OPTIONAL members are left out.
WithoutOptionalIncludes(n) == {}
OptionalIncludes(n) == {m.to : m \in {x \in Members(n) : x.opt /\ ~ x.many /\ IsClass(x.to)}} \ {n}

CyclicElementIncludes(n) ==
    UNION {ExtraIncludes(m.to, n) :
              m \in {x \in Members(n) : /\ x.many /\ IsClass(Concrete(x.to))
                                        /\ Reaches(Concrete(x.to), n, ThroughContainers)}}

DefinitionIncludes(n) ==
    IF Record(n) THEN IncludeAll(OptionalIncludes(n) \cup CyclicElementIncludes(n)) ELSE <<>>

\* With a namespace the includes come before it, declarations and the class
\* inside it, and the includes of the definitions go to the header as well.
Kept(items, kinds) ==
    FlattenSeq([i \in 1 .. Len(items) |-> IF items[i][1] \in kinds THEN <<items[i]>> ELSE <<>>])
Sorted(items) == Kept(items, {"include"}) \o Kept(items, {"declare"})

ClassHeader(n) ==
    LET is == 1 .. Len(Numbered(n))
        before == FlattenSeq([i \in is |-> IF Record(n) THEN BeforeRecord(n, i)
                                                        ELSE BeforeChoice(n, i)])
        after  == FlattenSeq([i \in is |-> IF Record(n) THEN AfterRecord(n, i)
                                                        ELSE AfterChoice(n, i)])
    IN (IF prefixed THEN Sorted(before \o DefinitionIncludes(n)) ELSE before)
       \o <<<<"class", n>>>> \o after

AliasHeader(n) ==
    <<IF AliasWouldCycle(n) THEN <<"declare", schema[n].to>> ELSE Include(Header(schema[n].to)),
      <<"using", n>>>>

Contents(f) ==
    LET n == f[1]
    IN IF f[2] # 0 THEN <<Include(Header(schema[n].members[f[2]].to)), <<"wrapper", f>>>>
       ELSE CASE IsClass(n)                -> ClassHeader(n)
              [] schema[n].kind = "alias"  -> AliasHeader(n)
              [] schema[n].kind = "list"   -> <<Include(Header(schema[n].to)), <<"using", n>>>>
              [] schema[n].kind = "leaf"   -> <<<<"class", n>>>>

\* The source file of n.  A type reference has none, and that of a wrapper is
\* that of a named SEQUENCE OF.
Source(n) ==
    LET extra == IncludeAll(ExtraIncludes(schema[n].to, n) \ {schema[n].to})
        includes == CASE IsClass(n) /\ ~ prefixed -> DefinitionIncludes(n)
                      [] schema[n].kind = "list" /\ ~ prefixed -> extra
                      [] schema[n].kind = "list" /\ prefixed ->
                            [i \in DOMAIN extra |-> <<"nested", extra[i][2]>>]
                      [] OTHER -> <<>>
    IN <<Include(Header(n))>> \o includes \o <<<<"source", n>>>>

---------------------------------------------------------------------------
(* The preprocessor                                                         *)

Begin == /\ schema \in Schemas /\ prefixed \in Modes
         /\ unit \in {n \in Names : schema[n].kind # "alias"}
         /\ todo = Source(unit)
         /\ opened = {} /\ declared = {} /\ complete = {}

Reading(kind) == todo # <<>> /\ Head(todo)[1] = kind
Fixed == UNCHANGED <<schema, prefixed, unit>>

Open == /\ Reading("include") \/ Reading("nested")
        /\ Head(todo)[2] \notin opened
        /\ opened' = opened \cup {Head(todo)[2]}
        /\ todo' = Contents(Head(todo)[2]) \o Tail(todo)
        /\ Fixed /\ UNCHANGED <<declared, complete>>

\* #pragma once
Skip == /\ Reading("include") \/ Reading("nested")
        /\ Head(todo)[2] \in opened
        /\ todo' = Tail(todo)
        /\ Fixed /\ UNCHANGED <<opened, declared, complete>>

\* class X;   or   using X = Y;
Declare == /\ Reading("declare") \/ Reading("using")
           /\ declared' = declared \cup {Head(todo)[2]}
           /\ todo' = Tail(todo)
           /\ Fixed /\ UNCHANGED <<opened, complete>>

Define == /\ Reading("class")
          /\ declared' = declared \cup {Head(todo)[2]}
          /\ complete' = complete \cup {Head(todo)[2]}
          /\ todo' = Tail(todo)
          /\ Fixed /\ UNCHANGED opened

\* A wrapper's alias, and the definitions in the source file.
Use == /\ Reading("wrapper") \/ Reading("source")
       /\ todo' = Tail(todo)
       /\ Fixed /\ UNCHANGED <<opened, declared, complete>>

Read == Open \/ Skip \/ Declare \/ Define \/ Use
Preprocess == Begin /\ [][Read]_reader

---------------------------------------------------------------------------
(* What the C++ compiler asks for                                           *)

Boxed(n, m) == ~ Record(n) /\ AlternativeInCycle(n, m.to)

\* What a value of n has inside it: in C++ and in Rust, where an OPTIONAL
\* member is inline unless its type is a class or in a cycle.
CppHolds == [n \in Names |-> {Concrete(m.to) : m \in {x \in Members(n) :
                  ~ x.many /\ ~ (Record(n) /\ x.opt) /\ ~ Boxed(n, x)}}]

RustBoxed(n, m) == IF Record(n) THEN MemberInCycle(n, m.to) \/ (m.opt /\ IsClass(m.to))
                                ELSE m.to = n
RustHolds == [n \in Names |->
    {Concrete(m.to) : m \in {x \in Members(n) : ~ x.many /\ ~ RustBoxed(n, x)}}]

\* A list is a vector: a declared element is enough to define it.
Defined(n) == LET c == Concrete(n) IN IF schema[c].kind = "list" THEN n \in declared ELSE c \in complete

\* The classes that destroying or copying a value of type t takes.
Elements(t) ==
    LET c == Concrete(t)
        d == IF schema[c].kind = "list" THEN Concrete(schema[c].to) ELSE c
    IN IF IsClass(d) THEN {d} ELSE {}

Parts(n) == UNION {Elements(m.to) : m \in {x \in Members(n) : Record(n) \/ ~ x.many}}

\* A SEQUENCE without OPTIONAL members leaves copying to its members' own.
Inline(n) == Record(n) /\ \A m \in Members(n) : ~ m.opt

SourceNeeds(n) ==
    Reach(IF IsClass(n) THEN Parts(n) ELSE Elements(n),
          [c \in Names |-> IF Inline(c) THEN Parts(c) ELSE {}])

---------------------------------------------------------------------------
(* Schemas                                                                  *)

\* A type without a finite value is the user's error (doc/backend-guide.md).
Finite ==
    LET R[k \in 0 .. Cardinality(Names)] ==
            IF k = 0 THEN {}
            ELSE LET r == R[k - 1]
                 IN r \cup {n \in Names : CASE Record(n) -> \A m \in Members(n) : m.opt \/ m.many \/ m.to \in r
                                            [] schema[n].kind = "alias" -> schema[n].to \in r
                                            [] OTHER -> TRUE}
    IN R[Cardinality(Names)] = Names

\* What a value of n has inside it, but for vectors and pointers.
Embeds == [n \in Names |->
    {m.to : m \in {x \in Members(n) : ~ x.many /\ ~ (Record(n) /\ x.opt)}}]

\* Where the generator cuts a cycle: at a member of the type itself, at an
\* OPTIONAL member of class type, at an alternative that has the CHOICE
\* inside, at a reference to a class that refers to it.
Cut(n, m) ==
    \/ m.to = n
    \/ Record(n) /\ m.opt /\ ~ m.many /\ IsClass(m.to)
    \/ ~ Record(n) /\ ~ m.many /\ n \in Reach({m.to}, Embeds)

CyclicAlias(n) == /\ schema[n].kind = "alias" /\ IsClass(schema[n].to)
                  /\ Reaches(schema[n].to, n, ThroughContainers)

Chain(n) == Reach({n}, [x \in Names |-> IF schema[x].kind = "alias" THEN {schema[x].to} ELSE {}])

\* The types n needs before its own declaration, and those whose headers its
\* own files open, at all and before that declaration.
Uncut == [n \in Names |->
    IF IsClass(n) THEN {m.to : m \in {x \in Members(n) : ~ Cut(n, x)}}
    ELSE IF schema[n].kind = "leaf" \/ CyclicAlias(n) THEN {} ELSE {schema[n].to}]

Opens == [n \in Names |->
    (CASE Record(n) /\ prefixed   -> ThroughContainers[n] \cup CyclicElementIncludes(n)
       [] ~ Record(n) /\ IsClass(n) -> ThroughContainers[n]
       [] OTHER                  -> Uncut[n]) \ {n}]

OpensFirst(n) == IF Record(n) THEN Opens[n] ELSE Uncut[n] \ {n}

\* The types whose headers are read between the first line of n's and the
\* declaration of n.
Under(n) == Reach(OpensFirst(n), [x \in Names |-> Opens[x] \ {n}])

\* The elements of the vectors in n, and what the source file of n includes
\* for them.
ElementNames(n) == CASE Record(n)                -> {m.to : m \in {x \in Members(n) : x.many}}
                     [] schema[n].kind = "list"  -> {schema[n].to}
                     [] OTHER                    -> {}
Fetched(n) == IF Inline(n) \/ ~ Record(n) THEN {} ELSE CyclicElementIncludes(n)

\* The schemas that compile: no type needs another whose header opens its own
\* first; what is held by value is no reference on a cycle, and an element
\* that is one has its class opened elsewhere.  The README names the recursive
\* schemas this leaves out.
Regular == /\ Finite
           /\ \A n \in Names : ~ Reaches(n, n, Uncut)
           /\ \A n \in Names : \A d \in Uncut[n] : n \notin Under(d)
           /\ \A n \in Names : \A m \in Members(n) :
                 ~ m.many => \A x \in Chain(m.to) : ~ CyclicAlias(x)
           /\ \A n \in Names : \A t \in ElementNames(n) :
                 IsClass(Concrete(t)) => Concrete(t) \in Reach({n}, Opens) \cup Fetched(n)
           /\ \A n \in Names : prefixed /\ schema[n].kind = "list" =>
                 ExtraIncludes(schema[n].to, n) \subseteq Reach({n}, Opens)

\* A header can be read first or at any other point: every class is defined
\* after the classes it holds by value and after the names it mentions, every
\* alias after what it names, and no header is read inside the namespace.
HeadersStandAlone ==
    /\ Reading("class") /\ Regular =>
          LET n == Head(todo)[2]
          IN \A m \in Members(n) :
                /\ m.to = n \/ m.to \in declared
                /\ ~ m.many /\ ~ Boxed(n, m) /\ ~ (Record(n) /\ m.opt) => Defined(m.to)
    /\ Reading("using") /\ Regular => schema[Head(todo)[2]].to \in declared
    /\ Reading("wrapper") /\ Regular =>
          schema[Head(todo)[2][1]].members[Head(todo)[2][2]].to \in declared
    /\ Reading("nested") /\ Regular => Head(todo)[2] \in opened

\* Where the source file of a type destroys, copies or describes its values,
\* every class they are made of has been defined.
SourcesSeeTheirParts == Reading("source") /\ Regular => SourceNeeds(unit) \subseteq complete

\* Every generated file compiles, in whatever order its headers are opened.
FilesCompile == HeadersStandAlone /\ SourcesSeeTheirParts

\* A cycle of CHOICEs alone is not broken in Rust, nor one through a reference.
RustRegular ==
    /\ Finite
    /\ \A n \in Names : ~ Record(n) =>
          ~ Reaches(n, n, [x \in Names |-> IF Record(x) THEN {} ELSE Embeds[x] \ {x}])
    /\ \A n \in Names : schema[n].kind = "alias" => ~ Reaches(n, n, TypeRefs)

\* No generated type contains itself, in C++ or in Rust.
SizesAreFinite ==
    Reading("source") =>
       /\ Regular => \A n \in Names : ~ Reaches(n, n, CppHolds)
       /\ RustRegular => \A n \in Names : ~ Reaches(n, n, RustHolds)

\* Compiling a type of the -pdu closure opens no header outside it.
ClosureIsGenerated == \A f \in opened : f[1] \in Closure({unit})
=============================================================================
