-------------------------------- MODULE Names --------------------------------
(***************************************************************************)
(* What the names in a schema mean to the compiler: the passes of Resolver *)
(* (Resolver.hpp) that main.cpp runs between parsing and code generation.  *)
(* The symbol tables are filled module by module, in the order of the      *)
(* files; imports are matched by object identifier, where one is written,  *)
(* or by name; class fields and instances of parameterised types are       *)
(* rewritten in place, one definition at a time, before the values are     *)
(* checked; any error stops the compiler before it writes a file.          *)
(*                                                                         *)
(* A definition is named by its module and its name.  Its body is          *)
(*   base              a type of its own                                   *)
(*   ref               a reference, qualified when mod # ""                *)
(*   generic           a parameterised type, equal to its formal parameter *)
(*                     (to = Formal) or to another type of its module      *)
(*   inst              an instance of to, with the actual parameter arg    *)
(*   class             a class whose field has the fixed type to, or is    *)
(*                     open (to = <<>>)                                    *)
(*   field             a reference to the field of the class to            *)
(*   any, value, link  the open type; a value; a value equal to another    *)
(* Names are sequences: an instance's name is made of those of its parts.  *)
(***************************************************************************)
EXTENDS Integers, Sequences, FiniteSets, SequencesExt

CONSTANT Programs   \* bound: sequences of modules, in parse order

\* The grammar wants at least one module.
ASSUME ProgramsAssumption ==
    \A p \in Programs :
        /\ Len(p) \in Nat \ {0}
        /\ \A k \in 1..Len(p) : Len(p[k].imports) \in Nat /\ Len(p[k].defs) \in Nat

\* A name that is written has one part: the underscores between the parts of
\* an instance's name are no characters of ASN.1's names.
ASSUME NamesAssumption ==
    \A p \in Programs : \A k \in 1..Len(p) : \A j \in 1..Len(p[k].defs) :
        LET d == p[k].defs[j]
        IN  /\ Len(d.name) = 1
            /\ d.body.is = "link" => Len(d.body.to) = 1
            /\ d.body.is = "inst" =>
                   /\ d.body.to \in Seq(STRING) /\ Len(d.body.to) = 1
                   /\ d.body.arg.to \in Seq(STRING) /\ Len(d.body.arg.to) = 1

Nothing == <<>>
Formal == <<"Formal">>

Module(name, oid, exports, imports, defs) ==
    [name |-> name, oid |-> oid, exports |-> exports, imports |-> imports, defs |-> defs]
\* exports: a set of names, or {Nothing} when everything is exported.
Import(from, oid, policy, names) ==
    [from |-> from, oid |-> oid, policy |-> policy, names |-> names]
Body(is, mod, to, arg) == [is |-> is, mod |-> mod, to |-> to, arg |-> arg]

VARIABLES
    pc,         \* the pass, "codegen" or "failed"
    program,    \* the parsed modules
    newer,      \* -fallow-newer-modules
    i,          \* the module the pass is at
    clause,     \* the import clause resolve_imports is at, 0 before the first
    symbols,    \* module -> name -> body (module_symbols_)
    scope,      \* module -> name -> definition (module_resolution_; its
                \* domains are module_visible_)
    global,     \* name -> definition (global_)
    queue,      \* definitions still to be scanned for instances
    cache,      \* instance key -> name
    errors      \* kinds of errors reported

Input == <<program, newer>>
vars == <<pc, Input, i, clause, symbols, scope, global, queue, cache, errors>>

Put(f, k, v) == [x \in DOMAIN f \cup {k} |-> IF x = k THEN v ELSE f[x]]
\* f, and g where f has nothing.
Over(f, g) == [x \in DOMAIN f \cup DOMAIN g |-> IF x \in DOMAIN f THEN f[x] ELSE g[x]]

\* Op, n times, from x.
Repeat(Op(_), n, x) ==
    LET turn[k \in 0..n] == IF k = 0 THEN x ELSE Op(turn[k - 1])
    IN  turn[n]

-----------------------------------------------------------------------------
(* Which module an import means.                                           *)

MinOf(a, b) == IF a < b THEN a ELSE b

Prefix(a, b) == Len(a) <= Len(b) /\ \A k \in 1..Len(a) : a[k] = b[k]

Successor(a, b) ==
    Len(a) = Len(b) /\ a # <<>> /\ Prefix(Front(a), b) /\ Last(b) >= Last(a)

\* The last two arcs are a version; those an import leaves out match any.
SameOrNewer(a, b) ==
    LET ver == Len(b) - 2
    IN  /\ ver >= 0 /\ Len(a) <= Len(b) /\ Len(b) - Len(a) <= 2
        /\ \A k \in 1..MinOf(Len(a), ver) : a[k] = b[k]
        /\ \/ Len(a) <= ver + 1 /\ (Len(a) = ver + 1 => b[ver + 1] >= a[ver + 1])
           \/ /\ Len(a) = Len(b)
              /\ \/ b[ver + 1] > a[ver + 1]
                 \/ b[ver + 1] = a[ver + 1] /\ b[ver + 2] >= a[ver + 2]

Matches(imp, oid) ==
    IF newer /\ imp.policy # "descendants" THEN SameOrNewer(imp.oid, oid)
    ELSE CASE imp.policy = "exact" -> imp.oid = oid
           [] imp.policy = "successors" -> Successor(imp.oid, oid)
           [] imp.policy = "descendants" -> Prefix(imp.oid, oid)

Names == {program[k].name : k \in 1..Len(program)}
FileOf(m) == program[CHOOSE k \in 1..Len(program) :
                        program[k].name = m /\ \A j \in 1..(k - 1) : program[j].name # m]

\* Mutant: the name in IMPORTS is asked first.
SourceByName(imp) ==
    IF imp.from \in Names THEN imp.from ELSE ""

\* An object identifier decides alone: the first module that matches it.
Source(imp) ==
    LET fits == {k \in 1..Len(program) : program[k].oid # <<>> /\ Matches(imp, program[k].oid)}
    IN  IF imp.oid = <<>> THEN IF imp.from \in Names THEN imp.from ELSE ""
        ELSE IF fits = {} THEN ""
        ELSE program[CHOOSE k \in fits : \A j \in fits : k <= j].name

\* The assignments of a module by name: the first of two wins.
Table(defs) ==
    [n \in {defs[k].name : k \in 1..Len(defs)} |->
        defs[CHOOSE k \in 1..Len(defs) :
                defs[k].name = n /\ \A j \in 1..(k - 1) : defs[j].name # n].body]

\* The definitions of the text.
Own(m) == DOMAIN Table(FileOf(m).defs)
AllDefs == UNION {{<<m, n>> : n \in Own(m)} : m \in Names}

\* No chain of names is longer that has no circle.
Links == Cardinality(Names \X AllDefs) + 1

Exported(m, n) == FileOf(m).exports = {Nothing} \/ n \in FileOf(m).exports

-----------------------------------------------------------------------------
(* Lookups.                                                                *)

None == <<"", Nothing>>     \* nullptr

BodyOf(id) == symbols[id[1]][id[2]]
Defined(m, n) == m \in DOMAIN symbols /\ n \in DOMAIN symbols[m]

\* lookup_direct: the module's own and imported names, then any module's.
Direct(n, m) ==
    IF m \in DOMAIN scope /\ n \in DOMAIN scope[m] THEN scope[m][n]
    ELSE IF n \in DOMAIN global THEN global[n] ELSE None

IsRef(id) == id # None /\ BodyOf(id).is \in {"ref", "inst", "field"}

\* One turn of follow_aliases, from <<definition, scope>>: an unqualified
\* alias is looked up in the scope the walk began in.
Hop(at) ==
    LET b == BodyOf(at[1])
    IN  IF at[1] = None \/ ~IsRef(at[1]) THEN at
        ELSE IF b.mod # "" THEN <<IF Defined(b.mod, b.to) THEN <<b.mod, b.to>> ELSE None, b.mod>>
        ELSE <<Direct(b.to, at[2]), at[2]>>

\* follow_aliases: no more than 64 definitions are looked at.
FollowAliases(id, m) ==
    LET end == Repeat(Hop, 63, <<id, m>>)[1] IN IF IsRef(end) THEN None ELSE end

-----------------------------------------------------------------------------
Init ==
    /\ pc = "collect" /\ program \in Programs /\ newer \in BOOLEAN /\ i = 1 /\ clause = 0
    /\ symbols = <<>> /\ scope = <<>> /\ global = <<>>
    /\ queue = <<>> /\ cache = <<>> /\ errors = {}

\* The pass goes on to the next module, or the next pass begins.
Advance(next) ==
    IF i < Len(program) THEN i' = i + 1 /\ pc' = pc ELSE i' = 1 /\ pc' = next

Collect ==
    /\ pc = "collect"
    /\ LET m == program[i]
           table == Table(m.defs)
       IN  IF m.name \in DOMAIN symbols
           THEN errors' = errors \cup {"duplicate module"} /\ UNCHANGED symbols
           ELSE /\ symbols' = Put(symbols, m.name, table)
                /\ errors' = IF Cardinality(DOMAIN table) = Len(m.defs) THEN errors
                             ELSE errors \cup {"duplicate name"}
    /\ Advance("imports")
    /\ UNCHANGED <<Input, clause, scope, global, queue, cache>>

\* resolve_imports, for a module: first its own names,
OwnNames ==
    /\ pc = "imports" /\ clause = 0
    /\ LET m == program[i].name
           own == [n \in DOMAIN symbols[m] |-> <<m, n>>]
       IN  /\ scope' = Put(scope, m, Over(own, IF m \in DOMAIN scope THEN scope[m] ELSE <<>>))
           /\ global' = Over(own, global)
    /\ clause' = 1
    /\ UNCHANGED <<Input, pc, i, symbols, queue, cache, errors>>

\* then those of each import clause, which replace its own where both have one.
ResolveImport ==
    /\ pc = "imports" /\ clause \in 1..Len(program[i].imports)
    /\ LET m == program[i].name
           imp == program[i].imports[clause]
           from == Source(imp)
           got == [n \in {x \in ToSet(imp.names) : Exported(from, x) /\ Defined(from, x)} |-> <<from, n>>]
           kinds == IF imp.from = m \/ from = m THEN {"imports from itself"}
                    ELSE IF from = "" THEN {"module not found"}
                    ELSE {"not exported" : n \in {x \in ToSet(imp.names) : ~Exported(from, x)}}
       IN  /\ IF imp.from = m \/ from \in {m, ""} THEN UNCHANGED <<scope, global>>
              ELSE scope' = [scope EXCEPT ![m] = Over(got, @)] /\ global' = Over(got, global)
           /\ errors' = errors \cup kinds
    /\ clause' = clause + 1
    /\ UNCHANGED <<Input, pc, i, symbols, queue, cache>>

EndImports ==
    /\ pc = "imports" /\ clause > Len(program[i].imports)
    /\ clause' = 0
    /\ Advance("types")
    /\ UNCHANGED <<Input, symbols, scope, global, queue, cache, errors>>

\* resolve_types: unqualified names outside parameterised types must be
\* visible; a qualified one is not checked.
ResolveTypes ==
    /\ pc = "types"
    /\ LET m == program[i].name
           lost == {n \in DOMAIN symbols[m] :
                        /\ IsRef(<<m, n>>) /\ BodyOf(<<m, n>>).mod = ""
                        /\ BodyOf(<<m, n>>).to \notin DOMAIN scope[m]}
       IN  errors' = IF lost = {} THEN errors ELSE errors \cup {"undefined type"}
    /\ Advance("fields")
    /\ UNCHANGED <<Input, clause, symbols, scope, global, queue, cache>>

\* What a class field stands for: its fixed type, or the open type.
FieldBody(b, m) ==
    LET c == Direct(b.to, m)
    IN  IF c # None /\ BodyOf(c).is = "class" /\ BodyOf(c).to # Nothing
        THEN Body("ref", "", BodyOf(c).to, Nothing)
        ELSE Body("any", "", Nothing, Nothing)

\* resolve_class_field_refs.
ResolveFields ==
    /\ pc = "fields"
    /\ LET m == program[i].name
       IN  symbols' = [symbols EXCEPT ![m] =
                [n \in DOMAIN @ |-> IF @[n].is = "field" THEN FieldBody(@[n], m) ELSE @[n]]]
    /\ Advance("instances")
    /\ queue' = IF i = Len(program) THEN [k \in 1..Len(program[1].defs) |-> program[1].defs[k].name]
                ELSE queue
    /\ UNCHANGED <<Input, clause, scope, global, cache, errors>>

\* An instance's name: the parts, and as many more as it takes to be new.
Lengthened(base, k) == base \o [j \in 1..k |-> "_"]

FreshName(base) ==
    LET used == {cache[k] : k \in DOMAIN cache}
        new == {k \in 0..Cardinality(used) : Lengthened(base, k) \notin used}
    IN  Lengthened(base, CHOOSE k \in new : \A j \in new : k <= j)

\* Mutant: the formal parameter is left as written.
FormalStays(g, b) == Body("ref", "", BodyOf(g).to, Nothing)

\* The body of an instance: the generic's, its formal parameter replaced.
InstanceBody(g, b) ==
    IF BodyOf(g).to = Formal THEN Body("ref", b.arg.mod, b.arg.to, Nothing)
    ELSE Body("ref", "", BodyOf(g).to, Nothing)

\* One definition of resolve_parameterized_instantiations: a new instance is
\* a definition of the module that asked for it, scanned in its turn.
Instantiate ==
    /\ pc = "instances" /\ queue # <<>>
    /\ LET m == program[i].name
           n == Head(queue)
           b == BodyOf(<<m, n>>)
           g == Direct(b.to, m)
           key == <<m, b.to, b.arg>>
           name == FreshName(b.to \o b.arg.to)
       IN  IF b.is # "inst" \/ g = None \/ BodyOf(g).is # "generic"
           THEN queue' = Tail(queue) /\ UNCHANGED <<symbols, global, cache>>
           ELSE IF key \in DOMAIN cache
           THEN /\ symbols' = [symbols EXCEPT ![m][n] = Body("ref", "", cache[key], Nothing)]
                /\ queue' = Tail(queue) /\ UNCHANGED <<global, cache>>
           ELSE /\ symbols' = [symbols EXCEPT ![m] =
                        Put([@ EXCEPT ![n] = Body("ref", "", name, Nothing)], name, InstanceBody(g, b))]
                /\ global' = Put(global, name, <<m, name>>)
                /\ cache' = Put(cache, key, name)
                /\ queue' = Append(Tail(queue), name)
    /\ UNCHANGED <<pc, Input, i, clause, scope, errors>>

NextModule ==
    /\ pc = "instances" /\ queue = <<>>
    /\ Advance("values")
    /\ queue' = IF i = Len(program) THEN queue
                ELSE [k \in 1..Len(program[i + 1].defs) |-> program[i + 1].defs[k].name]
    /\ UNCHANGED <<Input, clause, symbols, scope, global, cache, errors>>

\* Mutant: only the value the chain began with is looked for.
ValueHopToStart(s) ==
    LET b == BodyOf(s.at)
        m == IF b.mod = "" THEN s.mod ELSE b.mod
        next == IF b.mod = "" THEN Direct(b.to, s.mod)
                ELSE IF Defined(m, b.to) THEN <<m, b.to>> ELSE None
    IN  IF s.why # "" \/ b.is # "link" THEN s
        ELSE IF next = None THEN [s EXCEPT !.why = "undefined value"]
        ELSE [at |-> next, mod |-> m, path |-> s.path, why |-> ""]

\* check_value_ref_chain, as [at, mod, path, why]: the chain is left as soon
\* as it comes to a literal, to nothing or back to a name on its path.
ValueHop(s) ==
    LET b == BodyOf(s.at)
        m == IF b.mod = "" THEN s.mod ELSE b.mod
        next == IF b.mod = "" THEN Direct(b.to, s.mod)
                ELSE IF Defined(m, b.to) THEN <<m, b.to>> ELSE None
    IN  IF s.why # "" \/ b.is # "link" THEN s
        ELSE IF <<m, b.to>> \in s.path THEN [s EXCEPT !.why = "circular value"]
        ELSE IF next = None THEN [s EXCEPT !.why = "undefined value"]
        ELSE [at |-> next, mod |-> m, path |-> s.path \cup {<<m, b.to>>}, why |-> ""]

ValueError(m, n) ==
    Repeat(ValueHop, Links, [at |-> <<m, n>>, mod |-> m, path |-> {<<m, n>>}, why |-> ""]).why

ResolveValues ==
    /\ pc = "values"
    /\ LET m == program[i].name
       IN  errors' = errors \cup ({ValueError(m, n) : n \in DOMAIN symbols[m]} \ {""})
    /\ IF i < Len(program) THEN i' = i + 1 /\ pc' = pc
       ELSE i' = 1 /\ pc' = IF errors' = {} THEN "codegen" ELSE "failed"
    /\ UNCHANGED <<Input, clause, symbols, scope, global, queue, cache>>

Next == \/ Collect \/ OwnNames \/ ResolveImport \/ EndImports \/ ResolveTypes
        \/ ResolveFields \/ Instantiate \/ NextModule \/ ResolveValues

Spec == Init /\ [][Next]_vars

-----------------------------------------------------------------------------
(* What the names of the schema mean, from the text alone: a name is its   *)
(* module's own, or one its module imports from a module that exports it.  *)

Text(id) == Table(FileOf(id[1]).defs)[id[2]]
Written(m, n) == m \in Names /\ n \in Own(m)

Declared(m, mod, n) ==
    LET clauses == {k \in 1..Len(FileOf(m).imports) : n \in ToSet(FileOf(m).imports[k].names)}
        sources == {Source(FileOf(m).imports[k]) : k \in clauses}
    IN  IF mod # "" THEN IF Written(mod, n) THEN <<mod, n>> ELSE None
        ELSE IF Written(m, n) THEN <<m, n>>
        ELSE IF \E s \in sources : Written(s, n)
        THEN <<CHOOSE s \in sources : Written(s, n), n>> ELSE None

\* What a definition is equal to: each name in the module that wrote it.
Meant(id) ==
    LET b == Text(id)
        g == Declared(id[1], b.mod, b.to)
        t == IF g = None THEN b ELSE Text(g)
    IN  CASE b.is = "ref" -> g
          [] b.is = "field" -> IF g = None \/ t.is # "class" \/ t.to = Nothing THEN None
                               ELSE Declared(g[1], "", t.to)
          [] b.is = "inst" -> IF g = None \/ t.is # "generic" THEN None
                              ELSE IF t.to = Formal THEN Declared(id[1], b.arg.mod, b.arg.to)
                              ELSE Declared(g[1], "", t.to)
          [] OTHER -> id

Onwards(d) == IF d = None THEN d ELSE Meant(d)
Ends(d) == d # None /\ Text(d).is \notin {"ref", "field", "inst"}

Meaning(id) ==
    LET end == Repeat(Onwards, Links, id) IN IF Ends(end) THEN end ELSE None

\* A meaning that follow_aliases does not give up on: each link of the text is
\* one or, through an instance, two of those it follows.
Near(id) == Ends(Repeat(Onwards, 31, id))

\* What the code finds for a definition, seen from its own module.
Found(id) == FollowAliases(id, id[1])

TypeDefs == {id \in AllDefs : Text(id).is \notin {"generic", "class", "value", "link"}}

Collisions == \E a, b \in AllDefs : a[2] = b[2] /\ a # b

-----------------------------------------------------------------------------
\* A name of another module is visible only through an import whose object
\* identifier, if it has one, that module satisfies, and only when it exports
\* the name: whatever the order of the files (resolve_imports).
ImportsAreExported ==
    "duplicate module" \notin errors => \A m \in DOMAIN scope : \A n \in DOMAIN scope[m] :
        scope[m][n][1] # m =>
            /\ Exported(scope[m][n][1], n)
            /\ \E k \in 1..Len(program) :
                 /\ program[k].name = m
                 /\ \E j \in 1..Len(program[k].imports) :
                      LET imp == program[k].imports[j]
                      IN  /\ n \in ToSet(imp.names)
                          /\ IF imp.oid = <<>> THEN imp.from = scope[m][n][1]
                             ELSE Matches(imp, FileOf(scope[m][n][1]).oid)

\* Once the checks have passed, every type definition is what its text says:
\* the chain the code follows ends where the schema's own chain ends, through
\* imports, class fields and instances, in any order of the files, as long as
\* no two modules use one name for two things and no chain is longer than 31
\* links (follow_aliases, resolve_class_field_refs,
\* resolve_parameterized_instantiations).
NamesKeepTheirMeaning ==
    pc = "codegen" /\ ~Collisions =>
        \A id \in TypeDefs : Meaning(id) # None /\ Near(id) => Found(id) = Meaning(id)

\* What a value is equal to, looked up where it is written.
Along(d) ==
    LET b == BodyOf(d)
    IN  IF b.is # "link" THEN d ELSE Direct(b.to, IF b.mod = "" THEN d[1] ELSE b.mod)

\* A value that passed the checks ends in a literal, along its own module's
\* and other modules' names, as long as no two modules use one name for two
\* things: the check reads the whole chain in the scope of the module it
\* began in, or of the last one named (check_value_ref_chain).
ValuesAreGrounded ==
    pc = "codegen" /\ ~Collisions =>
        \A m \in DOMAIN symbols : \A n \in DOMAIN symbols[m] :
            BodyOf(Repeat(Along, Links, <<m, n>>)).is # "link"
=============================================================================
