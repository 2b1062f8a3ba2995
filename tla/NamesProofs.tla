---------------------------- MODULE NamesProofs ----------------------------
(***************************************************************************)
(* What a module can see of another, where its values end and what its     *)
(* names mean: for any schema, any number of modules in any order, and     *)
(* either setting of -fallow-newer-modules.                                *)
(*                                                                         *)
(* Every entry of a module's scope is its own or was brought in by one of  *)
(* its import clauses, from the module the clause led to (SeenInv).  What  *)
(* that module is in the text depends on names being told apart: Source    *)
(* finds a module by its object identifier and passes its name on, and the *)
(* EXPORTS are those of the first module of that name (find_if).  So the   *)
(* modules' names must be distinct unless an error was reported, which is  *)
(* collect's doing (ApartInv).                                             *)
(*                                                                         *)
(* A walk along values stays inside a finite set of names as long as the   *)
(* tables hold the text's names and those of instances, scopes lead to the *)
(* text's definitions, and every name of the text is in the global table   *)
(* (TablesInv).  The path of a walk without an error grows with each link, *)
(* so it ends; and with no name used for two things, the scope the check   *)
(* looks a name up in makes no difference (HopKeeps).                      *)
(*                                                                         *)
(* A definition in the tables is the text's, or what the text's stands for *)
(* once its pass has been at it; an instance's name leads to the body its  *)
(* generic's text has for its actual parameter, however many modules share *)
(* the generic (MeansInv).  So each link of the text is one or two of those*)
(* follow_aliases takes (LinkIsFollowed).                                  *)
(***************************************************************************)
EXTENDS Names, SequenceTheorems, FiniteSetTheorems, WellFoundedInduction, TLAPS

\* A clause of a module named m brings n from the module it leads to.
Brings(m, n, from) ==
    /\ Exported(from, n)
    /\ \E k \in 1..Len(program) :
         /\ program[k].name = m
         /\ \E j \in 1..Len(program[k].imports) :
              LET imp == program[k].imports[j]
              IN  n \in ToSet(imp.names) /\ from = Source(imp) /\ from # ""

SeenInv ==
    \A m \in DOMAIN scope : \A n \in DOMAIN scope[m] :
        scope[m][n][1] = m \/ Brings(m, n, scope[m][n][1])

\* Modules up to the k-th have names of their own.
Apart(k) == \A a, b \in 1..Len(program) : a < b /\ b <= k => program[a].name # program[b].name

ApartInv ==
    /\ Len(program) \in Nat \ {0} /\ i \in 1..Len(program)
    /\ pc = "collect" => /\ scope = <<>>
                         /\ \A a \in 1..Len(program) : a < i => program[a].name \in DOMAIN symbols
    /\ "duplicate module" \notin errors =>
         Apart(IF pc = "collect" THEN i - 1 ELSE Len(program))

NamesInv == SeenInv /\ ApartInv

-----------------------------------------------------------------------------
LEMMA CountsAreNat == ASSUME NEW N \in Nat PROVE 1..N \subseteq Nat
OBVIOUS

LEMMA EmptyDomain == DOMAIN <<>> = {}
OBVIOUS

\* Among numbers there is a least one: what the CHOOSE of Source rests on.
LEMMA LeastOf ==
    ASSUME NEW S, S \subseteq Nat, S # {}
    PROVE  \E k \in S : \A j \in S : k <= j
<1> DEFINE R == {p \in Nat \X Nat : p[1] < p[2]}
<1>1. OpToRel(<, Nat) = R
  BY DEF OpToRel
<1>2. IsWellFoundedOn(R, Nat)
  BY <1>1, NatLessThanWellFounded
<1>3. PICK k \in S : \A j \in S : ~(<<j, k>> \in R)
  BY <1>2, WFMin
<1>4. \A a, b \in Nat : a < b => <<a, b>> \in R
  OBVIOUS
<1> HIDE DEF R
<1>5. \A j \in S : ~(j < k) /\ j \in Nat /\ k \in Nat
  BY <1>3, <1>4
<1> QED
  BY <1>5

\* The first of two modules of a name is the only one when names are apart.
LEMMA FileOfName ==
    ASSUME Len(program) \in Nat, Apart(Len(program)), NEW k \in 1..Len(program)
    PROVE  FileOf(program[k].name) = program[k]
<1> DEFINE m == program[k].name
           First(a) == program[a].name = m /\ \A j \in 1..(a - 1) : program[j].name # m
<1>1. \A a, b \in 1..Len(program) : program[a].name = program[b].name => a = b
  BY DEF Apart
<1>2. First(k)
  BY <1>1
<1>3. \A a \in 1..Len(program) : First(a) => a = k
  BY <1>1
<1>4. (CHOOSE a \in 1..Len(program) : First(a)) = k
  BY <1>2, <1>3
<1> QED
  BY <1>4 DEF FileOf

\* An object identifier in a clause leads to a module that satisfies it.
LEMMA SourceFits ==
    ASSUME Len(program) \in Nat, NEW imp, imp.oid # <<>>, Source(imp) # ""
    PROVE  \E k \in 1..Len(program) :
             Source(imp) = program[k].name /\ Matches(imp, program[k].oid)
<1> DEFINE fits == {k \in 1..Len(program) : program[k].oid # <<>> /\ Matches(imp, program[k].oid)}
           least == CHOOSE k \in fits : \A j \in fits : k <= j
<1>1. fits # {}
  BY DEF Source
<1>2. Source(imp) = program[least].name
  BY <1>1 DEF Source
<1>3. fits \subseteq Nat
  <2>1. 1..Len(program) \subseteq Nat
    BY CountsAreNat
  <2> QED
    BY <2>1, Zenon
<1>4. \E k \in fits : \A j \in fits : k <= j
  <2> HIDE DEF fits
  <2> QED
    BY <1>1, <1>3, LeastOf
<1>5. least \in fits
  <2> HIDE DEF fits
  <2> QED
    BY <1>4
<1> QED
  BY <1>2, <1>5

\* With distinct names, what a clause brings is what the text allows.
LEMMA InvImplies == NamesInv => ImportsAreExported
<1> SUFFICES ASSUME NamesInv, "duplicate module" \notin errors,
                    NEW m \in DOMAIN scope, NEW n \in DOMAIN scope[m], scope[m][n][1] # m
             PROVE  /\ Exported(scope[m][n][1], n)
                    /\ \E k \in 1..Len(program) :
                         /\ program[k].name = m
                         /\ \E j \in 1..Len(program[k].imports) :
                              LET imp == program[k].imports[j]
                              IN  /\ n \in ToSet(imp.names)
                                  /\ IF imp.oid = <<>> THEN imp.from = scope[m][n][1]
                                     ELSE Matches(imp, FileOf(scope[m][n][1]).oid)
  BY DEF ImportsAreExported
<1> DEFINE from == scope[m][n][1]
<1>1. Brings(m, n, from)
  BY DEF NamesInv, SeenInv
<1>2. Len(program) \in Nat /\ Apart(Len(program))
  <2>1. DOMAIN scope # {}
    OBVIOUS
  <2>2. scope # <<>>
    BY <2>1, EmptyDomain, Zenon
  <2> QED
    BY <2>2 DEF NamesInv, ApartInv
<1>3. PICK k \in 1..Len(program) :
        /\ program[k].name = m
        /\ \E j \in 1..Len(program[k].imports) :
             LET imp == program[k].imports[j]
             IN  n \in ToSet(imp.names) /\ from = Source(imp) /\ from # ""
  BY <1>1 DEF Brings
<1>4. PICK j \in 1..Len(program[k].imports) :
        n \in ToSet(program[k].imports[j].names) /\ from = Source(program[k].imports[j]) /\ from # ""
  BY <1>3
<1> DEFINE imp == program[k].imports[j]
<1>5. IF imp.oid = <<>> THEN imp.from = from ELSE Matches(imp, FileOf(from).oid)
  <2>1. CASE imp.oid = <<>>
    BY <1>4, <2>1 DEF Source
  <2>2. CASE imp.oid # <<>>
    <3>1. PICK l \in 1..Len(program) : from = program[l].name /\ Matches(imp, program[l].oid)
      BY <1>2, <1>4, <2>2, SourceFits
    <3>2. FileOf(from) = program[l]
      BY <1>2, <3>1, FileOfName
    <3> QED
      BY <2>2, <3>1, <3>2
  <2> QED
    BY <2>1, <2>2
<1> QED
  BY <1>1, <1>3, <1>4, <1>5 DEF Brings

-----------------------------------------------------------------------------
\* The text does not change, and what is said of it alone does not either.
LEMMA TextStays ==
    ASSUME UNCHANGED Input, NEW m, NEW n, NEW from, Brings(m, n, from)
    PROVE  Brings(m, n, from)'
<1>1. program' = program /\ newer' = newer
  BY DEF Input
<1>2. \A x : FileOf(x)' = FileOf(x)
  BY <1>1 DEF FileOf
<1>3. \A imp : Source(imp)' = Source(imp)
  BY <1>1 DEF Source, Names, Matches
<1>4. \A x, y : Exported(x, y)' <=> Exported(x, y)
  BY <1>2 DEF Exported
<1> QED
  BY <1>1, <1>3, <1>4 DEF Brings
\* A step after collect that leaves the scopes alone keeps the invariant.
LEMMA ScopesStay ==
    ASSUME NamesInv, UNCHANGED <<Input, scope>>, pc # "collect", pc' # "collect",
           i' \in 1..Len(program), errors \subseteq errors'
    PROVE  NamesInv'
<1>1. program' = program
  BY DEF Input
<1>2. SeenInv'
  BY TextStays DEF NamesInv, SeenInv
<1>3. ApartInv'
  BY <1>1 DEF NamesInv, ApartInv, Apart
<1> QED
  BY <1>2, <1>3 DEF NamesInv

LEMMA InvInit == Init => NamesInv
<1> SUFFICES ASSUME Init PROVE NamesInv
  OBVIOUS
<1>1. DOMAIN scope = {}
  BY EmptyDomain DEF Init
<1>2. SeenInv
  BY <1>1 DEF SeenInv
<1>3. Len(program) \in Nat \ {0}
  BY ProgramsAssumption DEF Init
<1>4. ApartInv
  BY <1>3 DEF Init, ApartInv, Apart
<1> QED
  BY <1>2, <1>4 DEF NamesInv

\* collect keeps the names of the modules apart, or reports an error.
LEMMA CollectKeeps ==
    ASSUME NamesInv, Collect
    PROVE  NamesInv'
<1>1. /\ program' = program /\ scope' = scope /\ UNCHANGED Input
      /\ pc = "collect" /\ scope = <<>> /\ i \in 1..Len(program) /\ Len(program) \in Nat \ {0}
      /\ \A a \in 1..Len(program) : a < i => program[a].name \in DOMAIN symbols
  BY DEF Collect, Input, NamesInv, ApartInv
<1>2. \/ pc' = pc /\ i' = i + 1 /\ i < Len(program)
      \/ pc' = "imports" /\ i' = 1 /\ ~(i < Len(program))
  BY DEF Collect, Advance
<1>3. SeenInv'
  BY <1>1, EmptyDomain DEF SeenInv
<1>4. /\ pc' = "collect" => \A a \in 1..Len(program) : a < i' => program[a].name \in DOMAIN symbols'
      /\ "duplicate module" \notin errors' => Apart(i)
  <2>1. CASE program[i].name \in DOMAIN symbols
    <3>1. "duplicate module" \in errors' /\ symbols' = symbols
      BY <2>1 DEF Collect
    <3>2. ASSUME pc' = "collect", NEW a \in 1..Len(program), a < i'
          PROVE  program[a].name \in DOMAIN symbols'
      <4>1. a \in Nat /\ (a < i \/ a = i)
        BY <1>1, <1>2, <3>2
      <4> QED
        BY <1>1, <2>1, <3>1, <4>1
    <3> QED
      BY <3>1, <3>2
  <2>2. CASE program[i].name \notin DOMAIN symbols
    <3>1. errors \subseteq errors'
      BY <2>2 DEF Collect
    <3>2. symbols' = Put(symbols, program[i].name, Table(program[i].defs))
      BY <2>2 DEF Collect
    <3>3. DOMAIN symbols' = DOMAIN symbols \cup {program[i].name}
      BY <3>2 DEF Put
    <3>4. pc' = "collect" => \A a \in 1..Len(program) : a < i' => program[a].name \in DOMAIN symbols'
      BY <1>1, <1>2, <3>3
    <3>5. ASSUME "duplicate module" \notin errors' PROVE Apart(i)
      <4>1. Apart(i - 1)
        BY <1>1, <3>1, <3>5 DEF NamesInv, ApartInv
      <4> QED
        BY <1>1, <2>2, <4>1 DEF Apart
    <3> QED
      BY <3>4, <3>5
  <2> QED
    BY <2>1, <2>2
<1>5. ASSUME "duplicate module" \notin errors'
      PROVE  Apart(IF pc' = "collect" THEN i' - 1 ELSE Len(program))
  <2>1. Apart(i)
    BY <1>4, <1>5
  <2>2. CASE pc' = "collect"
    <3>1. i' - 1 = i
      BY <1>1, <1>2, <2>2
    <3> QED
      BY <2>1, <2>2, <3>1
  <2>3. CASE pc' # "collect"
    BY <1>1, <1>2, <2>1, <2>3 DEF Apart
  <2> QED
    BY <2>2, <2>3
<1>6. ApartInv'
  <2>1. i' \in 1..Len(program)
    BY <1>1, <1>2
  <2> QED
    BY <1>1, <1>4, <1>5, <2>1 DEF ApartInv, Apart
<1> QED
  BY <1>3, <1>6 DEF NamesInv

\* A module's own names are its own.
LEMMA OwnNamesKeeps ==
    ASSUME NamesInv, OwnNames
    PROVE  NamesInv'
<1> DEFINE m == program[i].name
           own == [n \in DOMAIN symbols[m] |-> <<m, n>>]
           old == IF m \in DOMAIN scope THEN scope[m] ELSE <<>>
<1>1. scope' = Put(scope, m, Over(own, old))
  BY DEF OwnNames
<1>2. /\ program' = program /\ UNCHANGED Input /\ pc = "imports"
      /\ i' = i /\ pc' = pc /\ errors' = errors
  BY DEF OwnNames, Input
<1>3. ApartInv'
  BY <1>2 DEF NamesInv, ApartInv, Apart
<1>4. ASSUME NEW x \in DOMAIN scope', NEW n \in DOMAIN scope'[x]
      PROVE  (scope[x][n][1] = x \/ Brings(x, n, scope[x][n][1]))'
  <2>1. CASE x = m
    <3>1. scope'[x] = Over(own, old)
      BY <1>1, <2>1 DEF Put
    <3>2. CASE n \in DOMAIN own
      <4>1. scope'[x][n] = own[n]
        BY <3>1, <3>2 DEF Over
      <4>2. own[n] = <<m, n>>
        BY <3>2
      <4> QED
        BY <2>1, <4>1, <4>2
    <3>3. CASE n \notin DOMAIN own
      <4>1. n \in DOMAIN old /\ scope'[x][n] = old[n]
        BY <3>1, <3>3 DEF Over
      <4>2. m \in DOMAIN scope /\ old = scope[m]
        BY <4>1, EmptyDomain
      <4> QED
        BY <1>2, <2>1, <4>1, <4>2, TextStays DEF NamesInv, SeenInv
    <3> QED
      BY <3>2, <3>3
  <2>2. CASE x # m
    <3>1. x \in DOMAIN scope /\ scope'[x] = scope[x]
      BY <1>1, <2>2 DEF Put
    <3> QED
      BY <1>2, <3>1, TextStays DEF NamesInv, SeenInv
  <2> QED
    BY <2>1, <2>2
<1> QED
  BY <1>3, <1>4 DEF NamesInv, SeenInv

\* A clause brings names its source exports, and the source is not ""; one
\* that leads nowhere, or to the module itself, brings none.
LEMMA ResolveImportKeeps ==
    ASSUME NamesInv, ResolveImport
    PROVE  NamesInv'
<1> DEFINE m == program[i].name
           imp == program[i].imports[clause]
           from == Source(imp)
           got == [n \in {x \in ToSet(imp.names) : Exported(from, x) /\ Defined(from, x)} |-> <<from, n>>]
<1>1. /\ program' = program /\ UNCHANGED Input /\ pc = "imports"
      /\ i' = i /\ pc' = pc /\ errors \subseteq errors'
      /\ clause \in 1..Len(program[i].imports) /\ i \in 1..Len(program)
  BY DEF ResolveImport, Input, NamesInv, ApartInv
<1>2. CASE imp.from = m \/ from \in {m, ""}
  <2>1. UNCHANGED <<Input, scope>> /\ i' \in 1..Len(program)
    BY <1>1, <1>2 DEF ResolveImport, Input, NamesInv, ApartInv
  <2> QED
    BY <1>1, <2>1, ScopesStay
<1>3. CASE ~(imp.from = m \/ from \in {m, ""})
  <2>1. scope' = [scope EXCEPT ![m] = Over(got, @)]
    BY <1>3 DEF ResolveImport
  <2>2. ApartInv'
    BY <1>1 DEF NamesInv, ApartInv, Apart
  <2>3. ASSUME NEW x \in DOMAIN scope', NEW n \in DOMAIN scope'[x]
        PROVE  (scope[x][n][1] = x \/ Brings(x, n, scope[x][n][1]))'
    <3>1. x \in DOMAIN scope
      BY <2>1
    <3>2. CASE x = m /\ n \in DOMAIN got
      <4>1. scope'[x][n] = <<from, n>> /\ n \in ToSet(imp.names) /\ Exported(from, n)
        BY <2>1, <3>1, <3>2 DEF Over
      <4>2. Brings(m, n, from)
        BY <1>1, <1>3, <4>1 DEF Brings
      <4> QED
        BY <1>1, <3>2, <4>1, <4>2, TextStays
    <3>3. CASE ~(x = m /\ n \in DOMAIN got)
      <4>1. n \in DOMAIN scope[x] /\ scope'[x][n] = scope[x][n]
        BY <2>1, <3>1, <3>3 DEF Over
      <4> QED
        BY <1>1, <3>1, <4>1, TextStays DEF NamesInv, SeenInv
    <3> QED
      BY <3>2, <3>3
  <2> QED
    BY <2>2, <2>3 DEF NamesInv, SeenInv
<1> QED
  BY <1>2, <1>3

\* The passes after the imports, and the end of a module's own, change no scope.
LEMMA OthersKeep ==
    ASSUME NamesInv,
           EndImports \/ ResolveTypes \/ ResolveFields \/ Instantiate \/ NextModule \/ ResolveValues
    PROVE  NamesInv'
<1>1. i \in 1..Len(program) /\ Len(program) \in Nat
  BY DEF NamesInv, ApartInv
<1>2. UNCHANGED <<Input, scope>> /\ pc # "collect" /\ pc' # "collect"
  BY DEF EndImports, ResolveTypes, ResolveFields, Instantiate, NextModule, ResolveValues, Advance
<1>3. i' \in 1..Len(program)
  <2>1. i' = i \/ i' = 1 \/ (i < Len(program) /\ i' = i + 1)
    <3>1. CASE EndImports \/ ResolveTypes \/ ResolveFields \/ NextModule
      BY <3>1, Zenon DEF EndImports, ResolveTypes, ResolveFields, NextModule, Advance
    <3>2. CASE Instantiate
      BY <3>2, Zenon DEF Instantiate
    <3>3. CASE ResolveValues
      BY <3>3, Zenon DEF ResolveValues
    <3> QED
      BY <3>1, <3>2, <3>3
  <2> QED
    BY <1>1, <2>1
<1>4. errors \subseteq errors'
  <2>1. CASE ResolveTypes
    BY <2>1 DEF ResolveTypes
  <2>2. CASE ResolveValues
    <3>1. PICK found : errors' = errors \cup found
      BY <2>2, Zenon DEF ResolveValues
    <3> QED
      BY <3>1
  <2> QED
    BY <2>1, <2>2 DEF EndImports, ResolveFields, Instantiate, NextModule
<1> QED
  BY <1>2, <1>3, <1>4, ScopesStay

LEMMA InvNext == NamesInv /\ [Next]_vars => NamesInv'
<1> SUFFICES ASSUME NamesInv, [Next]_vars PROVE NamesInv'
  OBVIOUS
<1>1. CASE Collect
  BY <1>1, CollectKeeps
<1>2. CASE OwnNames
  BY <1>2, OwnNamesKeeps
<1>3. CASE ResolveImport
  BY <1>3, ResolveImportKeeps
<1>4. CASE EndImports \/ ResolveTypes \/ ResolveFields \/ Instantiate \/ NextModule \/ ResolveValues
  BY <1>4, OthersKeep
<1>5. CASE UNCHANGED vars
  <2>1. UNCHANGED <<Input, scope, symbols, errors, pc, i>> /\ program' = program
    BY <1>5 DEF vars, Input
  <2>2. SeenInv'
    BY <2>1, TextStays DEF NamesInv, SeenInv
  <2>3. ApartInv'
    BY <2>1 DEF NamesInv, ApartInv, Apart
  <2> QED
    BY <2>2, <2>3 DEF NamesInv
<1> QED
  BY <1>1, <1>2, <1>3, <1>4, <1>5 DEF Next

\* resolve_imports: whatever the schema and the order of its files, a name of
\* another module is visible only through a clause that names it, from a
\* module that satisfies the clause's object identifier (or has its name, if
\* it writes none) and exports it; unless two modules had one name, which is
\* an error.
THEOREM ScopesAreExported == Spec => []ImportsAreExported
<1>1. Spec => []NamesInv
  BY InvInit, InvNext, PTL DEF Spec
<1> QED
  BY <1>1, InvImplies, PTL

-----------------------------------------------------------------------------
(* The text: what is finite in it, and what its names look like.           *)

\* Induction, with the set of the numbers that have the property.
LEMMA Inductive ==
    ASSUME NEW S, 0 \in S, \A n \in Nat : n \in S => n + 1 \in S
    PROVE  Nat \subseteq S
<1> DEFINE T == Nat \ S
<1>1. SUFFICES ASSUME T # {} PROVE FALSE
  OBVIOUS
<1>2. PICK k \in T : \A j \in T : k <= j
  <2>1. T \subseteq Nat
    OBVIOUS
  <2> HIDE DEF T
  <2> QED
    BY <1>1, <2>1, LeastOf
<1>3. k # 0 /\ k \in Nat /\ k - 1 \in Nat /\ k - 1 < k
  OBVIOUS
<1>4. k - 1 \in S
  BY <1>2, <1>3
<1>5. (k - 1) + 1 \in S
  BY <1>3, <1>4
<1> QED
  BY <1>3, <1>5

\* What a function makes of a finite set is no larger.
LEMMA Image ==
    ASSUME NEW f, IsFiniteSet(DOMAIN f)
    PROVE  LET T == {f[x] : x \in DOMAIN f}
           IN  IsFiniteSet(T) /\ Cardinality(T) <= Cardinality(DOMAIN f)
<1> DEFINE T == {f[x] : x \in DOMAIN f}
           g == [x \in DOMAIN f |-> f[x]]
<1>1. g \in Surjection(DOMAIN f, T)
  BY DEF Surjection
<1>2. IsFiniteSet(T) /\ Cardinality(T) <= Cardinality(DOMAIN f)
  <2> HIDE DEF T, g
  <2> QED
    BY <1>1, FS_Surjection
<1> QED
  BY <1>2

OnePart(n) == n \in Seq(STRING) /\ Len(n) = 1

\* A body as it may be in the table of module m at name n.
Fit(m, n, b) ==
    /\ n \in Own(m) \/ Len(n) # 1
    /\ b.is = "link" => n \in Own(m) /\ Len(b.to) = 1
    /\ b.is = "inst" => n \in Own(m) /\ OnePart(b.to) /\ OnePart(b.arg.to)

LEMMA FilesOfNames ==
    ASSUME program \in Programs, NEW m \in Names
    PROVE  \E k \in 1..Len(program) : FileOf(m) = program[k] /\ program[k].name = m
<1> DEFINE First(k) == program[k].name = m /\ \A j \in 1..(k - 1) : program[j].name # m
           S == {k \in 1..Len(program) : program[k].name = m}
<1>1. Len(program) \in Nat
  BY ProgramsAssumption
<1>2. S \subseteq Nat
  <2>1. 1..Len(program) \subseteq Nat
    BY <1>1, CountsAreNat
  <2> QED
    BY <2>1, Zenon
<1>3. S # {}
  BY DEF Names
<1>4. PICK k \in S : \A j \in S : k <= j
  <2> HIDE DEF S
  <2> QED
    BY <1>2, <1>3, LeastOf
<1>5. k \in 1..Len(program) /\ First(k)
  <2>1. ASSUME NEW j \in 1..(k - 1), program[j].name = m PROVE FALSE
    <3>1. j \in 1..Len(program) /\ j < k
      BY <1>1
    <3>2. j \in S
      BY <2>1, <3>1
    <3> QED
      BY <1>1, <1>4, <3>1, <3>2
  <2> QED
    BY <2>1
<1>6. FileOf(m) = program[CHOOSE x \in 1..Len(program) : First(x)]
  BY DEF FileOf
<1>7. (CHOOSE x \in 1..Len(program) : First(x)) \in 1..Len(program) /\ First(CHOOSE x \in 1..Len(program) : First(x))
  <2> HIDE DEF First
  <2> QED
    BY <1>5
<1> QED
  BY <1>6, <1>7

\* A table holds the definitions of a list, and nothing else.
LEMMA TableHolds ==
    ASSUME NEW defs, Len(defs) \in Nat
    PROVE  /\ DOMAIN Table(defs) = {defs[k].name : k \in 1..Len(defs)}
           /\ \A n \in DOMAIN Table(defs) : \E k \in 1..Len(defs) :
                defs[k].name = n /\ Table(defs)[n] = defs[k].body
<1>1. DOMAIN Table(defs) = {defs[k].name : k \in 1..Len(defs)}
  BY DEF Table
<1>2. ASSUME NEW n \in DOMAIN Table(defs)
      PROVE  \E k \in 1..Len(defs) : defs[k].name = n /\ Table(defs)[n] = defs[k].body
  <2> DEFINE First(k) == defs[k].name = n /\ \A j \in 1..(k - 1) : defs[j].name # n
             S == {k \in 1..Len(defs) : defs[k].name = n}
  <2>1. S \subseteq Nat /\ S # {}
    <3>1. 1..Len(defs) \subseteq Nat
      BY CountsAreNat
    <3> QED
      BY <1>1, <3>1, Zenon
  <2>2. PICK k \in S : \A j \in S : k <= j
    <3> HIDE DEF S
    <3> QED
      BY <2>1, LeastOf
  <2>3. k \in 1..Len(defs) /\ First(k)
    <3>1. ASSUME NEW j \in 1..(k - 1), defs[j].name = n PROVE FALSE
      <4>1. j \in 1..Len(defs) /\ j < k
        OBVIOUS
      <4> QED
        BY <2>2, <3>1, <4>1
    <3> QED
      BY <3>1
  <2>4. (CHOOSE x \in 1..Len(defs) : First(x)) \in 1..Len(defs) /\ First(CHOOSE x \in 1..Len(defs) : First(x))
    <3> HIDE DEF First
    <3> QED
      BY <2>3
  <2>5. Table(defs)[n] = defs[CHOOSE x \in 1..Len(defs) : First(x)].body
    BY <1>1 DEF Table
  <2> QED
    BY <2>4, <2>5
<1> QED
  BY <1>1, <1>2

LEMMA TextFacts ==
    ASSUME program \in Programs, NEW m \in Names
    PROVE  /\ \A n \in Own(m) : Len(n) = 1 /\ Fit(m, n, Table(FileOf(m).defs)[n])
           /\ IsFiniteSet(Own(m))
<1>1. PICK k \in 1..Len(program) : FileOf(m) = program[k]
  BY FilesOfNames
<1> DEFINE defs == program[k].defs
<1>2. Len(defs) \in Nat
  BY ProgramsAssumption
<1>3. Own(m) = DOMAIN Table(defs) /\ FileOf(m).defs = defs
  BY <1>1 DEF Own
<1>4. \A j \in 1..Len(defs) :
        LET d == defs[j]
        IN  /\ Len(d.name) = 1
            /\ d.body.is = "link" => Len(d.body.to) = 1
            /\ d.body.is = "inst" =>
                   /\ d.body.to \in Seq(STRING) /\ Len(d.body.to) = 1
                   /\ d.body.arg.to \in Seq(STRING) /\ Len(d.body.arg.to) = 1
  BY NamesAssumption
<1> HIDE DEF defs
<1>5. /\ DOMAIN Table(defs) = {defs[x].name : x \in 1..Len(defs)}
      /\ \A n \in DOMAIN Table(defs) : \E j \in 1..Len(defs) :
            defs[j].name = n /\ Table(defs)[n] = defs[j].body
  BY <1>2, TableHolds
<1>6. ASSUME NEW n \in Own(m)
      PROVE  Len(n) = 1 /\ Fit(m, n, Table(FileOf(m).defs)[n])
  <2>1. PICK j \in 1..Len(defs) : defs[j].name = n /\ Table(defs)[n] = defs[j].body
    BY <1>3, <1>5
  <2> QED
    BY <1>3, <1>4, <2>1 DEF Fit, OnePart
<1>7. IsFiniteSet(Own(m))
  <2> DEFINE f == [x \in 1..Len(defs) |-> defs[x].name]
  <2>1. Own(m) = {f[x] : x \in DOMAIN f}
    BY <1>3, <1>5
  <2>2. IsFiniteSet(1..Len(defs))
    BY <1>2, FS_Interval
  <2>3. DOMAIN f = 1..Len(defs)
    OBVIOUS
  <2> HIDE DEF f
  <2> QED
    BY <2>1, <2>2, <2>3, Image
<1> QED
  BY <1>6, <1>7

LEMMA TextIsFinite ==
    ASSUME program \in Programs
    PROVE  IsFiniteSet(Names) /\ IsFiniteSet(AllDefs) /\ IsFiniteSet(Names \X AllDefs) /\ Links \in Nat \ {0}
<1>1. IsFiniteSet(Names)
  <2> DEFINE f == [k \in 1..Len(program) |-> program[k].name]
  <2>1. Names = {f[x] : x \in DOMAIN f}
    BY DEF Names
  <2>2. IsFiniteSet(DOMAIN f)
    BY ProgramsAssumption, FS_Interval
  <2> HIDE DEF f
  <2> QED
    BY <2>1, <2>2, Image
<1>2. IsFiniteSet(AllDefs)
  <2> DEFINE Of(m) == {<<m, n>> : n \in Own(m)}
             F == [m \in Names |-> Of(m)]
  <2>1. ASSUME NEW m \in Names PROVE IsFiniteSet(Of(m))
    <3> DEFINE f == [n \in Own(m) |-> <<m, n>>]
    <3>1. Of(m) = {f[x] : x \in DOMAIN f}
      OBVIOUS
    <3>2. IsFiniteSet(DOMAIN f)
      BY TextFacts
    <3> HIDE DEF f
    <3> QED
      BY <3>1, <3>2, Image
  <2>2. AllDefs = UNION {F[m] : m \in DOMAIN F}
    BY DEF AllDefs
  <2>3. IsFiniteSet(DOMAIN F) /\ \A m \in DOMAIN F : IsFiniteSet(F[m])
    BY <1>1, <2>1
  <2> HIDE DEF F
  <2>4. IsFiniteSet({F[m] : m \in DOMAIN F})
    BY <2>3, Image
  <2> QED
    BY <2>2, <2>3, <2>4, FS_UNION
<1>3. IsFiniteSet(Names \X AllDefs)
  BY <1>1, <1>2, FS_Product
<1> QED
  BY <1>1, <1>2, <1>3, FS_CardinalityType DEF Links

-----------------------------------------------------------------------------
(* What the tables hold, as long as no error was reported.                 *)

Early == {"collect", "imports", "types", "fields"}
Late == {"instances", "values", "codegen", "failed"}

\* The tables hold the text's names, and later those of instances.
SymbolsInv ==
    /\ pc \in Early \cup Late
    /\ DOMAIN symbols \subseteq Names
    /\ pc # "collect" => DOMAIN symbols = Names
    /\ \A m \in DOMAIN symbols :
         /\ Own(m) \subseteq DOMAIN symbols[m]
         /\ pc \in Early => DOMAIN symbols[m] = Own(m)
         /\ \A n \in DOMAIN symbols[m] : Fit(m, n, symbols[m][n])

\* Scopes lead to the text's definitions, the global table to definitions.
LeadsToText == \A m \in DOMAIN scope : \A n \in DOMAIN scope[m] :
    \E from \in Names : n \in Own(from) /\ scope[m][n] = <<from, n>>

LeadsToDefinitions == \A n \in DOMAIN global :
    \E from \in DOMAIN symbols : n \in DOMAIN symbols[from] /\ global[n] = <<from, n>>

\* A module whose own names resolve_imports has put into the global table.
Passed(a) ==
    \/ pc \notin {"collect", "imports"}
    \/ pc = "imports" /\ (a < i \/ (a = i /\ clause > 0))

ScopesInv ==
    /\ clause \in Nat /\ (pc = "collect" => clause = 0)
    /\ LeadsToText
    /\ LeadsToDefinitions
    /\ \A a \in 1..Len(program) : Passed(a) => Own(program[a].name) \subseteq DOMAIN global

QueueInv ==
    /\ pc = "instances" => queue \in Seq(DOMAIN symbols[program[i].name])
    /\ IsFiniteSet(DOMAIN cache)

\* A chain of values without an error, at a definition.
Chain(at, mod, path) == [at |-> at, mod |-> mod, path |-> path, why |-> ""]
Fine(s) == s.why = ""

\* The turns of check_value_ref_chain for a value.
Trail(m, n, t) ==
    /\ t[0] = Chain(<<m, n>>, m, {<<m, n>>})
    /\ \A k \in 0..(Links - 1) : t[k + 1] = ValueHop(t[k])

Checked(m) == \A n \in DOMAIN symbols[m] : \E t : Trail(m, n, t) /\ Fine(t[Links])

ChecksInv ==
    /\ pc = "values" => \A a \in 1..(i - 1) : Checked(program[a].name)
    /\ pc = "codegen" => \A m \in Names : Checked(m)

SoundInv == SymbolsInv /\ ScopesInv /\ QueueInv /\ ChecksInv

\* What a run without errors keeps.
TablesInv ==
    /\ program \in Programs
    /\ pc = "codegen" => errors = {}
    /\ errors = {} => SoundInv

Known == program \in Programs /\ NamesInv /\ SoundInv

-----------------------------------------------------------------------------
LEMMA TextIsFixed ==
    ASSUME UNCHANGED Input
    PROVE  /\ program' = program
           /\ Names' = Names
           /\ AllDefs' = AllDefs
           /\ Links' = Links
           /\ \A m : Own(m)' = Own(m)
           /\ \A m, n, b : Fit(m, n, b)' <=> Fit(m, n, b)
<1>1. program' = program
  BY DEF Input
<1>2. Names' = Names
  BY <1>1 DEF Names
<1>3. \A m : FileOf(m)' = FileOf(m)
  BY <1>1 DEF FileOf
<1>4. \A m : Own(m)' = Own(m)
  BY <1>3 DEF Own
<1>5. AllDefs' = AllDefs
  BY <1>2, <1>4 DEF AllDefs
<1>6. Links' = Links
  BY <1>2, <1>5 DEF Links
<1>7. \A m, n, b : Fit(m, n, b)' <=> Fit(m, n, b)
  BY <1>4 DEF Fit
<1> QED
  BY <1>1, <1>2, <1>4, <1>5, <1>6, <1>7

\* A pass that changes no table.
LEMMA SymbolsStay ==
    ASSUME SymbolsInv, UNCHANGED <<Input, symbols>>, pc # "collect",
           pc' \in Early \cup Late, pc' \in Early => pc \in Early
    PROVE  SymbolsInv'
<1>1. UNCHANGED Input /\ symbols' = symbols
  OBVIOUS
<1>2. /\ Names' = Names /\ \A m : Own(m)' = Own(m)
      /\ \A m, n, b : Fit(m, n, b)' <=> Fit(m, n, b)
  BY <1>1, TextIsFixed
<1> QED
  BY <1>1, <1>2 DEF SymbolsInv

LEMMA LeadsStay ==
    ASSUME ScopesInv, SymbolsInv, UNCHANGED <<Input, scope, global>>,
           DOMAIN symbols \subseteq DOMAIN symbols',
           \A m \in DOMAIN symbols : DOMAIN symbols[m] \subseteq DOMAIN symbols'[m],
           clause' \in Nat, pc' = "collect" => clause' = 0,
           \A a \in 1..Len(program) : Passed(a)' => Passed(a)
    PROVE  ScopesInv'
<1>1. UNCHANGED Input /\ scope' = scope /\ global' = global
  OBVIOUS
<1>2. /\ program' = program /\ Names' = Names /\ \A m : Own(m)' = Own(m)
  BY <1>1, TextIsFixed
<1>3. LeadsToText'
  BY <1>1, <1>2 DEF ScopesInv, LeadsToText
<1>4. LeadsToDefinitions'
  <2> SUFFICES ASSUME NEW n \in DOMAIN global
               PROVE  \E from \in DOMAIN symbols' : n \in DOMAIN symbols'[from] /\ global[n] = <<from, n>>
    BY <1>1 DEF LeadsToDefinitions
  <2>1. PICK from \in DOMAIN symbols : n \in DOMAIN symbols[from] /\ global[n] = <<from, n>>
    BY DEF ScopesInv, LeadsToDefinitions
  <2> QED
    BY <2>1
<1> QED
  BY <1>1, <1>2, <1>3, <1>4 DEF ScopesInv

LEMMA ChainsStay ==
    ASSUME UNCHANGED <<Input, symbols, scope, global>>, NEW m, Checked(m)
    PROVE  Checked(m)'
<1>1. UNCHANGED Input /\ symbols' = symbols /\ scope' = scope /\ global' = global
  OBVIOUS
<1>2. Links' = Links
  BY <1>1, TextIsFixed
<1>3. \A s : ValueHop(s)' = ValueHop(s)
  BY <1>1 DEF ValueHop, BodyOf, Direct, Defined
<1>4. \A n, t : Trail(m, n, t) => Trail(m, n, t)'
  BY <1>2, <1>3 DEF Trail
<1> QED
  BY <1>1, <1>2, <1>4 DEF Checked

-----------------------------------------------------------------------------
(* One lemma for each pass.                                                *)

\* The least a step must keep, beside the tables.
LEMMA Bounds ==
    ASSUME Known, errors = {}
    PROVE  /\ Len(program) \in Nat \ {0} /\ i \in 1..Len(program) /\ i \in Nat
           /\ clause \in Nat
           /\ pc # "collect" => \A k \in 1..Len(program) :
                /\ program[k].name \in Names /\ FileOf(program[k].name) = program[k]
                /\ DOMAIN symbols = Names
<1>1. Len(program) \in Nat \ {0} /\ i \in 1..Len(program)
  BY DEF Known, NamesInv, ApartInv
<1>2. ASSUME pc # "collect", NEW k \in 1..Len(program)
      PROVE  /\ program[k].name \in Names /\ FileOf(program[k].name) = program[k]
             /\ DOMAIN symbols = Names
  <2>1. Apart(Len(program))
    BY <1>2 DEF Known, NamesInv, ApartInv
  <2> QED
    BY <1>1, <1>2, <2>1, FileOfName DEF Known, SoundInv, SymbolsInv, Names
<1> QED
  BY <1>1, <1>2 DEF Known, SoundInv, ScopesInv

\* collect enters a module whose name is new, with its own table.
LEMMA CollectEnters ==
    ASSUME Known, errors = {}, Collect, errors' = {}
    PROVE  LET m == program[i].name
           IN  /\ m \notin DOMAIN symbols /\ m \in Names
               /\ symbols' = Put(symbols, m, Table(program[i].defs))
               /\ FileOf(m) = program[i]
<1> DEFINE m == program[i].name
<1>1. \A a \in 1..Len(program) : a < i => program[a].name \in DOMAIN symbols
  BY DEF Collect, Known, NamesInv, ApartInv
<1>2. Len(program) \in Nat \ {0} /\ i \in 1..Len(program) /\ i \in Nat
  BY Bounds
<1>3. m \notin DOMAIN symbols /\ symbols' = Put(symbols, m, Table(program[i].defs))
  BY DEF Collect
<1>4. m \in Names
  BY <1>2 DEF Names
<1>5. FileOf(m) = program[i]
  <2> DEFINE First(k) == program[k].name = m /\ \A j \in 1..(k - 1) : program[j].name # m
  <2>1. First(i)
    BY <1>1, <1>2, <1>3
  <2>2. \A k \in 1..Len(program) : First(k) => k = i
    <3> SUFFICES ASSUME NEW k \in 1..Len(program), First(k), k # i PROVE FALSE
      OBVIOUS
    <3>1. CASE k < i
      BY <1>1, <1>3, <3>1
    <3>2. CASE i < k
      BY <1>2, <3>2
    <3> QED
      BY <1>2, <3>1, <3>2
  <2>3. (CHOOSE k \in 1..Len(program) : First(k)) = i
    <3> HIDE DEF First
    <3> QED
      BY <1>2, <2>1, <2>2
  <2> QED
    BY <2>3 DEF FileOf
<1> QED
  BY <1>3, <1>4, <1>5

LEMMA CollectSound ==
    ASSUME Known, errors = {}, Collect, errors' = {}
    PROVE  SoundInv'
<1> DEFINE m == program[i].name
           table == Table(program[i].defs)
<1>1. /\ pc = "collect" /\ UNCHANGED Input /\ scope' = scope /\ global' = global
      /\ clause' = clause /\ cache' = cache
      /\ \A a \in 1..Len(program) : a < i => program[a].name \in DOMAIN symbols
  BY DEF Collect, Known, NamesInv, ApartInv
<1>2. Len(program) \in Nat \ {0} /\ i \in 1..Len(program) /\ i \in Nat /\ clause \in Nat
  BY Bounds
<1>3. m \notin DOMAIN symbols /\ symbols' = Put(symbols, m, table)
  BY DEF Collect
<1>4. \/ pc' = "collect" /\ i' = i + 1 /\ i < Len(program)
      \/ pc' = "imports" /\ i' = 1 /\ i = Len(program)
  <2>1. IF i < Len(program) THEN i' = i + 1 /\ pc' = pc ELSE i' = 1 /\ pc' = "imports"
    BY DEF Collect, Advance
  <2> QED
    BY <1>1, <1>2, <2>1
<1>5. /\ program' = program /\ Names' = Names /\ \A x : Own(x)' = Own(x)
      /\ \A x, n, b : Fit(x, n, b)' <=> Fit(x, n, b)
  BY <1>1, TextIsFixed
<1>6. m \in Names
  BY <1>2 DEF Names
<1>7. FileOf(m) = program[i]
  BY CollectEnters
<1>8. Own(m) = DOMAIN table /\ \A n \in Own(m) : Fit(m, n, table[n])
  BY <1>6, <1>7, TextFacts DEF Known, Own
<1> HIDE DEF m, table
<1>9. /\ DOMAIN symbols' = DOMAIN symbols \cup {m} /\ symbols'[m] = table
      /\ \A x \in DOMAIN symbols : symbols'[x] = symbols[x]
  BY <1>3 DEF Put
<1>10. SymbolsInv'
  <2>1. pc' # "collect" => Names \subseteq DOMAIN symbols'
    <3> SUFFICES ASSUME pc' # "collect", NEW k \in 1..Len(program) PROVE program[k].name \in DOMAIN symbols'
      BY DEF Names
    <3>1. k = i \/ k < i
      BY <1>2, <1>4
    <3> QED
      BY <1>1, <1>9, <3>1 DEF m
  <2>2. DOMAIN symbols' \subseteq Names
    BY <1>6, <1>9 DEF Known, SoundInv, SymbolsInv
  <2>3. ASSUME NEW x \in DOMAIN symbols'
        PROVE  /\ Own(x) \subseteq DOMAIN symbols'[x]
               /\ DOMAIN symbols'[x] = Own(x)
               /\ \A n \in DOMAIN symbols'[x] : Fit(x, n, symbols'[x][n])
    <3>1. CASE x = m
      BY <1>8, <1>9, <3>1
    <3>2. CASE x # m
      BY <1>1, <1>9, <3>2 DEF Known, SoundInv, SymbolsInv, Early
    <3> QED
      BY <3>1, <3>2
  <2>4. pc' \in {"collect", "imports"}
    BY <1>4
  <2> QED
    BY <1>5, <2>1, <2>2, <2>3, <2>4 DEF SymbolsInv, Early
<1>11. ScopesInv'
  <2>1. DOMAIN symbols \subseteq DOMAIN symbols' /\ \A x \in DOMAIN symbols : DOMAIN symbols[x] \subseteq DOMAIN symbols'[x]
    BY <1>9
  <2>2. clause' = 0
    BY <1>1 DEF Known, SoundInv, ScopesInv
  <2>3. \A a \in 1..Len(program) : ~Passed(a)'
    BY <1>4, <2>2 DEF Passed
  <2> QED
    BY <1>1, <2>1, <2>2, <2>3, LeadsStay DEF Known, SoundInv
<1>12. QueueInv' /\ ChecksInv'
  BY <1>1, <1>4 DEF Known, SoundInv, QueueInv, ChecksInv
<1> QED
  BY <1>10, <1>11, <1>12 DEF SoundInv

LEMMA OwnNamesSound ==
    ASSUME Known, errors = {}, OwnNames
    PROVE  SoundInv'
<1> DEFINE m == program[i].name
           own == [n \in DOMAIN symbols[m] |-> <<m, n>>]
           old == IF m \in DOMAIN scope THEN scope[m] ELSE <<>>
<1>1. /\ pc = "imports" /\ UNCHANGED Input /\ UNCHANGED <<Input, symbols>> /\ symbols' = symbols
      /\ cache' = cache /\ pc' = pc /\ i' = i /\ clause = 0 /\ clause' = 1
      /\ scope' = Put(scope, m, Over(own, old)) /\ global' = Over(own, global)
  BY DEF OwnNames
<1>2. /\ i \in 1..Len(program) /\ i \in Nat /\ Len(program) \in Nat /\ DOMAIN symbols = Names /\ m \in Names
  BY <1>1, Bounds
<1>3. program' = program /\ Names' = Names /\ \A x : Own(x)' = Own(x)
  BY <1>1, TextIsFixed
<1>4. DOMAIN symbols[m] = Own(m)
  BY <1>1, <1>2 DEF Known, SoundInv, SymbolsInv, Early
<1> HIDE DEF m
<1>5. SymbolsInv'
  BY <1>1, SymbolsStay DEF Known, SoundInv, SymbolsInv
<1>6. LeadsToText'
  <2> SUFFICES ASSUME NEW x \in DOMAIN scope', NEW n \in DOMAIN scope'[x]
               PROVE  \E from \in Names : n \in Own(from) /\ scope'[x][n] = <<from, n>>
    BY <1>3 DEF LeadsToText
  <2>1. CASE x = m /\ n \in DOMAIN own
    <3>1. scope'[x][n] = <<m, n>>
      BY <1>1, <2>1 DEF Put, Over
    <3> QED
      BY <1>2, <1>4, <2>1, <3>1
  <2>2. CASE ~(x = m /\ n \in DOMAIN own)
    <3>1. x \in DOMAIN scope /\ n \in DOMAIN scope[x] /\ scope'[x][n] = scope[x][n]
      <4>1. CASE x = m
        <5>1. scope'[x] = Over(own, old)
          BY <1>1, <4>1 DEF Put
        <5>2. n \in DOMAIN old /\ scope'[x][n] = old[n]
          BY <2>2, <4>1, <5>1 DEF Over
        <5>3. m \in DOMAIN scope /\ old = scope[m]
          BY <5>2, EmptyDomain
        <5> QED
          BY <4>1, <5>2, <5>3
      <4>2. CASE x # m
        BY <1>1, <4>2 DEF Put
      <4> QED
        BY <4>1, <4>2
    <3> QED
      BY <3>1 DEF Known, SoundInv, ScopesInv, LeadsToText
  <2> QED
    BY <2>1, <2>2
<1>7. LeadsToDefinitions'
  <2> SUFFICES ASSUME NEW n \in DOMAIN global'
               PROVE  \E from \in DOMAIN symbols : n \in DOMAIN symbols[from] /\ global'[n] = <<from, n>>
    BY <1>1 DEF LeadsToDefinitions
  <2>1. CASE n \in DOMAIN own
    <3>1. global'[n] = <<m, n>>
      BY <1>1, <2>1 DEF Over
    <3> QED
      BY <1>2, <2>1, <3>1
  <2>2. CASE n \notin DOMAIN own
    <3>1. n \in DOMAIN global /\ global'[n] = global[n]
      BY <1>1, <2>2 DEF Over
    <3> QED
      BY <3>1 DEF Known, SoundInv, ScopesInv, LeadsToDefinitions
  <2> QED
    BY <2>1, <2>2
<1>8. ASSUME NEW a \in 1..Len(program), Passed(a)'
      PROVE  Own(program[a].name) \subseteq DOMAIN global'
  <2>1. DOMAIN global \cup DOMAIN own \subseteq DOMAIN global'
    BY <1>1 DEF Over
  <2>2. CASE a = i
    BY <1>4, <2>1, <2>2 DEF m
  <2>3. CASE a # i
    <3>1. a < i
      BY <1>1, <1>8, <2>3 DEF Passed
    <3>2. Passed(a)
      BY <1>1, <3>1 DEF Passed
    <3> QED
      BY <2>1, <3>2 DEF Known, SoundInv, ScopesInv
  <2> QED
    BY <2>2, <2>3
<1>9. ScopesInv'
  BY <1>1, <1>3, <1>6, <1>7, <1>8 DEF ScopesInv
<1>10. QueueInv' /\ ChecksInv'
  BY <1>1 DEF Known, SoundInv, QueueInv, ChecksInv
<1> QED
  BY <1>5, <1>9, <1>10 DEF SoundInv

LEMMA ResolveImportSound ==
    ASSUME Known, errors = {}, ResolveImport
    PROVE  SoundInv'
<1> DEFINE m == program[i].name
           imp == program[i].imports[clause]
           from == Source(imp)
           got == [n \in {x \in ToSet(imp.names) : Exported(from, x) /\ Defined(from, x)} |-> <<from, n>>]
<1>1. /\ pc = "imports" /\ UNCHANGED Input /\ UNCHANGED <<Input, symbols>> /\ symbols' = symbols
      /\ cache' = cache /\ pc' = pc /\ i' = i /\ clause' = clause + 1
      /\ clause \in 1..Len(program[i].imports)
      /\ \/ UNCHANGED <<Input, scope, global>>
         \/ scope' = [scope EXCEPT ![m] = Over(got, @)] /\ global' = Over(got, global)
  BY DEF ResolveImport
<1>2. clause \in Nat /\ clause > 0 /\ DOMAIN symbols = Names
  BY <1>1, Bounds
<1>3. program' = program /\ Names' = Names /\ \A x : Own(x)' = Own(x)
  BY <1>1, TextIsFixed
<1>4. ASSUME NEW n \in DOMAIN got
      PROVE  got[n] = <<from, n>> /\ from \in Names /\ n \in Own(from) /\ n \in DOMAIN symbols[from]
  BY <1>1, <1>2 DEF Defined, Known, SoundInv, SymbolsInv, Early
<1> HIDE DEF m, from, got
<1>5. SymbolsInv'
  BY <1>1, SymbolsStay DEF Known, SoundInv, SymbolsInv
<1>6. \A a \in 1..Len(program) : Passed(a)' => Passed(a)
  BY <1>1, <1>2 DEF Passed
<1>7. ScopesInv'
  <2>1. CASE UNCHANGED <<Input, scope, global>>
    BY <1>1, <1>2, <1>6, <2>1, LeadsStay DEF Known, SoundInv
  <2>2. CASE scope' = [scope EXCEPT ![m] = Over(got, @)] /\ global' = Over(got, global)
    <3>1. LeadsToText'
      <4> SUFFICES ASSUME NEW x \in DOMAIN scope', NEW n \in DOMAIN scope'[x]
                   PROVE  \E f \in Names : n \in Own(f) /\ scope'[x][n] = <<f, n>>
        BY <1>3 DEF LeadsToText
      <4>1. x \in DOMAIN scope /\ (x = m => scope'[x] = Over(got, scope[m])) /\ (x # m => scope'[x] = scope[x])
        BY <2>2
      <4>2. CASE x = m /\ n \in DOMAIN got
        BY <1>4, <4>1, <4>2 DEF Over
      <4>3. CASE ~(x = m /\ n \in DOMAIN got)
        <5>1. n \in DOMAIN scope[x] /\ scope'[x][n] = scope[x][n]
          BY <4>1, <4>3 DEF Over
        <5> QED
          BY <4>1, <5>1 DEF Known, SoundInv, ScopesInv, LeadsToText
      <4> QED
        BY <4>2, <4>3
    <3>2. LeadsToDefinitions'
      <4> SUFFICES ASSUME NEW n \in DOMAIN global'
                   PROVE  \E f \in DOMAIN symbols : n \in DOMAIN symbols[f] /\ global'[n] = <<f, n>>
        BY <1>1 DEF LeadsToDefinitions
      <4>1. CASE n \in DOMAIN got
        BY <1>2, <1>4, <2>2, <4>1 DEF Over
      <4>2. CASE n \notin DOMAIN got
        <5>1. n \in DOMAIN global /\ global'[n] = global[n]
          BY <2>2, <4>2 DEF Over
        <5> QED
          BY <5>1 DEF Known, SoundInv, ScopesInv, LeadsToDefinitions
      <4> QED
        BY <4>1, <4>2
    <3>3. DOMAIN global \subseteq DOMAIN global'
      BY <2>2 DEF Over
    <3>4. \A a \in 1..Len(program) : Passed(a)' => Own(program[a].name) \subseteq DOMAIN global'
      BY <1>6, <3>3 DEF Known, SoundInv, ScopesInv
    <3> QED
      BY <1>1, <1>2, <1>3, <3>1, <3>2, <3>4 DEF ScopesInv
  <2> QED
    BY <1>1, <2>1, <2>2
<1>8. QueueInv' /\ ChecksInv'
  BY <1>1 DEF Known, SoundInv, QueueInv, ChecksInv
<1> QED
  BY <1>5, <1>7, <1>8 DEF SoundInv

LEMMA EndImportsSound ==
    ASSUME Known, errors = {}, EndImports
    PROVE  SoundInv'
<1>1. /\ pc = "imports" /\ UNCHANGED Input /\ UNCHANGED <<Input, symbols>> /\ UNCHANGED <<Input, scope, global>>
      /\ symbols' = symbols /\ cache' = cache /\ clause' = 0 /\ clause > Len(program[i].imports)
      /\ IF i < Len(program) THEN i' = i + 1 /\ pc' = pc ELSE i' = 1 /\ pc' = "types"
  BY DEF EndImports, Advance
<1>2. i \in 1..Len(program) /\ Len(program) \in Nat /\ clause \in Nat
  BY Bounds
<1>3. clause > 0
  <2>1. Len(program[i].imports) \in Nat
    BY <1>2, ProgramsAssumption DEF Known
  <2> QED
    BY <1>1, <1>2, <2>1
<1>4. SymbolsInv'
  <2>1. pc' \in {"imports", "types"}
    BY <1>1
  <2> QED
    BY <1>1, <2>1, SymbolsStay DEF Known, SoundInv, Early
<1>5. ScopesInv'
  <2>1. ASSUME NEW a \in 1..Len(program), Passed(a)' PROVE Passed(a)
    <3>1. a < i \/ a = i
      BY <1>1, <1>2, <2>1 DEF Passed
    <3> QED
      BY <1>1, <1>3, <3>1 DEF Passed
  <2> QED
    BY <1>1, <2>1, LeadsStay DEF Known, SoundInv
<1>6. QueueInv' /\ ChecksInv'
  <2>1. pc' \in {"imports", "types"}
    BY <1>1
  <2> QED
    BY <1>1, <2>1 DEF Known, SoundInv, QueueInv, ChecksInv
<1> QED
  BY <1>4, <1>5, <1>6 DEF SoundInv

LEMMA ResolveTypesSound ==
    ASSUME Known, errors = {}, ResolveTypes
    PROVE  SoundInv'
<1>1. /\ pc = "types" /\ UNCHANGED <<Input, symbols>> /\ UNCHANGED <<Input, scope, global>>
      /\ symbols' = symbols /\ cache' = cache /\ clause' = clause
      /\ IF i < Len(program) THEN i' = i + 1 /\ pc' = pc ELSE i' = 1 /\ pc' = "fields"
  BY DEF ResolveTypes, Advance
<1>2. pc' \in {"types", "fields"}
  BY <1>1
<1>3. SymbolsInv'
  BY <1>1, <1>2, SymbolsStay DEF Known, SoundInv, Early
<1>4. ScopesInv'
  <2>1. \A a \in 1..Len(program) : Passed(a)' => Passed(a)
    BY <1>1 DEF Passed
  <2> QED
    BY <1>1, <1>2, <2>1, Bounds, LeadsStay DEF Known, SoundInv
<1>5. QueueInv' /\ ChecksInv'
  BY <1>1, <1>2 DEF Known, SoundInv, QueueInv, ChecksInv
<1> QED
  BY <1>3, <1>4, <1>5 DEF SoundInv

\* A module's definitions, in the order of the text, are in its table.
LEMMA QueueBegins ==
    ASSUME Known, errors = {}, pc # "collect", NEW a \in 1..Len(program)
    PROVE  [k \in 1..Len(program[a].defs) |-> program[a].defs[k].name] \in Seq(DOMAIN symbols[program[a].name])
<1> DEFINE defs == program[a].defs
           q == [k \in 1..Len(defs) |-> defs[k].name]
<1>1. Len(defs) \in Nat
  BY ProgramsAssumption DEF Known
<1>2. FileOf(program[a].name) = program[a] /\ program[a].name \in DOMAIN symbols
  BY Bounds
<1>3. Own(program[a].name) = DOMAIN Table(defs)
  BY <1>2 DEF Own
<1>4. DOMAIN Table(defs) \subseteq DOMAIN symbols[program[a].name]
  BY <1>2, <1>3 DEF Known, SoundInv, SymbolsInv
<1> HIDE DEF defs
<1>5. \A k \in 1..Len(defs) : defs[k].name \in DOMAIN Table(defs)
  <2>1. DOMAIN Table(defs) = {defs[k].name : k \in 1..Len(defs)}
    BY <1>1, TableHolds
  <2> QED
    BY <2>1
<1>6. q \in [1..Len(defs) -> DOMAIN symbols[program[a].name]]
  BY <1>4, <1>5
<1> HIDE DEF q
<1>7. q \in Seq(DOMAIN symbols[program[a].name])
  BY <1>1, <1>6, IsASeq
<1> QED
  BY <1>7 DEF q, defs

LEMMA ResolveFieldsSound ==
    ASSUME Known, errors = {}, ResolveFields
    PROVE  SoundInv'
<1> DEFINE m == program[i].name
           t == [n \in DOMAIN symbols[m] |->
                    IF symbols[m][n].is = "field" THEN FieldBody(symbols[m][n], m) ELSE symbols[m][n]]
           first == [k \in 1..Len(program[1].defs) |-> program[1].defs[k].name]
<1>1. /\ pc = "fields" /\ UNCHANGED Input /\ UNCHANGED <<Input, scope, global>>
      /\ cache' = cache /\ clause' = clause
      /\ IF i < Len(program) THEN i' = i + 1 /\ pc' = pc ELSE i' = 1 /\ pc' = "instances"
      /\ queue' = IF i = Len(program) THEN first ELSE queue
      /\ symbols' = [symbols EXCEPT ![m] = t]
  BY DEF ResolveFields, Advance
<1>2. pc' \in {"fields", "instances"} /\ (pc' = "instances" => i' = 1 /\ queue' = first)
  BY <1>1, Bounds
<1>3. i \in 1..Len(program) /\ Len(program) \in Nat /\ clause \in Nat /\ m \in DOMAIN symbols
      /\ DOMAIN symbols = Names
  BY <1>1, Bounds
<1>4. /\ program' = program /\ Names' = Names /\ \A x : Own(x)' = Own(x)
      /\ \A x, n, b : Fit(x, n, b)' <=> Fit(x, n, b)
  BY <1>1, TextIsFixed
<1>5. ASSUME NEW n \in DOMAIN t PROVE Fit(m, n, t[n])
  <2>1. Fit(m, n, symbols[m][n])
    BY <1>3, <1>5 DEF Known, SoundInv, SymbolsInv
  <2>2. CASE symbols[m][n].is = "field"
    <3>1. t[n].is \in {"ref", "any"}
      BY <1>5, <2>2 DEF FieldBody, Body
    <3> QED
      BY <2>1, <3>1 DEF Fit
  <2>3. CASE symbols[m][n].is # "field"
    BY <1>5, <2>1, <2>3
  <2> QED
    BY <2>2, <2>3
<1>6. first \in Seq(DOMAIN symbols[program[1].name])
  <2>1. 1 \in 1..Len(program) /\ pc # "collect"
    BY <1>1, <1>3
  <2> QED
    BY <2>1, QueueBegins
<1>7. DOMAIN t = DOMAIN symbols[m]
  OBVIOUS
<1> HIDE DEF m, t, first
<1>8. DOMAIN symbols' = DOMAIN symbols /\ \A x \in DOMAIN symbols : DOMAIN symbols'[x] = DOMAIN symbols[x]
  BY <1>1, <1>7
<1>9. SymbolsInv'
  <2>1. ASSUME NEW x \in DOMAIN symbols
        PROVE  DOMAIN symbols'[x] = Own(x) /\ \A n \in DOMAIN symbols'[x] : Fit(x, n, symbols'[x][n])
    <3>1. DOMAIN symbols[x] = Own(x)
      BY <1>1 DEF Known, SoundInv, SymbolsInv, Early
    <3>2. CASE x = m
      BY <1>1, <1>5, <1>7, <3>1, <3>2
    <3>3. CASE x # m
      BY <1>1, <3>1, <3>3 DEF Known, SoundInv, SymbolsInv
    <3> QED
      BY <3>2, <3>3
  <2> QED
    BY <1>2, <1>3, <1>4, <1>8, <2>1 DEF SymbolsInv, Early, Late
<1>10. ScopesInv'
  <2>1. \A a \in 1..Len(program) : Passed(a)' => Passed(a)
    BY <1>1 DEF Passed
  <2> QED
    BY <1>1, <1>2, <1>3, <1>8, <2>1, LeadsStay DEF Known, SoundInv
<1>11. QueueInv'
  <2>1. pc' = "instances" => program[1].name \in DOMAIN symbols
    BY <1>1, <1>3, Bounds
  <2> QED
    BY <1>1, <1>2, <1>4, <1>6, <1>8, <2>1 DEF Known, SoundInv, QueueInv
<1>12. ChecksInv'
  BY <1>2 DEF ChecksInv
<1> QED
  BY <1>9, <1>10, <1>11, <1>12 DEF SoundInv

\* An instance's name has more than one part.
LEMMA FreshNames ==
    ASSUME NEW c, cache = c, IsFiniteSet(DOMAIN c), NEW base \in Seq(STRING), Len(base) = 2
    PROVE  Len(FreshName(base)) \notin {0, 1} /\ FreshName(base) \notin {c[k] : k \in DOMAIN c}
<1> DEFINE used == {c[k] : k \in DOMAIN c}
           C == Cardinality(used)
           new == {k \in 0..C : Lengthened(base, k) \notin used}
<1>1. IsFiniteSet(used) /\ C \in Nat
  <2>1. IsFiniteSet(used)
    BY Image
  <2> HIDE DEF used
  <2> QED
    BY <2>1, FS_CardinalityType
<1>2. ASSUME NEW k \in Nat
      PROVE  Len(Lengthened(base, k)) = 2 + k
  <2> DEFINE tail == [j \in 1..k |-> "_"]
  <2> DEFINE Part == STRING \cup {"_"}
  <2>1. tail \in [1..k -> Part]
    OBVIOUS
  <2>2. base \in Seq(Part)
    BY SeqMonotonic
  <2> HIDE DEF Part
  <2>3. tail \in Seq(Part) /\ Len(tail) = k
    <3> HIDE DEF tail
    <3>1. tail \in Seq(Part)
      BY <2>1, IsASeq
    <3>2. DOMAIN tail = 1..Len(tail) /\ Len(tail) \in Nat /\ DOMAIN tail = 1..k
      BY <2>1, <3>1, LenProperties
    <3>3. Len(tail) = k
      <4>1. \A x, y \in Nat : 1..x = 1..y => x = y
        <5> SUFFICES ASSUME NEW x \in Nat, NEW y \in Nat, 1..x = 1..y PROVE x = y
          OBVIOUS
        <5>1. x \in 1..x \/ x = 0
          OBVIOUS
        <5>2. y \in 1..y \/ y = 0
          OBVIOUS
        <5> QED
          BY <5>1, <5>2
      <4> QED
        BY <3>2, <4>1
    <3> QED
      BY <3>1, <3>3
  <2> HIDE DEF tail
  <2>4. Len(base \o tail) = Len(base) + Len(tail)
    BY <2>2, <2>3, ConcatProperties
  <2> QED
    BY <2>3, <2>4 DEF Lengthened, tail
<1>3. new # {}
  <2> SUFFICES ASSUME new = {} PROVE FALSE
    OBVIOUS
  <2> DEFINE f == [k \in 0..C |-> Lengthened(base, k)]
  <2>1. \A k \in 0..C : f[k] \in used
    OBVIOUS
  <2>2. IsFiniteSet(0..C) /\ Cardinality(0..C) = C + 1
    BY <1>1, FS_Interval
  <2>3. \A k, l \in 0..C : f[k] = f[l] => k = l
    <3> HIDE DEF C, used
    <3> SUFFICES ASSUME NEW k \in 0..C, NEW l \in 0..C, f[k] = f[l] PROVE k = l
      OBVIOUS
    <3>1. 2 + k = 2 + l
      BY <1>1, <1>2
    <3> QED
      BY <1>1, <3>1
  <2>4. f \in [0..C -> used]
    <3> HIDE DEF C, used
    <3> QED
      BY <2>1
  <2> HIDE DEF f, used
  <2>5. f \in Injection(0..C, used)
    BY <2>3, <2>4 DEF Injection, IsInjective
  <2>6. Cardinality(0..C) <= Cardinality(used)
    BY <1>1, <2>5, FS_Injection
  <2> QED
    BY <1>1, <2>2, <2>6
<1>4. new \subseteq Nat
  <2> HIDE DEF C, used
  <2>1. 0..C \subseteq Nat
    BY <1>1
  <2> QED
    BY <2>1, Zenon
<1> DEFINE least == CHOOSE k \in new : \A j \in new : k <= j
<1>5. least \in Nat /\ least \in new
  <2> HIDE DEF new
  <2>1. \E k \in new : \A j \in new : k <= j
    BY <1>3, <1>4, LeastOf
  <2>2. least \in new
    BY <2>1
  <2> HIDE DEF least
  <2> QED
    BY <1>4, <2>2
<1>6. FreshName(base) = Lengthened(base, least)
  BY DEF FreshName
<1>7. Len(Lengthened(base, least)) = 2 + least
  <2> HIDE DEF least
  <2> QED
    BY <1>2, <1>5
<1>8. Lengthened(base, least) \notin used
  <2> HIDE DEF least
  <2> QED
    BY <1>5
<1> HIDE DEF least
<1> QED
  BY <1>5, <1>6, <1>7, <1>8

LEMMA NamesOfInstances ==
    ASSUME IsFiniteSet(DOMAIN cache), NEW a, NEW b, OnePart(a), OnePart(b)
    PROVE  Len(FreshName(a \o b)) \notin {0, 1} /\ \A k \in DOMAIN cache : cache[k] # FreshName(a \o b)
<1>1. a \o b \in Seq(STRING) /\ Len(a \o b) = 2
  BY ConcatProperties DEF OnePart
<1>2. Len(FreshName(a \o b)) \notin {0, 1} /\ FreshName(a \o b) \notin {cache[k] : k \in DOMAIN cache}
  BY <1>1, FreshNames
<1> QED
  BY <1>2

\* What is left of a queue, and a queue with one more name.
LEMMA QueueMoves ==
    ASSUME NEW S, NEW T, S \subseteq T, NEW q \in Seq(S), q # <<>>
    PROVE  /\ Head(q) \in S
           /\ Tail(q) \in Seq(T)
           /\ \A x \in T : Append(Tail(q), x) \in Seq(T)
<1>1. q \in [1..Len(q) -> S] /\ Len(q) \in Nat
  BY LenProperties
<1>2. q \in [1..Len(q) -> T]
  BY <1>1
<1>3. q \in Seq(T)
  BY <1>1, <1>2, IsASeq
<1>4. Tail(q) \in Seq(T)
  BY <1>3, HeadTailProperties
<1> QED
  BY <1>4, HeadTailProperties, AppendProperties

LEMMA InstantiateSound ==
    ASSUME Known, errors = {}, Instantiate
    PROVE  SoundInv'
<1> DEFINE m == program[i].name
           n == Head(queue)
           b == symbols[m][n]
           g == Direct(b.to, m)
           name == FreshName(b.to \o b.arg.to)
           key == <<m, b.to, b.arg>>
           new == [symbols EXCEPT ![m] =
                     Put([@ EXCEPT ![n] = Body("ref", "", name, Nothing)], name, InstanceBody(g, b))]
<1>1. /\ pc = "instances" /\ queue # <<>> /\ UNCHANGED Input
      /\ scope' = scope /\ clause' = clause /\ pc' = pc /\ i' = i
      /\ \/ queue' = Tail(queue) /\ symbols' = symbols /\ global' = global /\ cache' = cache
         \/ /\ symbols' = [symbols EXCEPT ![m][n] = Body("ref", "", cache[key], Nothing)]
            /\ queue' = Tail(queue) /\ global' = global /\ cache' = cache
         \/ /\ b.is = "inst" /\ symbols' = new
            /\ global' = Put(global, name, <<m, name>>) /\ cache' = Put(cache, key, name)
            /\ queue' = Append(Tail(queue), name)
  BY DEF Instantiate, BodyOf
<1>2. DOMAIN symbols = Names /\ m \in Names /\ clause \in Nat
  BY <1>1, Bounds
<1>3. /\ program' = program /\ Names' = Names /\ \A x : Own(x)' = Own(x)
      /\ \A x, y, z : Fit(x, y, z)' <=> Fit(x, y, z)
  BY <1>1, TextIsFixed
<1>4. queue \in Seq(DOMAIN symbols[m])
  BY <1>1 DEF Known, SoundInv, QueueInv
<1>5. n \in DOMAIN symbols[m]
  BY <1>1, <1>4, QueueMoves
<1>6. \A x \in DOMAIN symbols : Own(x) \subseteq DOMAIN symbols[x] /\ \A y \in DOMAIN symbols[x] : Fit(x, y, symbols[x][y])
  BY DEF Known, SoundInv, SymbolsInv
<1>7. IsFiniteSet(DOMAIN cache)
  BY DEF Known, SoundInv, QueueInv
<1>8. \A a \in 1..Len(program) : Passed(a)' <=> Passed(a)
  BY <1>1 DEF Passed
<1> HIDE DEF m, n
\* The tables grow, and what is new in them is a reference.
<1>9. ASSUME /\ DOMAIN symbols' = DOMAIN symbols
             /\ \A x \in DOMAIN symbols : x # m => symbols'[x] = symbols[x]
             /\ DOMAIN symbols[m] \subseteq DOMAIN symbols'[m]
             /\ \A y \in DOMAIN symbols'[m] : Fit(m, y, symbols'[m][y])
      PROVE  SymbolsInv'
  <2>1. ASSUME NEW x \in DOMAIN symbols
        PROVE  Own(x) \subseteq DOMAIN symbols'[x] /\ \A y \in DOMAIN symbols'[x] : Fit(x, y, symbols'[x][y])
    <3>1. CASE x = m
      BY <1>6, <1>9, <2>1, <3>1
    <3>2. CASE x # m
      BY <1>6, <1>9, <2>1, <3>2
    <3> QED
      BY <3>1, <3>2
  <2>2. pc' \notin Early /\ pc' \in Late
    BY <1>1 DEF Early, Late
  <2> QED
    BY <1>2, <1>3, <1>9, <2>1, <2>2 DEF SymbolsInv
<1>10. CASE queue' = Tail(queue) /\ symbols' = symbols /\ global' = global /\ cache' = cache
  <2>1. SymbolsInv'
    BY <1>2, <1>6, <1>9, <1>10
  <2>2. ScopesInv'
    BY <1>1, <1>2, <1>8, <1>10, LeadsStay DEF Known, SoundInv
  <2>3. QueueInv'
    BY <1>1, <1>3, <1>4, <1>7, <1>10, QueueMoves DEF QueueInv, m
  <2>4. ChecksInv'
    BY <1>1 DEF ChecksInv
  <2> QED
    BY <2>1, <2>2, <2>3, <2>4 DEF SoundInv
<1>11. CASE /\ symbols' = [symbols EXCEPT ![m][n] = Body("ref", "", cache[key], Nothing)]
            /\ queue' = Tail(queue) /\ global' = global /\ cache' = cache
  <2>1. /\ DOMAIN symbols' = DOMAIN symbols
        /\ \A x \in DOMAIN symbols : x # m => symbols'[x] = symbols[x]
        /\ DOMAIN symbols[m] = DOMAIN symbols'[m]
        /\ \A y \in DOMAIN symbols[m] : y # n => symbols'[m][y] = symbols[m][y]
        /\ symbols'[m][n].is = "ref"
    BY <1>2, <1>5, <1>11 DEF Body
  <2>2. ASSUME NEW y \in DOMAIN symbols'[m] PROVE Fit(m, y, symbols'[m][y])
    <3>1. CASE y = n
      <4>1. Fit(m, n, symbols[m][n])
        BY <1>2, <1>5, <1>6
      <4> QED
        BY <2>1, <3>1, <4>1 DEF Fit
    <3>2. CASE y # n
      BY <1>2, <1>6, <2>1, <2>2, <3>2
    <3> QED
      BY <3>1, <3>2
  <2>3. SymbolsInv'
    BY <1>9, <2>1, <2>2
  <2>4. ScopesInv'
    <3>1. \A x \in DOMAIN symbols : DOMAIN symbols[x] \subseteq DOMAIN symbols'[x]
      BY <2>1
    <3> QED
      BY <1>1, <1>2, <1>8, <1>11, <2>1, <3>1, LeadsStay DEF Known, SoundInv
  <2>5. QueueInv'
    BY <1>1, <1>3, <1>4, <1>7, <1>11, <2>1, QueueMoves DEF QueueInv, m
  <2>6. ChecksInv'
    BY <1>1 DEF ChecksInv
  <2> QED
    BY <2>3, <2>4, <2>5, <2>6 DEF SoundInv
<1>12. CASE /\ b.is = "inst" /\ symbols' = new
            /\ global' = Put(global, name, <<m, name>>) /\ cache' = Put(cache, key, name)
            /\ queue' = Append(Tail(queue), name)
  <2>1. Len(name) # 1
    <3>1. Fit(m, n, b)
      BY <1>2, <1>5, <1>6
    <3>2. OnePart(b.to) /\ OnePart(b.arg.to)
      BY <1>12, <3>1 DEF Fit
    <3> QED
      BY <1>7, <3>2, NamesOfInstances
  <2>2. InstanceBody(g, b).is = "ref"
    BY DEF InstanceBody, Body
  <2> DEFINE t == [symbols[m] EXCEPT ![n] = Body("ref", "", name, Nothing)]
  <2>3. symbols' = [symbols EXCEPT ![m] = Put(t, name, InstanceBody(g, b))]
    BY <1>12
  <2>4. /\ DOMAIN t = DOMAIN symbols[m] /\ t[n].is = "ref"
        /\ \A y \in DOMAIN symbols[m] : y # n => t[y] = symbols[m][y]
    BY <1>5 DEF Body
  <2> HIDE DEF t, name, g, b, key
  <2>5. /\ DOMAIN symbols' = DOMAIN symbols
        /\ \A x \in DOMAIN symbols : x # m => symbols'[x] = symbols[x]
        /\ symbols'[m] = Put(t, name, InstanceBody(g, b))
    BY <1>2, <2>3
  <2>6. /\ DOMAIN symbols'[m] = DOMAIN symbols[m] \cup {name}
        /\ symbols'[m][name].is = "ref"
        /\ \A y \in DOMAIN symbols[m] : y # name => symbols'[m][y] = t[y]
    BY <2>2, <2>4, <2>5 DEF Put
  <2>7. ASSUME NEW y \in DOMAIN symbols'[m] PROVE Fit(m, y, symbols'[m][y])
    <3>1. CASE y = name
      BY <2>1, <2>6, <3>1 DEF Fit
    <3>2. CASE y # name /\ y = n
      <4>1. Fit(m, n, symbols[m][n])
        BY <1>2, <1>5, <1>6
      <4> QED
        BY <1>5, <2>4, <2>6, <3>2, <4>1 DEF Fit
    <3>3. CASE y # name /\ y # n
      BY <1>2, <1>6, <2>4, <2>6, <2>7, <3>3
    <3> QED
      BY <3>1, <3>2, <3>3
  <2>8. SymbolsInv'
    BY <1>9, <2>5, <2>6, <2>7
  <2>9. DOMAIN global' = DOMAIN global \cup {name}
    BY <1>12 DEF Put
  <2>10. LeadsToText'
    <3>1. LeadsToText
      BY DEF Known, SoundInv, ScopesInv
    <3>2. scope' = scope
      BY <1>1
    <3> QED
      BY <1>3, <3>1, <3>2 DEF LeadsToText
  <2>11. LeadsToDefinitions'
    <3> SUFFICES ASSUME NEW y \in DOMAIN global'
                 PROVE  \E from \in DOMAIN symbols' : y \in DOMAIN symbols'[from] /\ global'[y] = <<from, y>>
      BY DEF LeadsToDefinitions
    <3>1. CASE y = name
      BY <1>2, <1>12, <2>5, <2>6, <3>1 DEF Put
    <3>2. CASE y # name
      <4>1. y \in DOMAIN global /\ global'[y] = global[y]
        BY <1>12, <2>9, <3>2 DEF Put
      <4>2. PICK from \in DOMAIN symbols : y \in DOMAIN symbols[from] /\ global[y] = <<from, y>>
        BY <4>1 DEF Known, SoundInv, ScopesInv, LeadsToDefinitions
      <4>3. y \in DOMAIN symbols'[from]
        BY <2>5, <2>6, <4>2
      <4> QED
        BY <2>5, <4>1, <4>2, <4>3
    <3> QED
      BY <3>1, <3>2
  <2>12. ScopesInv'
    <3>1. clause' \in Nat /\ pc' # "collect"
      BY <1>1, <1>2
    <3>2. \A a \in 1..Len(program) : Passed(a)' => Own(program[a].name) \subseteq DOMAIN global'
      BY <1>8, <2>9 DEF Known, SoundInv, ScopesInv
    <3> QED
      BY <1>3, <2>10, <2>11, <3>1, <3>2 DEF ScopesInv
  <2>13. QueueInv'
    <3>1. queue' \in Seq(DOMAIN symbols'[m])
      <4>1. DOMAIN symbols[m] \subseteq DOMAIN symbols'[m] /\ name \in DOMAIN symbols'[m]
        BY <2>6
      <4> QED
        BY <1>1, <1>4, <1>12, <4>1, QueueMoves
    <3>2. IsFiniteSet(DOMAIN cache')
      <4>1. DOMAIN cache' = DOMAIN cache \cup {key}
        BY <1>12 DEF Put
      <4> QED
        BY <1>7, <4>1, FS_AddElement
    <3> QED
      BY <1>1, <1>3, <3>1, <3>2 DEF QueueInv, m
  <2>14. ChecksInv'
    BY <1>1 DEF ChecksInv
  <2> QED
    BY <2>8, <2>12, <2>13, <2>14 DEF SoundInv
<1> QED
  BY <1>1, <1>10, <1>11, <1>12

LEMMA NextModuleSound ==
    ASSUME Known, errors = {}, NextModule
    PROVE  SoundInv'
<1>1. /\ pc = "instances" /\ UNCHANGED Input /\ UNCHANGED <<Input, symbols>> /\ UNCHANGED <<Input, scope, global>>
      /\ symbols' = symbols /\ cache' = cache /\ clause' = clause
      /\ IF i < Len(program) THEN i' = i + 1 /\ pc' = pc ELSE i' = 1 /\ pc' = "values"
      /\ queue' = IF i = Len(program) THEN queue
                  ELSE [k \in 1..Len(program[i + 1].defs) |-> program[i + 1].defs[k].name]
  BY DEF NextModule, Advance
<1>2. i \in 1..Len(program) /\ Len(program) \in Nat /\ clause \in Nat
  BY Bounds
<1>3. program' = program
  BY <1>1, TextIsFixed
<1>4. pc' \in {"instances", "values"}
  BY <1>1
<1>5. SymbolsInv'
  BY <1>1, <1>4, SymbolsStay DEF Known, SoundInv, Early, Late
<1>6. ScopesInv'
  <2>1. \A a \in 1..Len(program) : Passed(a)' => Passed(a)
    BY <1>1 DEF Passed
  <2> QED
    BY <1>1, <1>2, <1>4, <2>1, LeadsStay DEF Known, SoundInv
<1>7. QueueInv'
  <2>1. CASE i < Len(program)
    <3>1. i + 1 \in 1..Len(program) /\ i # Len(program) /\ pc # "collect"
      BY <1>1, <1>2, <2>1
    <3>2. [k \in 1..Len(program[i + 1].defs) |-> program[i + 1].defs[k].name] \in Seq(DOMAIN symbols[program[i + 1].name])
      BY <3>1, QueueBegins
    <3> QED
      BY <1>1, <1>3, <2>1, <3>1, <3>2 DEF Known, SoundInv, QueueInv
  <2>2. CASE ~(i < Len(program))
    BY <1>1, <2>2 DEF Known, SoundInv, QueueInv
  <2> QED
    BY <2>1, <2>2
<1>8. ChecksInv'
  BY <1>1, <1>2 DEF ChecksInv
<1> QED
  BY <1>5, <1>6, <1>7, <1>8 DEF SoundInv

\* The turns that Repeat takes, for a walk along values; further on the same for
\* other walks, as no fact can have the operator that is repeated as parameter.
Turns(start, n, f) == f = [k \in 0..n |-> IF k = 0 THEN start ELSE ValueHop(f[k - 1])]

LEMMA TurnsExist ==
    ASSUME NEW start, NEW N \in Nat
    PROVE  \E f : Turns(start, N, f)
<1> DEFINE S == {n \in Nat : \E f : Turns(start, n, f)}
<1>1. 0 \in S
  <2>1. Turns(start, 0, [k \in 0..0 |-> start])
    BY DEF Turns
  <2> QED
    BY <2>1
<1>2. ASSUME NEW n \in Nat, n \in S PROVE n + 1 \in S
  <2>1. PICK f : Turns(start, n, f)
    BY <1>2
  <2> DEFINE g == [k \in 0..(n + 1) |-> IF k <= n THEN f[k] ELSE ValueHop(f[n])]
             h == [k \in 0..(n + 1) |-> IF k = 0 THEN start ELSE ValueHop(g[k - 1])]
  <2>2. \A k \in 0..n : f[k] = IF k = 0 THEN start ELSE ValueHop(f[k - 1])
    BY <2>1 DEF Turns
  <2>3. ASSUME NEW k \in 0..(n + 1) PROVE g[k] = h[k]
    <3>1. CASE k <= n
      BY <2>2, <3>1
    <3>2. CASE k = n + 1
      BY <3>2
    <3> QED
      BY <3>1, <3>2
  <2>4. g = h
    BY <2>3
  <2>5. Turns(start, n + 1, g)
    <3> HIDE DEF g
    <3> QED
      BY <2>4 DEF Turns
  <2> QED
    BY <2>5
<1>3. Nat \subseteq S
  <2> HIDE DEF S
  <2> QED
    BY <1>1, <1>2, Inductive
<1> QED
  BY <1>3

LEMMA TrailOfValue ==
    ASSUME Links \in Nat, NEW m, NEW n
    PROVE  \E t : Trail(m, n, t) /\ t[Links].why = ValueError(m, n)
<1> DEFINE start == [at |-> <<m, n>>, mod |-> m, path |-> {<<m, n>>}, why |-> ""]
           t == CHOOSE f : Turns(start, Links, f)
<1>1. Turns(start, Links, t)
  <2> HIDE DEF start
  <2>1. \E f : Turns(start, Links, f)
    BY TurnsExist
  <2> QED
    BY <2>1
<1>2. Repeat(ValueHop, Links, start) = t[Links]
  BY DEF Repeat, Turns
<1>3. t[Links].why = ValueError(m, n)
  BY <1>2 DEF ValueError
<1> HIDE DEF t
<1>4. \A k \in 0..Links : t[k] = IF k = 0 THEN start ELSE ValueHop(t[k - 1])
  BY <1>1 DEF Turns
<1>5. Trail(m, n, t)
  <2>1. t[0] = start
    <3>1. 0 \in 0..Links
      OBVIOUS
    <3> HIDE DEF start
    <3> QED
      BY <1>4, <3>1
  <2>2. ASSUME NEW k \in 0..(Links - 1) PROVE t[k + 1] = ValueHop(t[k])
    <3>1. k + 1 \in 0..Links /\ k + 1 # 0 /\ (k + 1) - 1 = k
      OBVIOUS
    <3> QED
      BY <1>4, <3>1
  <2> QED
    BY <2>1, <2>2 DEF Trail, Chain
<1> QED
  BY <1>3, <1>5

LEMMA ResolveValuesSound ==
    ASSUME Known, errors = {}, ResolveValues, errors' = {}
    PROVE  SoundInv'
<1> DEFINE m == program[i].name
<1>1. /\ pc = "values" /\ UNCHANGED Input /\ UNCHANGED <<Input, symbols>> /\ UNCHANGED <<Input, scope, global>>
      /\ UNCHANGED <<Input, symbols, scope, global>>
      /\ symbols' = symbols /\ cache' = cache /\ clause' = clause
      /\ \/ i < Len(program) /\ i' = i + 1 /\ pc' = "values"
         \/ ~(i < Len(program)) /\ i' = 1 /\ pc' = "codegen"
      /\ {ValueError(m, n) : n \in DOMAIN symbols[m]} \ {""} = {}
  BY DEF ResolveValues
<1>2. i \in 1..Len(program) /\ Len(program) \in Nat /\ clause \in Nat
  BY Bounds
<1>3. program' = program /\ Names' = Names
  BY <1>1, TextIsFixed
<1>4. pc' \in {"values", "codegen"}
  BY <1>1
<1>5. SymbolsInv'
  BY <1>1, <1>4, SymbolsStay DEF Known, SoundInv, Early, Late
<1>6. ScopesInv'
  <2>1. \A a \in 1..Len(program) : Passed(a)' => Passed(a)
    BY <1>1 DEF Passed
  <2> QED
    BY <1>1, <1>2, <1>4, <2>1, LeadsStay DEF Known, SoundInv
<1>7. QueueInv'
  BY <1>1, <1>4 DEF Known, SoundInv, QueueInv
<1>8. Checked(m)
  <2> SUFFICES ASSUME NEW n \in DOMAIN symbols[m] PROVE \E t : Trail(m, n, t) /\ Fine(t[Links])
    BY DEF Checked
  <2>1. ValueError(m, n) = ""
    BY <1>1
  <2>2. Links \in Nat
    BY TextIsFinite DEF Known
  <2> HIDE DEF m
  <2> QED
    BY <2>1, <2>2, TrailOfValue DEF Fine
<1>9. ASSUME NEW a \in 1..Len(program), a <= i PROVE Checked(program[a].name)'
  <2>1. Checked(program[a].name)
    <3>1. CASE a = i
      BY <1>8, <3>1
    <3>2. CASE a # i
      <4>1. a \in 1..(i - 1)
        BY <1>2, <1>9, <3>2
      <4> QED
        BY <1>1, <4>1 DEF Known, SoundInv, ChecksInv
    <3> QED
      BY <3>1, <3>2
  <2> DEFINE x == program[a].name
  <2>2. Checked(x) /\ x = program'[a].name
    BY <1>3, <2>1
  <2> HIDE DEF x
  <2>3. ASSUME NEW y, Checked(y) PROVE Checked(y)'
    BY <1>1, <2>3, ChainsStay
  <2> QED
    BY <1>3, <2>2, <2>3
<1>10. ChecksInv'
  <2>1. CASE i < Len(program)
    <3>1. \A a \in 1..(i' - 1) : a \in 1..Len(program) /\ a <= i
      <4>1. i' - 1 = i /\ i < Len(program) /\ i \in Nat
        <5>1. i' = i + 1
          BY <1>1, <2>1, Zenon
        <5>2. i \in Nat
          BY <1>2
        <5> QED
          BY <2>1, <5>1, <5>2
      <4> QED
        BY <1>2, <4>1
    <3> QED
      BY <1>1, <1>3, <1>9, <2>1, <3>1 DEF ChecksInv
  <2>2. CASE ~(i < Len(program))
    <3>1. ASSUME NEW y \in Names PROVE Checked(y)'
      <4>1. PICK a \in 1..Len(program) : y = program[a].name
        BY DEF Names
      <4> QED
        BY <1>2, <1>3, <1>9, <2>2, <4>1
    <3> QED
      BY <1>1, <1>3, <2>2, <3>1 DEF ChecksInv
  <2> QED
    BY <2>1, <2>2
<1> QED
  BY <1>5, <1>6, <1>7, <1>10 DEF SoundInv

LEMMA TablesInit == Init => TablesInv
<1> SUFFICES ASSUME Init PROVE TablesInv
  OBVIOUS
<1>1. /\ pc = "collect" /\ program \in Programs /\ clause = 0
      /\ DOMAIN symbols = {} /\ DOMAIN scope = {} /\ DOMAIN global = {} /\ DOMAIN cache = {}
  BY EmptyDomain DEF Init
<1>2. SymbolsInv
  BY <1>1 DEF SymbolsInv, Early
<1>3. ScopesInv
  BY <1>1 DEF ScopesInv, LeadsToText, LeadsToDefinitions, Passed
<1>4. QueueInv
  BY <1>1, FS_EmptySet DEF QueueInv
<1>5. ChecksInv
  BY <1>1 DEF ChecksInv
<1> QED
  BY <1>1, <1>2, <1>3, <1>4, <1>5 DEF TablesInv, SoundInv

\* An error once reported stays, and only ResolveValues lets code be generated.
LEMMA ErrorsGrow ==
    ASSUME Next
    PROVE  /\ errors \subseteq errors' /\ program' = program
           /\ pc' = "codegen" => errors' = {}
<1>1. CASE Collect
  BY <1>1 DEF Collect, Advance, Input
<1>2. CASE OwnNames
  BY <1>2 DEF OwnNames, Input
<1>3. CASE ResolveImport
  BY <1>3 DEF ResolveImport, Input
<1>4. CASE EndImports
  BY <1>4 DEF EndImports, Advance, Input
<1>5. CASE ResolveTypes
  BY <1>5 DEF ResolveTypes, Advance, Input
<1>6. CASE ResolveFields
  BY <1>6 DEF ResolveFields, Advance, Input
<1>7. CASE Instantiate
  BY <1>7 DEF Instantiate, Input
<1>8. CASE NextModule
  BY <1>8 DEF NextModule, Advance, Input
<1>9. CASE ResolveValues
  <2>1. PICK found : errors' = errors \cup found
    BY <1>9, Zenon DEF ResolveValues
  <2> QED
    BY <1>9, <2>1 DEF ResolveValues, Input
<1> QED
  BY <1>1, <1>2, <1>3, <1>4, <1>5, <1>6, <1>7, <1>8, <1>9 DEF Next

LEMMA TablesNext ==
    ASSUME NamesInv, TablesInv, [Next]_vars
    PROVE  TablesInv'
<1>1. CASE Next
  <2>1. /\ errors \subseteq errors' /\ program' = program
        /\ pc' = "codegen" => errors' = {}
    BY <1>1, ErrorsGrow
  <2>2. ASSUME errors' = {} PROVE SoundInv'
    <3>1. errors = {}
      BY <2>1, <2>2
    <3>2. Known
      BY <3>1 DEF TablesInv, Known
    <3> QED
      BY <1>1, <2>2, <3>1, <3>2, CollectSound, OwnNamesSound, ResolveImportSound, EndImportsSound,
         ResolveTypesSound, ResolveFieldsSound, InstantiateSound, NextModuleSound, ResolveValuesSound
         DEF Next
  <2> QED
    BY <2>1, <2>2 DEF TablesInv
<1>2. CASE UNCHANGED vars
  <2>1. /\ UNCHANGED Input /\ UNCHANGED <<Input, symbols, scope, global>>
        /\ pc' = pc /\ i' = i /\ clause' = clause /\ symbols' = symbols /\ scope' = scope
        /\ global' = global /\ queue' = queue /\ cache' = cache /\ errors' = errors
    BY <1>2 DEF vars
  <2>2. /\ program' = program /\ Names' = Names /\ \A x : Own(x)' = Own(x)
        /\ \A x, n, b : Fit(x, n, b)' <=> Fit(x, n, b)
    BY <2>1, TextIsFixed
  <2>3. SymbolsInv => SymbolsInv'
    BY <2>1, <2>2 DEF SymbolsInv
  <2>4. ScopesInv => ScopesInv'
    BY <2>1, <2>2 DEF ScopesInv, LeadsToText, LeadsToDefinitions, Passed
  <2>5. QueueInv => QueueInv'
    BY <2>1, <2>2 DEF QueueInv
  <2>6. ChecksInv => ChecksInv'
    <3>1. ASSUME NEW m, Checked(m) PROVE Checked(m)'
      BY <2>1, <3>1, ChainsStay
    <3> QED
      BY <2>1, <2>2, <3>1 DEF ChecksInv
  <2> QED
    BY <2>1, <2>2, <2>3, <2>4, <2>5, <2>6 DEF TablesInv, SoundInv
<1> QED
  BY <1>1, <1>2

-----------------------------------------------------------------------------
(* Names that only one module has.                                         *)

\* The imports are done, and no two modules use one name for two things.
Settled == Known /\ pc \notin {"collect", "imports"} /\ errors = {} /\ ~Collisions

LEMMA OneMeaning ==
    ASSUME Settled, NEW m, NEW n, Len(n) = 1
    PROVE  /\ \A a \in Names : n \in Own(a) => Direct(n, m) = <<a, n>>
           /\ Direct(n, m) # None => \E a \in Names : n \in Own(a)
<1>1. DOMAIN symbols = Names
  BY DEF Settled, Known, SoundInv, SymbolsInv
<1>2. ASSUME NEW a \in Names, NEW b \in Names, n \in Own(a), n \in Own(b)
      PROVE  a = b
  <2>1. <<a, n>> \in AllDefs /\ <<b, n>> \in AllDefs
    BY <1>2 DEF AllDefs
  <2> QED
    BY <2>1 DEF Settled, Collisions
<1>3. ASSUME m \in DOMAIN scope, n \in DOMAIN scope[m]
      PROVE  \E a \in Names : n \in Own(a) /\ Direct(n, m) = <<a, n>>
  BY <1>3 DEF Direct, Settled, Known, SoundInv, ScopesInv, LeadsToText
<1>4. ASSUME ~(m \in DOMAIN scope /\ n \in DOMAIN scope[m]), n \in DOMAIN global
      PROVE  \E a \in Names : n \in Own(a) /\ Direct(n, m) = <<a, n>>
  <2>1. PICK a \in DOMAIN symbols : n \in DOMAIN symbols[a] /\ global[n] = <<a, n>>
    BY <1>4 DEF Settled, Known, SoundInv, ScopesInv, LeadsToDefinitions
  <2>2. n \in Own(a)
    BY <2>1 DEF Settled, Known, SoundInv, SymbolsInv, Fit
  <2> QED
    BY <1>1, <1>4, <2>1, <2>2 DEF Direct
<1>5. \A a \in Names : n \in Own(a) => n \in DOMAIN global
  <2> SUFFICES ASSUME NEW a \in Names, n \in Own(a) PROVE n \in DOMAIN global
    OBVIOUS
  <2>1. PICK k \in 1..Len(program) : program[k].name = a
    BY DEF Names
  <2>2. Passed(k)
    BY DEF Passed, Settled
  <2> QED
    BY <2>1, <2>2 DEF Settled, Known, SoundInv, ScopesInv
<1>6. Direct(n, m) # None => \/ m \in DOMAIN scope /\ n \in DOMAIN scope[m]
                             \/ n \in DOMAIN global
  BY DEF Direct
<1> QED
  BY <1>2, <1>3, <1>4, <1>5, <1>6

-----------------
(* What a trail without an error shows.                                    *)

\* Code is about to be generated.
Final == Settled /\ pc = "codegen"

\* The names a walk may leave behind.
Visits == {<<d[1], BodyOf(d[2]).to>> : d \in Names \X AllDefs}

\* A walk from start that came to at after k links.
OnTrail(start, k, at, mod, path) ==
    /\ \E a \in Names : \E x \in DOMAIN symbols[a] : at = <<a, x>>
    /\ mod \in Names
    /\ path \subseteq {start} \cup Visits /\ IsFiniteSet(path)
    /\ BodyOf(at).is = "link" => Cardinality(path) = k + 1

LEMMA HopKeeps ==
    ASSUME Final, NEW start, NEW k \in Nat, NEW at, NEW mod, NEW path, OnTrail(start, k, at, mod, path),
           NEW s, s = Chain(at, mod, path), Fine(ValueHop(s))
    PROVE  \E mod1, path1 :
             /\ ValueHop(s) = Chain(Along(at), mod1, path1)
             /\ OnTrail(start, k + 1, Along(at), mod1, path1)
<1>1. PICK a \in Names : \E x \in DOMAIN symbols[a] : at = <<a, x>>
  BY DEF OnTrail
<1>2. PICK x \in DOMAIN symbols[a] : at = <<a, x>>
  BY <1>1
<1> DEFINE b == BodyOf(at)
           m == IF b.mod = "" THEN mod ELSE b.mod
           next == IF b.mod = "" THEN Direct(b.to, mod)
                   ELSE IF Defined(m, b.to) THEN <<m, b.to>> ELSE None
<1>3. Fit(a, x, b) /\ DOMAIN symbols = Names
  BY <1>2 DEF Final, Settled, Known, SoundInv, SymbolsInv, BodyOf
<1>4. CASE b.is # "link"
  <2>1. ValueHop(s) = s /\ Along(at) = at
    BY <1>4 DEF ValueHop, Along, Chain
  <2> QED
    BY <1>4, <2>1 DEF OnTrail
<1>5. CASE b.is = "link"
  <2>1. x \in Own(a) /\ Len(b.to) = 1 /\ at \in AllDefs
    <3>1. x \in Own(a) /\ Len(b.to) = 1
      BY <1>3, <1>5 DEF Fit
    <3>2. <<a, x>> \in {<<a, y>> : y \in Own(a)}
      BY <3>1
    <3>3. <<a, x>> \in AllDefs
      BY <3>2 DEF AllDefs
    <3> QED
      BY <1>2, <3>1, <3>3
  <2>2. s.why = "" /\ s.at = at /\ s.mod = mod /\ s.path = path
    BY DEF Chain
  <2>3. ValueHop(s) = IF <<m, b.to>> \in path THEN [s EXCEPT !.why = "circular value"]
                      ELSE IF next = None THEN [s EXCEPT !.why = "undefined value"]
                      ELSE Chain(next, m, path \cup {<<m, b.to>>})
    BY <1>5, <2>2 DEF ValueHop, Chain
  <2>4. [s EXCEPT !.why = "circular value"].why # "" /\ [s EXCEPT !.why = "undefined value"].why # ""
    BY DEF Chain
  <2>5. /\ <<m, b.to>> \notin path /\ next # None
        /\ ValueHop(s) = Chain(next, m, path \cup {<<m, b.to>>})
    <3> HIDE DEF b, m, next
    <3> QED
      BY <2>3, <2>4 DEF Fine
  <2>6. m \in Names /\ Along(at) = next /\ \E c \in Names : \E y \in DOMAIN symbols[c] : next = <<c, y>>
    <3>1. CASE b.mod = ""
      <4>1. m = mod /\ next = Direct(b.to, mod) /\ Along(at) = Direct(b.to, a)
        BY <1>2, <1>5, <3>1 DEF Along
      <4>2. PICK c \in Names : b.to \in Own(c)
        <5> HIDE DEF b
        <5> QED
          BY <2>1, <2>5, <4>1, OneMeaning DEF Final
      <4>3. Direct(b.to, mod) = <<c, b.to>> /\ Direct(b.to, a) = <<c, b.to>>
        <5> HIDE DEF b
        <5> QED
          BY <2>1, <4>2, OneMeaning DEF Final
      <4>4. b.to \in DOMAIN symbols[c]
        BY <1>3, <4>2 DEF Final, Settled, Known, SoundInv, SymbolsInv
      <4> HIDE DEF b, m, next
      <4> QED
        BY <4>1, <4>2, <4>3, <4>4 DEF OnTrail
    <3>2. CASE b.mod # ""
      <4>1. /\ m = b.mod /\ Defined(m, b.to) /\ next = <<m, b.to>>
            /\ Along(at) = Direct(b.to, b.mod)
        BY <1>5, <2>5, <3>2 DEF Along
      <4>2. m \in Names /\ b.to \in DOMAIN symbols[m]
        BY <1>3, <4>1 DEF Defined
      <4>3. Fit(m, b.to, symbols[m][b.to])
        BY <1>3, <4>2 DEF Final, Settled, Known, SoundInv, SymbolsInv
      <4>4. b.to \in Own(m)
        BY <2>1, <4>3 DEF Fit
      <4>5. Direct(b.to, m) = <<m, b.to>>
        <5> HIDE DEF b, m
        <5> QED
          BY <2>1, <4>2, <4>4, OneMeaning DEF Final
      <4> HIDE DEF b, m, next
      <4> QED
        BY <4>1, <4>2, <4>5
    <3> QED
      BY <3>1, <3>2
  <2>7. <<m, b.to>> \in Visits
    <3>1. <<m, at>> \in Names \X AllDefs /\ <<m, b.to>> = <<<<m, at>>[1], BodyOf(<<m, at>>[2]).to>>
      BY <2>1, <2>6
    <3> HIDE DEF m, b
    <3> QED
      BY <3>1 DEF Visits
  <2>8. Cardinality(path) = k + 1 /\ IsFiniteSet(path) /\ path \subseteq {start} \cup Visits
    BY <1>5 DEF OnTrail
  <2> HIDE DEF b, m, next
  <2>9. IsFiniteSet(path \cup {<<m, b.to>>}) /\ Cardinality(path \cup {<<m, b.to>>}) = (k + 1) + 1
    BY <2>5, <2>8, FS_AddElement
  <2>10. OnTrail(start, k + 1, Along(at), m, path \cup {<<m, b.to>>})
    BY <2>6, <2>7, <2>8, <2>9 DEF OnTrail
  <2> QED
    BY <2>5, <2>6, <2>10
<1> QED
  BY <1>4, <1>5

\* A walk that does not leave a place is there at its end.
LEMMA Still ==
    ASSUME NEW N \in Nat, NEW f, NEW k \in 0..N,
           \A j \in 0..(N - 1) : f[j] = f[k] => f[j + 1] = f[k]
    PROVE  f[N] = f[k]
<1> DEFINE S == {j \in Nat : k + j <= N => f[k + j] = f[k]}
<1>1. 0 \in S
  OBVIOUS
<1>2. ASSUME NEW j \in Nat, j \in S PROVE j + 1 \in S
  <2> SUFFICES ASSUME k + (j + 1) <= N PROVE f[k + (j + 1)] = f[k]
    OBVIOUS
  <2>1. k + j \in 0..(N - 1) /\ k + (j + 1) = (k + j) + 1
    OBVIOUS
  <2>2. f[k + j] = f[k]
    BY <1>2, <2>1
  <2>3. f[(k + j) + 1] = f[k]
    BY <2>1, <2>2
  <2> QED
    BY <2>1, <2>3
<1>3. Nat \subseteq S
  <2> HIDE DEF S
  <2> QED
    BY <1>1, <1>2, Inductive
<1>4. N - k \in Nat /\ k + (N - k) = N
  OBVIOUS
<1> QED
  BY <1>3, <1>4

\* What is wrong with a walk stays wrong with it.
LEMMA TrailIsClean ==
    ASSUME NEW L \in Nat, NEW t, \A j \in 0..(L - 1) : t[j + 1] = ValueHop(t[j]),
           Fine(t[L]), NEW k \in 0..L
    PROVE  Fine(t[k])
<1> SUFFICES ASSUME ~Fine(t[k]) PROVE FALSE
  OBVIOUS
<1>1. ValueHop(t[k]) = t[k]
  BY DEF ValueHop, Fine
<1>2. t[L] = t[k]
  BY <1>1, Still
<1> QED
  BY <1>2

\* After k turns the walk is where k steps along the definitions lead.
LEMMA TrailFollows ==
    ASSUME Final, NEW L \in Nat, NEW m \in Names, NEW n \in DOMAIN symbols[m],
           NEW t, t[0] = Chain(<<m, n>>, m, {<<m, n>>}),
           \A k \in 0..(L - 1) : t[k + 1] = ValueHop(t[k]), Fine(t[L]),
           NEW g, \A k \in 0..L : g[k] = IF k = 0 THEN <<m, n>> ELSE Along(g[k - 1])
    PROVE  \E mod, path : OnTrail(<<m, n>>, L, g[L], mod, path)
<1> DEFINE At(k, mod, path) == /\ OnTrail(<<m, n>>, k, g[k], mod, path)
                               /\ t[k] = Chain(g[k], mod, path)
           Come(k) == \E mod, path : At(k, mod, path)
           S == {k \in Nat : k <= L => Come(k)}
<1>1. 0 \in S
  <2>1. g[0] = <<m, n>> /\ t[0] = Chain(<<m, n>>, m, {<<m, n>>})
    OBVIOUS
  <2>2. OnTrail(<<m, n>>, 0, <<m, n>>, m, {<<m, n>>})
    <3>1. IsFiniteSet({<<m, n>>}) /\ Cardinality({<<m, n>>}) = 0 + 1
      <4>1. \A x : IsFiniteSet({x}) /\ Cardinality({x}) = 1
        BY FS_Singleton
      <4>2. 0 + 1 = 1
        OBVIOUS
      <4> QED
        BY <4>1, <4>2
    <3> QED
      BY <3>1 DEF OnTrail
  <2>3. At(0, m, {<<m, n>>})
    BY <2>1, <2>2
  <2>4. Come(0)
    <3> HIDE DEF At
    <3> QED
      BY <2>3
  <2> HIDE DEF Come
  <2> QED
    BY <2>4
<1>2. ASSUME NEW k \in Nat, k \in S PROVE k + 1 \in S
  <2> SUFFICES ASSUME k + 1 <= L PROVE Come(k + 1)
    <3> HIDE DEF Come
    <3> QED
      OBVIOUS
  <2>1. k \in 0..(L - 1) /\ k <= L /\ k + 1 \in 0..L /\ (k + 1) - 1 = k /\ k + 1 # 0
    OBVIOUS
  <2>2. PICK mod, path : At(k, mod, path)
    BY <1>2, <2>1
  <2>3. t[k + 1] = ValueHop(t[k]) /\ Fine(t[k + 1]) /\ g[k + 1] = Along(g[k])
    BY <2>1, TrailIsClean
  <2>4. \E mod1, path1 :
             /\ ValueHop(t[k]) = Chain(Along(g[k]), mod1, path1)
             /\ OnTrail(<<m, n>>, k + 1, Along(g[k]), mod1, path1)
    BY <2>2, <2>3, HopKeeps
  <2> QED
    BY <2>3, <2>4
<1>3. Nat \subseteq S
  <2> HIDE DEF S
  <2> QED
    BY <1>1, <1>2, Inductive
<1>4. Come(L)
  <2> HIDE DEF Come
  <2> QED
    BY <1>3
<1> QED
  BY <1>4

\* The turns that Repeat takes, along a value.
Steps(start, n, f) == f = [k \in 0..n |-> IF k = 0 THEN start ELSE Along(f[k - 1])]

LEMMA StepsExist ==
    ASSUME NEW start, NEW N \in Nat
    PROVE  \E f : Steps(start, N, f)
<1> DEFINE S == {n \in Nat : \E f : Steps(start, n, f)}
<1>1. 0 \in S
  <2>1. Steps(start, 0, [k \in 0..0 |-> start])
    BY DEF Steps
  <2> QED
    BY <2>1
<1>2. ASSUME NEW n \in Nat, n \in S PROVE n + 1 \in S
  <2>1. PICK f : Steps(start, n, f)
    BY <1>2
  <2> DEFINE g == [k \in 0..(n + 1) |-> IF k <= n THEN f[k] ELSE Along(f[n])]
             h == [k \in 0..(n + 1) |-> IF k = 0 THEN start ELSE Along(g[k - 1])]
  <2>2. \A k \in 0..n : f[k] = IF k = 0 THEN start ELSE Along(f[k - 1])
    BY <2>1 DEF Steps
  <2>3. ASSUME NEW k \in 0..(n + 1) PROVE g[k] = h[k]
    <3>1. CASE k <= n
      BY <2>2, <3>1
    <3>2. CASE k = n + 1
      BY <3>2
    <3> QED
      BY <3>1, <3>2
  <2>4. g = h
    BY <2>3
  <2>5. Steps(start, n + 1, g)
    <3> HIDE DEF g
    <3> QED
      BY <2>4 DEF Steps
  <2> QED
    BY <2>5
<1>3. Nat \subseteq S
  <2> HIDE DEF S
  <2> QED
    BY <1>1, <1>2, Inductive
<1> QED
  BY <1>3

\* A walk of as many links as there are names to look for, and modules to
\* look for them in, has come to a literal.
LEMMA TrailsEnd ==
    ASSUME Final, NEW m \in DOMAIN symbols, NEW n \in DOMAIN symbols[m]
    PROVE  BodyOf(Repeat(Along, Links, <<m, n>>)).is # "link"
<1> DEFINE g == CHOOSE f : Steps(<<m, n>>, Links, f)
<1>1. /\ Links \in Nat /\ m \in Names /\ IsFiniteSet(Names \X AllDefs)
  BY TextIsFinite DEF Final, Settled, Known, SoundInv, SymbolsInv
<1>2. Steps(<<m, n>>, Links, g)
  <2>1. \E f : Steps(<<m, n>>, Links, f)
    BY <1>1, StepsExist
  <2> QED
    BY <2>1
<1>3. Repeat(Along, Links, <<m, n>>) = g[Links]
  BY DEF Repeat, Steps
<1> HIDE DEF g
<1>4. \A k \in 0..Links : g[k] = IF k = 0 THEN <<m, n>> ELSE Along(g[k - 1])
  BY <1>2 DEF Steps
<1>5. PICK t : Trail(m, n, t) /\ Fine(t[Links])
  BY <1>1 DEF Final, Settled, Known, SoundInv, ChecksInv, Checked
<1>6. PICK mod, path : OnTrail(<<m, n>>, Links, g[Links], mod, path)
  BY <1>1, <1>4, <1>5, TrailFollows DEF Trail
<1>7. IsFiniteSet(Visits) /\ Cardinality(Visits) <= Links - 1 /\ Cardinality(Visits) \in Nat
  <2> DEFINE f == [d \in Names \X AllDefs |-> <<d[1], BodyOf(d[2]).to>>]
  <2>1. Visits = {f[x] : x \in DOMAIN f} /\ DOMAIN f = Names \X AllDefs
    BY DEF Visits
  <2> HIDE DEF f
  <2>2. IsFiniteSet(Visits) /\ Cardinality(Visits) <= Cardinality(Names \X AllDefs)
    BY <1>1, <2>1, Image
  <2>3. Cardinality(Visits) \in Nat /\ Cardinality(Names \X AllDefs) \in Nat
    BY <1>1, <2>2, FS_CardinalityType
  <2> QED
    BY <2>2, <2>3 DEF Links
<1>8. IsFiniteSet(Visits \cup {<<m, n>>}) /\ Cardinality(Visits \cup {<<m, n>>}) <= Links
  <2>1. /\ IsFiniteSet(Visits \cup {<<m, n>>})
        /\ Cardinality(Visits \cup {<<m, n>>}) = Cardinality(Visits)
           \/ Cardinality(Visits \cup {<<m, n>>}) = Cardinality(Visits) + 1
    BY <1>7, FS_AddElement
  <2> QED
    BY <1>1, <1>7, <2>1
<1>9. Cardinality(path) <= Links
  <2>1. path \in SUBSET (Visits \cup {<<m, n>>})
    BY <1>6 DEF OnTrail
  <2>2. Cardinality(path) <= Cardinality(Visits \cup {<<m, n>>})
    BY <1>8, <2>1, FS_Subset
  <2>3. Cardinality(path) \in Nat /\ Cardinality(Visits \cup {<<m, n>>}) \in Nat
    BY <1>6, <1>8, FS_CardinalityType DEF OnTrail
  <2> QED
    BY <1>1, <1>8, <2>2, <2>3
<1>10. Cardinality(path) # Links + 1
  BY <1>1, <1>9
<1> QED
  BY <1>3, <1>6, <1>10 DEF OnTrail

LEMMA InvGrounds == NamesInv /\ TablesInv => ValuesAreGrounded
<1> SUFFICES ASSUME NamesInv, TablesInv, pc = "codegen", ~Collisions,
                    NEW m \in DOMAIN symbols, NEW n \in DOMAIN symbols[m]
             PROVE  BodyOf(Repeat(Along, Links, <<m, n>>)).is # "link"
  BY DEF ValuesAreGrounded
<1>1. Final
  BY DEF Final, Settled, Known, TablesInv
<1> QED
  BY <1>1, TrailsEnd

\* check_value_ref_chain: whatever the schema and the order of its files, as
\* long as no two modules use one name for two things, a schema that passes
\* the checks has no value that stands for itself, however many modules the
\* circle goes through, and none that is equal to nothing.
THEOREM ValuesEnd == Spec => []ValuesAreGrounded
<1>1. Init => NamesInv /\ TablesInv
  BY InvInit, TablesInit
<1>2. NamesInv /\ TablesInv /\ [Next]_vars => NamesInv' /\ TablesInv'
  BY InvNext, TablesNext
<1> QED
  BY <1>1, <1>2, InvGrounds, PTL DEF Spec

-----------------------------------------------------------------------------
(* What the tables make of the text.                                       *)

\* b is what a field reference t stands for, if its class has a fixed type.
FieldMeans(t, b) == \A a \in Names : t.to \in Own(a) =>
    LET c == Text(<<a, t.to>>)
    IN  c.is = "class" /\ c.to # Nothing => b = Body("ref", "", c.to, Nothing)

IsGeneric(a, to) == to \in Own(a) /\ Text(<<a, to>>).is = "generic"

\* b is the body of an instance of to with the actual parameter arg.
InstanceMeans(b, to, arg) == \A a \in Names : IsGeneric(a, to) =>
    b = IF Text(<<a, to>>).to = Formal THEN Body("ref", arg.mod, arg.to, Nothing)
        ELSE Body("ref", "", Text(<<a, to>>).to, Nothing)

\* Every instance made is in its module's table and in the global one.
CacheMeans ==
    /\ pc \notin Late => DOMAIN cache = {}
    /\ \A key \in DOMAIN cache :
         /\ key[1] \in DOMAIN symbols /\ cache[key] \in DOMAIN symbols[key[1]] /\ Len(cache[key]) \notin {0, 1}
         /\ InstanceMeans(symbols[key[1]][cache[key]], key[2], key[3])
         /\ cache[key] \in DOMAIN global /\ global[cache[key]] = <<key[1], cache[key]>>

\* The passes that rewrite have been at a definition.
FieldsDone(m) == pc \in Late \/ (pc = "fields" /\ \E k \in 1..(i - 1) : program[k].name = m)

InstancesDone(m, n) ==
    \/ pc \in Late \ {"instances"}
    \/ /\ pc = "instances"
       /\ \/ \E k \in 1..(i - 1) : program[k].name = m
          \/ program[i].name = m /\ \A j \in 1..Len(queue) : queue[j] # n

\* b is what became of t, the text's definition of n in m.
Plain(t, b) == t.is \notin {"field", "inst"} => b = t

Replaced(m, t, b) ==
    <<m, t.to, t.arg>> \in DOMAIN cache /\ b = Body("ref", "", cache[<<m, t.to, t.arg>>], Nothing)

Refielded(m, t, b) == t.is = "field" =>
    \/ b = t /\ ~FieldsDone(m)
    \/ b.is \in {"ref", "any"} /\ FieldMeans(t, b)

Instanced(m, n, t, b) == t.is = "inst" =>
    \/ b = t /\ ~(InstancesDone(m, n) /\ \E a \in Names : IsGeneric(a, t.to))
    \/ Replaced(m, t, b)

Kept(m, n, t, b) == Plain(t, b) /\ Refielded(m, t, b) /\ Instanced(m, n, t, b)

MeansInv ==
    /\ CacheMeans
    /\ \A m \in DOMAIN symbols : \A n \in Own(m) : Kept(m, n, Text(<<m, n>>), symbols[m][n])

\* What the proof of a step may use.
Grounds == Known /\ errors = {} /\ ~Collisions /\ MeansInv

LEMMA BodyFacts ==
    \A is, mod, to, arg :
        /\ Body(is, mod, to, arg).is = is /\ Body(is, mod, to, arg).mod = mod
        /\ Body(is, mod, to, arg).to = to
BY DEF Body

LEMMA MeansFixed ==
    ASSUME UNCHANGED Input
    PROVE  /\ program' = program /\ Names' = Names
           /\ \A m : Own(m)' = Own(m)
           /\ \A x : Text(x)' = Text(x)
           /\ \A t, b : FieldMeans(t, b)' <=> FieldMeans(t, b)
           /\ \A a, to : IsGeneric(a, to)' <=> IsGeneric(a, to)
           /\ \A b, to, arg : InstanceMeans(b, to, arg)' <=> InstanceMeans(b, to, arg)
<1>1. program' = program /\ Names' = Names /\ \A m : Own(m)' = Own(m)
  BY TextIsFixed
<1>2. \A m : FileOf(m)' = FileOf(m)
  BY <1>1 DEF FileOf
<1>3. \A x : Text(x)' = Text(x)
  BY <1>2 DEF Text
<1>4. \A t, b : FieldMeans(t, b)' <=> FieldMeans(t, b)
  BY <1>1, <1>3 DEF FieldMeans
<1>5. \A a, to : IsGeneric(a, to)' <=> IsGeneric(a, to)
  BY <1>1, <1>3 DEF IsGeneric
<1>6. \A b, to, arg : InstanceMeans(b, to, arg)' <=> InstanceMeans(b, to, arg)
  BY <1>1, <1>3, <1>5 DEF InstanceMeans
<1> QED
  BY <1>1, <1>3, <1>4, <1>5, <1>6

\* A definition that a step leaves alone, and has not to be rewritten by it.
LEMMA KeptStays ==
    ASSUME UNCHANGED Input, NEW m, NEW n,
           FieldsDone(m)' => FieldsDone(m),
           InstancesDone(m, n)' => InstancesDone(m, n),
           \A key \in DOMAIN cache : key \in DOMAIN cache' /\ cache'[key] = cache[key]
    PROVE  \A t, b : Kept(m, n, t, b) => Kept(m, n, t, b)'
<1> TAKE t, b
<1>1. /\ Names' = Names
      /\ \A x, y : FieldMeans(x, y)' <=> FieldMeans(x, y)
      /\ \A a, to : IsGeneric(a, to)' <=> IsGeneric(a, to)
  BY MeansFixed
<1>2. Refielded(m, t, b) => Refielded(m, t, b)'
  BY <1>1 DEF Refielded
<1>3. Replaced(m, t, b) => Replaced(m, t, b)'
  BY DEF Replaced
<1>4. Instanced(m, n, t, b) => Instanced(m, n, t, b)'
  BY <1>1, <1>3 DEF Instanced
<1> QED
  BY <1>2, <1>4 DEF Kept, Plain

\* A step that rewrites nothing, and after which no more is to be rewritten.
LEMMA MeansStay ==
    ASSUME Grounds, UNCHANGED <<Input, symbols, cache>>,
           global' = global \/ pc \notin Late,
           pc' \notin Late => pc \notin Late,
           \A m \in Names : FieldsDone(m)' => FieldsDone(m),
           \A m \in Names : \A n \in Own(m) : InstancesDone(m, n)' => InstancesDone(m, n)
    PROVE  MeansInv'
<1>1. UNCHANGED Input /\ symbols' = symbols /\ cache' = cache
  OBVIOUS
<1>2. /\ program' = program /\ Names' = Names
      /\ \A m : Own(m)' = Own(m)
      /\ \A x : Text(x)' = Text(x)
      /\ \A t, b : FieldMeans(t, b)' <=> FieldMeans(t, b)
      /\ \A a, to : IsGeneric(a, to)' <=> IsGeneric(a, to)
      /\ \A b, to, arg : InstanceMeans(b, to, arg)' <=> InstanceMeans(b, to, arg)
  BY <1>1, MeansFixed
<1>3. CacheMeans'
  <2>1. CASE DOMAIN cache = {}
    BY <1>1, <2>1 DEF CacheMeans
  <2>2. CASE DOMAIN cache # {}
    <3>1. global' = global /\ pc \in Late
      BY <2>2 DEF Grounds, MeansInv, CacheMeans
    <3> QED
      BY <1>1, <1>2, <3>1 DEF Grounds, MeansInv, CacheMeans
  <2> QED
    BY <2>1, <2>2
<1>4. DOMAIN symbols \subseteq Names
  BY DEF Grounds, Known, SoundInv, SymbolsInv
<1>5. ASSUME NEW m \in DOMAIN symbols, NEW n \in Own(m)
      PROVE  Kept(m, n, Text(<<m, n>>), symbols[m][n])'
  <2> DEFINE t == Text(<<m, n>>)
             b == symbols[m][n]
  <2>1. Kept(m, n, t, b) /\ m \in Names
    BY <1>4 DEF Grounds, MeansInv
  <2>2. Text(<<m, n>>)' = t /\ symbols'[m][n] = b
    BY <1>1, <1>2
  <2>3. \A x, y : Kept(m, n, x, y) => Kept(m, n, x, y)'
    BY <1>1, <2>1, KeptStays
  <2> HIDE DEF t, b
  <2> QED
    BY <2>1, <2>2, <2>3
<1> QED
  BY <1>1, <1>2, <1>3, <1>5 DEF MeansInv

\* The passes that rewrite nothing.
LEMMA OthersMean ==
    ASSUME Grounds, OwnNames \/ ResolveImport \/ EndImports \/ ResolveTypes
    PROVE  MeansInv'
<1>1. /\ UNCHANGED Input /\ UNCHANGED <<Input, symbols, cache>> /\ program' = program
      /\ pc \in {"imports", "types"}
      /\ pc' \in {"imports", "types"} \/ (pc' = "fields" /\ i' = 1)
  <2>1. CASE OwnNames
    BY <2>1 DEF OwnNames, Input
  <2>2. CASE ResolveImport
    BY <2>2 DEF ResolveImport, Input
  <2>3. CASE EndImports
    BY <2>3 DEF EndImports, Advance, Input
  <2>4. CASE ResolveTypes
    BY <2>4 DEF ResolveTypes, Advance, Input
  <2> QED
    BY <2>1, <2>2, <2>3, <2>4
<1>2. pc \notin Late /\ pc' \notin Late
  BY <1>1 DEF Late
<1>3. \A m : ~FieldsDone(m)'
  BY <1>1, <1>2 DEF FieldsDone
<1>4. \A m, n : ~InstancesDone(m, n)'
  BY <1>1, <1>2 DEF InstancesDone, Late
<1> QED
  BY <1>1, <1>2, <1>3, <1>4, MeansStay

LEMMA CollectMeans ==
    ASSUME Grounds, Collect, errors' = {}
    PROVE  MeansInv'
<1> DEFINE m == program[i].name
           table == Table(program[i].defs)
<1>1. /\ UNCHANGED Input /\ cache' = cache /\ pc = "collect"
      /\ pc' \in {"collect", "imports"}
  BY DEF Collect, Advance
<1>2. /\ m \notin DOMAIN symbols /\ m \in Names /\ symbols' = Put(symbols, m, table) /\ FileOf(m) = program[i]
  BY CollectEnters DEF Grounds
<1>3. /\ \A x : Own(x)' = Own(x)
      /\ \A x : Text(x)' = Text(x)
  BY <1>1, MeansFixed
<1>4. pc \notin Late /\ pc' \notin Late /\ pc' # "fields"
  BY <1>1 DEF Late
<1>5. \A x : ~FieldsDone(x)'
  BY <1>4 DEF FieldsDone
<1>6. \A x, n : ~InstancesDone(x, n)'
  BY <1>4 DEF InstancesDone, Late
<1>7. DOMAIN cache = {}
  BY <1>4 DEF Grounds, MeansInv, CacheMeans
<1>8. ASSUME NEW x \in DOMAIN symbols', NEW n \in Own(x)
      PROVE  Kept(x, n, Text(<<x, n>>), symbols[x][n])'
  <2> DEFINE t == Text(<<x, n>>)
  <2>1. CASE x = m
    <3>1. symbols'[x][n] = t /\ Text(<<x, n>>)' = t
      BY <1>2, <1>3, <2>1 DEF Put, Text
    <3>2. \A y : Kept(x, n, y, y)'
      BY <1>5, <1>6 DEF Kept, Plain, Refielded, Instanced
    <3> HIDE DEF t
    <3> QED
      BY <3>1, <3>2
  <2>2. CASE x # m
    <3>1. x \in DOMAIN symbols /\ symbols'[x] = symbols[x]
      BY <1>2, <1>8, <2>2 DEF Put
    <3> DEFINE b == symbols[x][n]
    <3>2. Kept(x, n, t, b)
      BY <1>8, <3>1 DEF Grounds, MeansInv
    <3>3. \A y, z : Kept(x, n, y, z) => Kept(x, n, y, z)'
      BY <1>1, <1>5, <1>6, KeptStays
    <3>4. Text(<<x, n>>)' = t /\ symbols'[x][n] = b
      BY <1>3, <3>1
    <3> HIDE DEF t, b
    <3> QED
      BY <3>2, <3>3, <3>4
  <2> QED
    BY <2>1, <2>2
<1>9. CacheMeans'
  BY <1>1, <1>7 DEF CacheMeans
<1> QED
  BY <1>3, <1>8, <1>9 DEF MeansInv

\* The queue a module begins with has all its definitions.
LEMMA OwnQueued ==
    ASSUME Known, errors = {}, pc # "collect", NEW a \in 1..Len(program),
           NEW n \in Own(program[a].name),
           NEW q, q = [k \in 1..Len(program[a].defs) |-> program[a].defs[k].name]
    PROVE  \E j \in 1..Len(q) : q[j] = n
<1> DEFINE defs == program[a].defs
<1>1. Len(defs) \in Nat
  BY ProgramsAssumption DEF Known
<1>2. n \in DOMAIN Table(defs)
  <2>1. FileOf(program[a].name) = program[a]
    BY Bounds
  <2> QED
    BY <2>1 DEF Own
<1> DEFINE S == DOMAIN symbols[program[a].name]
<1>3. q \in Seq(S)
  BY QueueBegins
<1> HIDE DEF defs, S
<1>4. PICK k \in 1..Len(defs) : defs[k].name = n
  BY <1>1, <1>2, TableHolds
<1>5. DOMAIN q = 1..Len(q)
  BY <1>3, LenProperties
<1>6. k \in DOMAIN q /\ q[k] = n
  BY <1>4 DEF defs
<1> QED
  BY <1>5, <1>6

\* A definition that is not rewritten, looked up from anywhere.
LEMMA PlainSeen ==
    ASSUME Settled, MeansInv, NEW m, NEW a \in Names, NEW n \in Own(a),
           Text(<<a, n>>).is \notin {"field", "inst"}
    PROVE  /\ Direct(n, m) = <<a, n>> /\ Direct(n, m) # None
           /\ BodyOf(Direct(n, m)) = Text(<<a, n>>)
<1>1. Len(n) = 1
  BY TextFacts DEF Settled, Known
<1>2. Direct(n, m) = <<a, n>>
  BY <1>1, OneMeaning
<1>3. <<a, n>> # None
  <2>1. <<a, n>> = None => n = <<>>
    BY DEF None, Nothing
  <2>2. Len(<<>>) = 0
    OBVIOUS
  <2> QED
    BY <1>1, <2>1, <2>2
<1>4. a \in DOMAIN symbols
  BY DEF Settled, Known, SoundInv, SymbolsInv
<1>5. symbols[a][n] = Text(<<a, n>>)
  BY <1>4 DEF MeansInv, Kept, Plain
<1> QED
  BY <1>2, <1>3, <1>5 DEF BodyOf

\* What the code makes of a field reference is what its class says.
LEMMA FieldBodies ==
    ASSUME Settled, MeansInv, NEW t, NEW m
    PROVE  FieldBody(t, m).is \in {"ref", "any"} /\ FieldMeans(t, FieldBody(t, m))
<1>1. FieldBody(t, m).is \in {"ref", "any"}
  BY DEF FieldBody, Body
<1>2. ASSUME NEW a \in Names, t.to \in Own(a),
             Text(<<a, t.to>>).is = "class", Text(<<a, t.to>>).to # Nothing
      PROVE  FieldBody(t, m) = Body("ref", "", Text(<<a, t.to>>).to, Nothing)
  BY <1>2, PlainSeen DEF FieldBody
<1> QED
  BY <1>1, <1>2 DEF FieldMeans

LEMMA ResolveFieldsMeans ==
    ASSUME Grounds, ResolveFields
    PROVE  MeansInv'
<1> DEFINE m == program[i].name
           t == [n \in DOMAIN symbols[m] |->
                    IF symbols[m][n].is = "field" THEN FieldBody(symbols[m][n], m) ELSE symbols[m][n]]
           first == [k \in 1..Len(program[1].defs) |-> program[1].defs[k].name]
<1>1. /\ pc = "fields" /\ UNCHANGED Input
      /\ cache' = cache
      /\ IF i < Len(program) THEN i' = i + 1 /\ pc' = pc ELSE i' = 1 /\ pc' = "instances"
      /\ queue' = IF i = Len(program) THEN first ELSE queue
      /\ symbols' = [symbols EXCEPT ![m] = t]
  BY DEF ResolveFields, Advance
<1>2. /\ i \in 1..Len(program) /\ Len(program) \in Nat /\ m \in Names /\ DOMAIN symbols = Names
      /\ Own(m) \subseteq DOMAIN symbols[m]
      /\ \A k \in 1..Len(program) : program[k].name \in Names
  <2>1. Known /\ errors = {} /\ pc # "collect"
    BY <1>1 DEF Grounds
  <2>2. i \in 1..Len(program) /\ Len(program) \in Nat /\ m \in Names /\ DOMAIN symbols = Names
        /\ \A k \in 1..Len(program) : program[k].name \in Names
    BY <2>1, Bounds
  <2> QED
    BY <2>1, <2>2 DEF Known, SoundInv, SymbolsInv
<1>3. pc' \in {"fields", "instances"} /\ (pc' = "instances" => i = Len(program) /\ i' = 1 /\ queue' = first)
  BY <1>1, <1>2
<1>4. Settled
  BY <1>1 DEF Grounds, Settled
<1>5. /\ program' = program /\ Names' = Names
      /\ \A x : Own(x)' = Own(x)
      /\ \A x : Text(x)' = Text(x)
      /\ \A y, z : FieldMeans(y, z)' <=> FieldMeans(y, z)
      /\ \A a, to : IsGeneric(a, to)' <=> IsGeneric(a, to)
  BY <1>1, MeansFixed
<1>6. DOMAIN cache = {}
  BY <1>1 DEF Grounds, MeansInv, CacheMeans, Late
<1>7. CacheMeans'
  BY <1>1, <1>6 DEF CacheMeans
<1> HIDE DEF first, t
<1>8. ASSUME NEW x \in Names, NEW n \in Own(x) PROVE ~InstancesDone(x, n)'
  <2>1. CASE pc' = "fields"
    BY <2>1 DEF InstancesDone, Late
  <2>2. CASE pc' = "instances"
    <3>1. ASSUME program[1].name = x PROVE \E j \in 1..Len(first) : first[j] = n
      <4>1. 1 \in 1..Len(program) /\ n \in Own(program[1].name) /\ pc # "collect"
        BY <1>1, <1>2, <1>8, <3>1
      <4>2. Known /\ errors = {}
        BY <1>1 DEF Grounds
      <4>3. first = [k \in 1..Len(program[1].defs) |-> program[1].defs[k].name]
        BY DEF first
      <4> QED
        BY <4>1, <4>2, <4>3, OwnQueued
    <3>2. ~(\E k \in 1..(i' - 1) : program'[k].name = x)
      BY <1>3, <2>2
    <3>3. program'[i'].name = x => \E j \in 1..Len(queue') : queue'[j] = n
      BY <1>3, <1>5, <2>2, <3>1
    <3> QED
      BY <2>2, <3>2, <3>3 DEF InstancesDone, Late
  <2> QED
    BY <1>3, <2>1, <2>2
<1>9. ASSUME NEW x \in Names, x # m PROVE FieldsDone(x)' => FieldsDone(x)
  <2>1. CASE pc' = "fields"
    <3>1. ASSUME NEW k \in 1..(i' - 1), program'[k].name = x PROVE k \in 1..(i - 1) /\ program[k].name = x
      <4>1. i' = i + 1
        BY <1>1, <2>1
      <4>2. program[k].name = x
        BY <1>5, <3>1
      <4>3. k # i
        BY <1>9, <4>2
      <4> QED
        BY <1>2, <4>1, <4>2, <4>3
    <3> QED
      BY <1>1, <2>1, <3>1 DEF FieldsDone, Late
  <2>2. CASE pc' = "instances"
    <3>1. PICK k \in 1..Len(program) : program[k].name = x
      BY <1>9 DEF Names
    <3>2. k \in 1..(i - 1)
      <4>1. k # i
        BY <1>9, <3>1
      <4> QED
        BY <1>2, <1>3, <2>2, <4>1
    <3> QED
      BY <1>1, <3>1, <3>2 DEF FieldsDone
  <2> QED
    BY <1>3, <2>1, <2>2
<1>10. ASSUME NEW x \in DOMAIN symbols', NEW n \in Own(x)
       PROVE  Kept(x, n, Text(<<x, n>>), symbols[x][n])'
  <2> DEFINE w == Text(<<x, n>>)
             b == symbols[x][n]
             c == symbols'[x][n]
  <2>1. x \in DOMAIN symbols /\ x \in Names /\ Kept(x, n, w, b)
    <3>1. x \in DOMAIN symbols
      BY <1>1, <1>10
    <3> QED
      BY <1>2, <3>1 DEF Grounds, MeansInv
  <2>2. Text(<<x, n>>)' = w
    BY <1>5
  <2>3. CASE x = m
    <3>1. c = IF b.is = "field" THEN FieldBody(b, m) ELSE b
      <4>1. n \in DOMAIN symbols[m] /\ symbols'[x] = t
        BY <1>1, <1>2, <2>3
      <4> QED
        BY <2>3, <4>1 DEF t
    <3> HIDE DEF w, b, c
    <3>2. ASSUME w.is = "field" PROVE c.is \in {"ref", "any"} /\ FieldMeans(w, c)
      <4>1. CASE b = w
        <5>1. c = FieldBody(w, m)
          BY <3>1, <3>2, <4>1
        <5> QED
          BY <1>4, <5>1, FieldBodies DEF Grounds
      <4>2. CASE b # w
        <5>1. b.is \in {"ref", "any"} /\ FieldMeans(w, b)
          BY <2>1, <3>2, <4>2 DEF Kept, Refielded
        <5> QED
          BY <3>1, <5>1
      <4> QED
        BY <4>1, <4>2
    <3>3. ASSUME w.is # "field" PROVE c = b
      <4>1. CASE w.is = "inst" /\ b # w
        <5>1. Replaced(x, w, b)
          BY <2>1, <4>1 DEF Kept, Instanced
        <5>2. b = Body("ref", "", cache[<<x, w.to, w.arg>>], Nothing)
          BY <5>1 DEF Replaced
        <5>3. b.is = "ref"
          BY <5>2 DEF Body
        <5> QED
          BY <3>1, <5>3
      <4>2. CASE b = w
        BY <3>1, <3>3, <4>2
      <4> QED
        BY <2>1, <3>3, <4>1, <4>2 DEF Kept, Plain
    <3>4. ASSUME NEW y, NEW z,
                 y.is = "field" => z.is \in {"ref", "any"} /\ FieldMeans(y, z),
                 y.is # "field" => Kept(x, n, y, z)
          PROVE  Kept(x, n, y, z)'
      <4>1. ~InstancesDone(x, n)'
        BY <1>8, <2>1
      <4>2. CASE y.is = "field"
        BY <1>5, <3>4, <4>2 DEF Kept, Plain, Refielded, Instanced
      <4>3. CASE y.is # "field"
        BY <1>1, <3>4, <4>1, <4>3 DEF Kept, Plain, Refielded, Instanced, Replaced
      <4> QED
        BY <4>2, <4>3
    <3>5. w.is # "field" => Kept(x, n, w, c)
      BY <2>1, <3>3
    <3>6. \A y, z : (y.is = "field" => z.is \in {"ref", "any"} /\ FieldMeans(y, z))
                     /\ (y.is # "field" => Kept(x, n, y, z)) => Kept(x, n, y, z)'
      BY <3>4
    <3> QED
      BY <2>2, <3>2, <3>5, <3>6 DEF c
  <2>4. CASE x # m
    <3>1. symbols'[x][n] = b
      BY <1>1, <2>1, <2>4
    <3>2. \A y, z : Kept(x, n, y, z) => Kept(x, n, y, z)'
      BY <1>1, <1>8, <1>9, <2>1, <2>4, KeptStays
    <3> HIDE DEF w, b, c
    <3> QED
      BY <2>1, <2>2, <3>1, <3>2
  <2> QED
    BY <2>3, <2>4
<1> QED
  BY <1>5, <1>7, <1>10 DEF MeansInv

LEMMA NextModuleMeans ==
    ASSUME Grounds, NextModule
    PROVE  MeansInv'
<1> DEFINE next == [k \in 1..Len(program[i + 1].defs) |-> program[i + 1].defs[k].name]
<1>1. /\ pc = "instances" /\ queue = <<>>
      /\ UNCHANGED Input /\ UNCHANGED <<Input, symbols, cache>> /\ global' = global
      /\ IF i < Len(program) THEN i' = i + 1 /\ pc' = pc ELSE i' = 1 /\ pc' = "values"
      /\ queue' = IF i = Len(program) THEN queue ELSE next
  BY DEF NextModule, Advance
<1>2. i \in 1..Len(program) /\ Len(program) \in Nat /\ pc # "collect"
  BY <1>1, Bounds DEF Grounds
<1>3. program' = program
  BY <1>1, MeansFixed
<1> HIDE DEF next
<1>4. \A m : FieldsDone(m)
  BY <1>1 DEF FieldsDone, Late
<1>5. ASSUME NEW m \in Names, NEW n \in Own(m), InstancesDone(m, n)' PROVE InstancesDone(m, n)
  <2>1. Len(queue) = 0
    BY <1>1
  <2>2. ASSUME NEW k \in 1..i, program[k].name = m PROVE InstancesDone(m, n)
    <3>1. CASE k = i
      BY <1>1, <2>1, <2>2, <3>1 DEF InstancesDone
    <3>2. CASE k # i
      <4>1. k \in 1..(i - 1)
        BY <1>2, <3>2
      <4> QED
        BY <1>1, <2>2, <4>1 DEF InstancesDone
    <3> QED
      BY <3>1, <3>2
  <2>3. CASE i < Len(program)
    <3>1. i' = i + 1 /\ pc' = "instances" /\ i # Len(program)
      BY <1>1, <1>2, <2>3
    <3>2. i + 1 \in 1..Len(program) /\ i' - 1 = i
      BY <1>2, <2>3, <3>1
    <3>3. CASE \E k \in 1..(i' - 1) : program'[k].name = m
      BY <1>3, <2>2, <3>2, <3>3
    <3>4. CASE program'[i'].name = m /\ \A j \in 1..Len(queue') : queue'[j] # n
      <4>1. n \in Own(program[i + 1].name) /\ queue' = next
        BY <1>1, <1>3, <1>5, <3>1, <3>4
      <4>2. \E j \in 1..Len(next) : next[j] = n
        <5>1. Known /\ errors = {}
          BY <1>1 DEF Grounds
        <5>2. next = [k \in 1..Len(program[i + 1].defs) |-> program[i + 1].defs[k].name]
          BY DEF next
        <5>3. i + 1 \in 1..Len(program) /\ pc # "collect" /\ n \in Own(program[i + 1].name)
          BY <1>2, <3>2, <4>1
        <5> QED
          BY <5>1, <5>2, <5>3, OwnQueued
      <4> QED
        BY <3>4, <4>1, <4>2
    <3> QED
      BY <1>5, <3>1, <3>3, <3>4 DEF InstancesDone, Late
  <2>4. CASE ~(i < Len(program))
    <3>1. PICK k \in 1..Len(program) : program[k].name = m
      BY <1>5 DEF Names
    <3>2. k \in 1..i
      BY <1>2, <2>4
    <3> QED
      BY <2>2, <3>1, <3>2
  <2> QED
    BY <2>3, <2>4
<1> QED
  BY <1>1, <1>4, <1>5, MeansStay DEF Late

LEMMA ResolveValuesMeans ==
    ASSUME Grounds, ResolveValues
    PROVE  MeansInv'
<1>1. /\ pc = "values" /\ UNCHANGED <<Input, symbols, cache>> /\ global' = global
      /\ pc' \in {"values", "codegen", "failed"}
  BY DEF ResolveValues
<1>2. /\ \A m : FieldsDone(m)
      /\ \A m, n : InstancesDone(m, n)
      /\ pc' \in Late
  BY <1>1 DEF FieldsDone, InstancesDone, Late
<1> QED
  BY <1>1, <1>2, MeansStay

\* A definition that a step of the instances does not scan is done after it
\* only if it was before.
LEMMA ScannedOnce ==
    ASSUME Known, errors = {}, Instantiate, NEW x, NEW y,
           ~(x = program[i].name /\ y = Head(queue)), InstancesDone(x, y)'
    PROVE  InstancesDone(x, y)
<1> DEFINE S == DOMAIN symbols[program[i].name]
<1>1. /\ pc = "instances" /\ queue # <<>> /\ UNCHANGED Input /\ pc' = pc /\ i' = i
      /\ queue' = Tail(queue) \/ \E z : queue' = Append(Tail(queue), z)
  BY DEF Instantiate
<1>2. program' = program
  BY <1>1, MeansFixed
<1>3. queue \in Seq(S)
  BY <1>1 DEF Known, SoundInv, QueueInv
<1> HIDE DEF S
<1>4. CASE \E k \in 1..(i - 1) : program[k].name = x
  BY <1>1, <1>4 DEF InstancesDone
<1>5. CASE program[i].name = x /\ \A j \in 1..Len(queue') : queue'[j] # y
  <2>1. /\ Tail(queue) \in Seq(S) /\ Len(Tail(queue)) = Len(queue) - 1 /\ Len(queue) \in Nat
        /\ \A j \in 1..(Len(queue) - 1) : Tail(queue)[j] = queue[j + 1]
        /\ Head(queue) = queue[1]
    BY <1>1, <1>3, HeadTailProperties, LenProperties
  <2> DEFINE tail == Tail(queue)
  <2> HIDE DEF tail
  <2>2. tail \in Seq(S) /\ Len(tail) \in Nat
    BY <2>1, LenProperties DEF tail
  <2>3. ASSUME NEW z PROVE /\ Len(Append(tail, z)) = Len(tail) + 1
                           /\ \A j \in 1..Len(tail) : Append(tail, z)[j] = tail[j]
    <3> DEFINE T == S \cup {z}
    <3>1. tail \in Seq(T) /\ z \in T
      BY <2>2, SeqMonotonic
    <3> HIDE DEF T
    <3> QED
      BY <3>1, AppendProperties
  <2>4. \A j \in 1..Len(tail) : tail[j] # y
    <3>1. CASE queue' = tail
      BY <1>5, <3>1
    <3>2. CASE \E z : queue' = Append(tail, z)
      <4>1. PICK z : queue' = Append(tail, z)
        BY <3>2
      <4>2. ASSUME NEW j \in 1..Len(tail) PROVE tail[j] # y
        <5>1. j \in 1..Len(queue') /\ queue'[j] = tail[j]
          BY <2>2, <2>3, <4>1
        <5> QED
          BY <1>5, <5>1
      <4> QED
        BY <4>2
    <3> QED
      BY <1>1, <3>1, <3>2 DEF tail
  <2>5. ASSUME NEW j \in 1..Len(queue) PROVE queue[j] # y
    <3>1. CASE j = 1
      BY <1>5, <2>1, <3>1
    <3>2. CASE j # 1
      <4>1. j - 1 \in 1..Len(tail) /\ (j - 1) + 1 = j
        BY <2>1, <3>2 DEF tail
      <4>2. tail[j - 1] = queue[j]
        BY <2>1, <4>1 DEF tail
      <4> QED
        BY <2>4, <4>1, <4>2
    <3> QED
      BY <3>1, <3>2
  <2> QED
    BY <1>1, <1>5, <2>5 DEF InstancesDone
<1> QED
  BY <1>1, <1>2, <1>4, <1>5 DEF InstancesDone

\* A body that is still an instance is the text's.
LEMMA StillInstance ==
    ASSUME NEW m, NEW n, NEW t, NEW b, Kept(m, n, t, b), b.is = "inst"
    PROVE  t = b
<1>1. ~Replaced(m, t, b)
  <2> SUFFICES ASSUME Replaced(m, t, b) PROVE FALSE
    OBVIOUS
  <2>1. b = Body("ref", "", cache[<<m, t.to, t.arg>>], Nothing)
    BY DEF Replaced
  <2> DEFINE x == cache[<<m, t.to, t.arg>>]
  <2> HIDE DEF x
  <2>2. b = Body("ref", "", x, Nothing)
    BY <2>1 DEF x
  <2>3. b.is = "ref"
    BY <2>2, BodyFacts
  <2> QED
    BY <2>3
<1> QED
  BY <1>1 DEF Kept, Plain, Refielded, Instanced

\* What the code makes of an instance is what its generic's text says.
LEMMA InstanceBodies ==
    ASSUME Settled, MeansInv, NEW m, NEW b
    PROVE  InstanceMeans(InstanceBody(Direct(b.to, m), b), b.to, b.arg)
<1> SUFFICES ASSUME NEW a \in Names, IsGeneric(a, b.to)
             PROVE  InstanceBody(Direct(b.to, m), b) =
                      IF Text(<<a, b.to>>).to = Formal THEN Body("ref", b.arg.mod, b.arg.to, Nothing)
                      ELSE Body("ref", "", Text(<<a, b.to>>).to, Nothing)
  BY DEF InstanceMeans
<1>1. BodyOf(Direct(b.to, m)) = Text(<<a, b.to>>)
  BY PlainSeen DEF IsGeneric
<1> QED
  BY <1>1 DEF InstanceBody

\* The head of the queue becomes a reference to its instance.
LEMMA HeadIsReplaced ==
    ASSUME UNCHANGED Input, pc' = "instances", NEW m, NEW n, NEW b, b.is = "inst",
           NEW name, <<m, b.to, b.arg>> \in DOMAIN cache', cache'[<<m, b.to, b.arg>>] = name
    PROVE  Kept(m, n, b, Body("ref", "", name, Nothing))'
BY DEF Kept, Plain, Refielded, Instanced, Replaced

LEMMA InstantiateMeans ==
    ASSUME Grounds, Instantiate
    PROVE  MeansInv'
<1> DEFINE m == program[i].name
           n == Head(queue)
           b == symbols[m][n]
           g == Direct(b.to, m)
           name == FreshName(b.to \o b.arg.to)
           key == <<m, b.to, b.arg>>
           t == [symbols[m] EXCEPT ![n] = Body("ref", "", name, Nothing)]
<1>1. /\ pc = "instances" /\ queue # <<>> /\ UNCHANGED Input /\ pc' = "instances"
      /\ \/ /\ b.is # "inst" \/ g = None \/ BodyOf(g).is # "generic"
            /\ symbols' = symbols /\ global' = global /\ cache' = cache
         \/ /\ b.is = "inst" /\ key \in DOMAIN cache
            /\ symbols' = [symbols EXCEPT ![m][n] = Body("ref", "", cache[key], Nothing)]
            /\ global' = global /\ cache' = cache
         \/ /\ b.is = "inst" /\ key \notin DOMAIN cache
            /\ symbols' = [symbols EXCEPT ![m] = Put(t, name, InstanceBody(g, b))]
            /\ global' = Put(global, name, <<m, name>>) /\ cache' = Put(cache, key, name)
  BY DEF Instantiate, BodyOf
<1>2. /\ DOMAIN symbols = Names /\ m \in Names
      /\ Settled /\ Known /\ errors = {} /\ MeansInv
  <2>1. Known /\ errors = {} /\ pc # "collect" /\ Settled /\ MeansInv
    BY <1>1 DEF Grounds, Settled
  <2> QED
    BY <2>1, Bounds
<1>3. n \in DOMAIN symbols[m]
  <2>1. queue \in Seq(DOMAIN symbols[m])
    BY <1>1, <1>2 DEF Known, SoundInv, QueueInv
  <2> QED
    BY <1>1, <2>1, QueueMoves
<1>4. /\ Names' = Names
      /\ \A x : Own(x)' = Own(x)
      /\ \A x : Text(x)' = Text(x)
      /\ \A a, to : IsGeneric(a, to)' <=> IsGeneric(a, to)
      /\ \A z, to, arg : InstanceMeans(z, to, arg)' <=> InstanceMeans(z, to, arg)
  BY <1>1, MeansFixed
<1>5. /\ \A x : FieldsDone(x) /\ FieldsDone(x)'
      /\ \A x, y : ~(x = m /\ y = n) => (InstancesDone(x, y)' => InstancesDone(x, y))
  BY <1>1, <1>2, ScannedOnce DEF FieldsDone, Late
<1>6. b.is = "inst" => /\ n \in Own(m) /\ b = Text(<<m, n>>)
                       /\ OnePart(b.to) /\ OnePart(b.arg.to)
  <2> SUFFICES ASSUME b.is = "inst" PROVE /\ n \in Own(m) /\ b = Text(<<m, n>>)
                                          /\ OnePart(b.to) /\ OnePart(b.arg.to)
    OBVIOUS
  <2>1. Fit(m, n, b)
    BY <1>2, <1>3 DEF Known, SoundInv, SymbolsInv
  <2>2. n \in Own(m) /\ OnePart(b.to) /\ OnePart(b.arg.to)
    BY <2>1 DEF Fit
  <2>3. Kept(m, n, Text(<<m, n>>), b)
    BY <1>2, <2>2 DEF MeansInv
  <2> QED
    BY <2>2, <2>3, StillInstance
<1>7. \A x \in Names : \A y \in Own(x) : Len(y) = 1
  BY <1>2, TextFacts DEF Known
<1> HIDE DEF m, n, b, g, name, key
<1>8. CASE /\ b.is # "inst" \/ g = None \/ BodyOf(g).is # "generic"
           /\ symbols' = symbols /\ global' = global /\ cache' = cache
  <2>1. CacheMeans'
    BY <1>1, <1>2, <1>4, <1>8 DEF MeansInv, CacheMeans, Late
  <2>2. ASSUME NEW x \in DOMAIN symbols', NEW y \in Own(x)
        PROVE  Kept(x, y, Text(<<x, y>>), symbols[x][y])'
    <3> DEFINE w == Text(<<x, y>>)
               c == symbols[x][y]
    <3>1. Kept(x, y, w, c)
      BY <1>2, <1>8, <2>2 DEF MeansInv
    <3>2. Text(<<x, y>>)' = w /\ symbols'[x][y] = c
      BY <1>4, <1>8
    <3>3. CASE ~(x = m /\ y = n)
      <4>1. \A u, v : Kept(x, y, u, v) => Kept(x, y, u, v)'
        BY <1>1, <1>5, <1>8, <3>3, KeptStays
      <4> HIDE DEF w, c
      <4> QED
        BY <3>1, <3>2, <4>1
    <3>4. CASE x = m /\ y = n
      <4>1. ASSUME w.is = "inst", c = w, NEW a \in Names, IsGeneric(a, w.to) PROVE FALSE
        <5>1. b.is = "inst" /\ w.to = b.to
          BY <3>4, <4>1 DEF b
        <5>2. g # None /\ BodyOf(g) = Text(<<a, b.to>>) /\ BodyOf(g).is = "generic"
          BY <1>2, <4>1, <5>1, PlainSeen DEF IsGeneric, g
        <5> QED
          BY <1>8, <5>1, <5>2
      <4>2. ASSUME NEW u, NEW v, Kept(x, y, u, v),
                   u.is = "inst" /\ v = u => ~(\E a \in Names : IsGeneric(a, u.to))
            PROVE  Kept(x, y, u, v)'
        <5>1. Refielded(x, u, v)'
          <6>1. \A p, q : FieldMeans(p, q)' <=> FieldMeans(p, q)
            BY <1>1, MeansFixed
          <6> QED
            BY <1>5, <4>2, <6>1 DEF Kept, Refielded
        <5>2. Instanced(x, y, u, v)'
          BY <1>4, <1>8, <4>2 DEF Kept, Instanced, Replaced
        <5> QED
          BY <4>2, <5>1, <5>2 DEF Kept, Plain
      <4>3. \A u, v : Kept(x, y, u, v) /\ (u.is = "inst" /\ v = u => ~(\E a \in Names : IsGeneric(a, u.to)))
                        => Kept(x, y, u, v)'
        BY <4>2
      <4>4. w.is = "inst" /\ c = w => ~(\E a \in Names : IsGeneric(a, w.to))
        BY <4>1
      <4> HIDE DEF w, c
      <4> QED
        BY <3>1, <3>2, <4>3, <4>4
    <3> QED
      BY <3>3, <3>4
  <2> QED
    BY <1>4, <2>1, <2>2 DEF MeansInv
\* Otherwise the head is rewritten, and perhaps a new name entered.
<1>9. ASSUME b.is = "inst", NEW new, key \in DOMAIN cache', cache'[key] = new,
             DOMAIN symbols' = DOMAIN symbols,
             \A x \in DOMAIN symbols : x # m => symbols'[x] = symbols[x],
             symbols'[m][n] = Body("ref", "", new, Nothing),
             \A y \in Own(m) : y # n => symbols'[m][y] = symbols[m][y],
             \A k \in DOMAIN cache : k \in DOMAIN cache' /\ cache'[k] = cache[k],
             CacheMeans'
      PROVE  MeansInv'
  <2>1. ASSUME NEW x \in DOMAIN symbols', NEW y \in Own(x)
        PROVE  Kept(x, y, Text(<<x, y>>), symbols[x][y])'
    <3> DEFINE w == Text(<<x, y>>)
               c == symbols[x][y]
    <3>1. CASE ~(x = m /\ y = n)
      <4>1. Kept(x, y, w, c)
        BY <1>2, <1>9, <2>1 DEF MeansInv
      <4>2. Text(<<x, y>>)' = w /\ symbols'[x][y] = c
        BY <1>4, <1>9, <2>1, <3>1
      <4>3. \A u, v : Kept(x, y, u, v) => Kept(x, y, u, v)'
        BY <1>1, <1>5, <1>9, <3>1, KeptStays
      <4> HIDE DEF w, c
      <4> QED
        BY <4>1, <4>2, <4>3
    <3>2. CASE x = m /\ y = n
      <4>1. w = b /\ Text(<<x, y>>)' = b
        BY <1>4, <1>6, <1>9, <3>2
      <4>2. \A v : v.is = "inst" /\ key = <<x, v.to, v.arg>>
                     => Kept(x, y, v, Body("ref", "", new, Nothing))'
        BY <1>1, <1>9, HeadIsReplaced
      <4>3. key = <<x, w.to, w.arg>> /\ w.is = "inst"
        BY <1>9, <3>2, <4>1 DEF key
      <4>4. symbols'[x][y] = Body("ref", "", new, Nothing) /\ Text(<<x, y>>)' = w
        BY <1>9, <3>2, <4>1
      <4> HIDE DEF w, c
      <4> QED
        BY <4>2, <4>3, <4>4
    <3> QED
      BY <3>1, <3>2
  <2> QED
    BY <1>4, <1>9, <2>1 DEF MeansInv
<1>10. CASE /\ b.is = "inst" /\ key \in DOMAIN cache
            /\ symbols' = [symbols EXCEPT ![m][n] = Body("ref", "", cache[key], Nothing)]
            /\ global' = global /\ cache' = cache
  <2> DEFINE new == Body("ref", "", cache[key], Nothing)
  <2> HIDE DEF new
  <2>1. symbols' = [symbols EXCEPT ![m][n] = new]
    BY <1>10 DEF new
  <2>2. /\ DOMAIN symbols' = DOMAIN symbols
        /\ \A x \in DOMAIN symbols : x # m => symbols'[x] = symbols[x]
        /\ DOMAIN symbols'[m] = DOMAIN symbols[m]
        /\ \A y \in DOMAIN symbols[m] : y # n => symbols'[m][y] = symbols[m][y]
        /\ symbols'[m][n] = new
    BY <1>2, <1>3, <2>1
  <2>3. \A y \in Own(m) : y \in DOMAIN symbols[m]
    BY <1>2 DEF Known, SoundInv, SymbolsInv
  <2>4. ASSUME NEW k \in DOMAIN cache
        PROVE  /\ k[1] \in DOMAIN symbols' /\ cache[k] \in DOMAIN symbols'[k[1]]
               /\ symbols'[k[1]][cache[k]] = symbols[k[1]][cache[k]]
    <3>1. k[1] \in DOMAIN symbols /\ cache[k] \in DOMAIN symbols[k[1]] /\ Len(cache[k]) \notin {0, 1}
      BY <1>2 DEF MeansInv, CacheMeans
    <3>2. cache[k] # n
      BY <1>2, <1>6, <1>7, <1>10, <3>1
    <3> QED
      BY <2>2, <3>1, <3>2
  <2>5. CacheMeans'
    BY <1>1, <1>2, <1>4, <1>10, <2>4 DEF MeansInv, CacheMeans, Late
  <2> QED
    BY <1>9, <1>10, <2>2, <2>3, <2>5 DEF new
<1>11. CASE /\ b.is = "inst" /\ key \notin DOMAIN cache
            /\ symbols' = [symbols EXCEPT ![m] = Put(t, name, InstanceBody(g, b))]
            /\ global' = Put(global, name, <<m, name>>) /\ cache' = Put(cache, key, name)
  <2>1. Len(name) \notin {0, 1} /\ \A k \in DOMAIN cache : cache[k] # name
    <3>1. IsFiniteSet(DOMAIN cache)
      BY <1>2 DEF Known, SoundInv, QueueInv
    <3> QED
      BY <1>6, <1>11, <3>1, NamesOfInstances DEF name
  <2>2. /\ DOMAIN t = DOMAIN symbols[m] /\ t[n] = Body("ref", "", name, Nothing)
        /\ \A y \in DOMAIN symbols[m] : y # n => t[y] = symbols[m][y]
    BY <1>3
  <2> HIDE DEF t
  <2>3. /\ DOMAIN symbols' = DOMAIN symbols
        /\ \A x \in DOMAIN symbols : x # m => symbols'[x] = symbols[x]
        /\ symbols'[m] = Put(t, name, InstanceBody(g, b))
    BY <1>2, <1>11
  <2>4. /\ DOMAIN symbols'[m] = DOMAIN symbols[m] \cup {name}
        /\ symbols'[m][name] = InstanceBody(g, b)
        /\ \A y \in DOMAIN symbols[m] : y # name => symbols'[m][y] = t[y]
    BY <2>2, <2>3 DEF Put
  <2>5. DOMAIN cache' = DOMAIN cache \cup {key} /\ cache'[key] = name
        /\ \A k \in DOMAIN cache : cache'[k] = cache[k]
    BY <1>11 DEF Put
  <2>6. name \in DOMAIN global' /\ global'[name] = <<m, name>>
        /\ \A y \in DOMAIN global : y # name => y \in DOMAIN global' /\ global'[y] = global[y]
    BY <1>11 DEF Put
  <2>7. \A y \in Own(m) : y \in DOMAIN symbols[m] /\ y # name
    BY <1>2, <1>7, <2>1 DEF Known, SoundInv, SymbolsInv
  <2>8. CacheMeans'
    <3> SUFFICES ASSUME NEW k \in DOMAIN cache'
                 PROVE  /\ k[1] \in DOMAIN symbols' /\ cache'[k] \in DOMAIN symbols'[k[1]] /\ Len(cache'[k]) \notin {0, 1}
                        /\ InstanceMeans(symbols'[k[1]][cache'[k]], k[2], k[3])
                        /\ cache'[k] \in DOMAIN global' /\ global'[cache'[k]] = <<k[1], cache'[k]>>
      BY <1>1, <1>4 DEF CacheMeans, Late
    <3>1. CASE k = key
      <4>1. k[1] = m /\ k[2] = b.to /\ k[3] = b.arg
        BY <3>1 DEF key
      <4>2. InstanceMeans(InstanceBody(g, b), b.to, b.arg)
        BY <1>2, InstanceBodies DEF g
      <4> QED
        BY <1>2, <2>1, <2>3, <2>4, <2>5, <2>6, <3>1, <4>1, <4>2
    <3>2. CASE k # key
      <4>1. k \in DOMAIN cache /\ cache'[k] = cache[k] /\ cache[k] # name
        BY <2>1, <2>5, <3>2
      <4>2. /\ k[1] \in DOMAIN symbols /\ cache[k] \in DOMAIN symbols[k[1]] /\ Len(cache[k]) \notin {0, 1}
            /\ InstanceMeans(symbols[k[1]][cache[k]], k[2], k[3])
            /\ cache[k] \in DOMAIN global /\ global[cache[k]] = <<k[1], cache[k]>>
        BY <1>2, <4>1 DEF MeansInv, CacheMeans
      <4>3. cache[k] # n
        BY <1>2, <1>6, <1>7, <1>11, <4>2
      <4>4. cache[k] \in DOMAIN symbols'[k[1]] /\ symbols'[k[1]][cache[k]] = symbols[k[1]][cache[k]]
        <5>1. CASE k[1] = m
          BY <2>2, <2>4, <4>1, <4>2, <4>3, <5>1
        <5>2. CASE k[1] # m
          BY <2>3, <4>2, <5>2
        <5> QED
          BY <5>1, <5>2
      <4> QED
        BY <2>3, <2>6, <4>1, <4>2, <4>4
    <3> QED
      BY <3>1, <3>2
  <2>9. /\ symbols'[m][n] = Body("ref", "", name, Nothing)
        /\ \A y \in Own(m) : y # n => symbols'[m][y] = symbols[m][y]
    BY <1>6, <1>11, <2>2, <2>4, <2>7
  <2> QED
    BY <1>9, <1>11, <2>3, <2>5, <2>8, <2>9
<1> QED
  BY <1>1, <1>8, <1>10, <1>11

\* As long as nothing is wrong, and no two modules use one name for two things.
SenseInv == errors = {} /\ ~Collisions => MeansInv

LEMMA SenseInit == Init => SenseInv
<1> SUFFICES ASSUME Init PROVE MeansInv
  BY DEF SenseInv
<1>1. DOMAIN cache = {} /\ DOMAIN symbols = {}
  BY EmptyDomain DEF Init
<1> QED
  BY <1>1 DEF MeansInv, CacheMeans

LEMMA SenseNext ==
    ASSUME NamesInv, TablesInv, SenseInv, [Next]_vars
    PROVE  SenseInv'
<1> SUFFICES ASSUME errors' = {}, ~Collisions' PROVE MeansInv'
  BY DEF SenseInv
<1>1. UNCHANGED Input
  BY DEF Next, vars, Collect, OwnNames, ResolveImport, EndImports, ResolveTypes, ResolveFields, Instantiate,
         NextModule, ResolveValues
<1>2. errors = {} /\ ~Collisions
  <2>1. errors \subseteq errors'
    <3>1. CASE Next
      BY <3>1, ErrorsGrow
    <3>2. CASE UNCHANGED vars
      BY <3>2 DEF vars
    <3> QED
      BY <3>1, <3>2
  <2>2. AllDefs' = AllDefs
    BY <1>1, TextIsFixed
  <2> QED
    BY <2>1, <2>2 DEF Collisions
<1>3. Grounds
  BY <1>2 DEF Grounds, SenseInv, TablesInv, Known
<1>4. CASE Next
  BY <1>3, <1>4, CollectMeans, OthersMean, ResolveFieldsMeans, InstantiateMeans, NextModuleMeans,
     ResolveValuesMeans DEF Next
<1>5. CASE UNCHANGED vars
  <2>1. UNCHANGED <<Input, symbols, cache>> /\ global' = global /\ pc' = pc /\ i' = i /\ queue' = queue
    BY <1>5 DEF vars
  <2>2. program' = program
    BY <1>1, MeansFixed
  <2>3. \A m : FieldsDone(m)' => FieldsDone(m)
    BY <2>1, <2>2 DEF FieldsDone
  <2>4. \A m, n : InstancesDone(m, n)' => InstancesDone(m, n)
    BY <2>1, <2>2 DEF InstancesDone
  <2> QED
    BY <1>3, <2>1, <2>3, <2>4, MeansStay
<1> QED
  BY <1>4, <1>5

-----------------------------------------------------------------------------
(* The chain the code follows, and the chain of the text.                  *)

LEMMA NotNone ==
    ASSUME NEW a, NEW n, Len(n) # 0
    PROVE  <<a, n>> # None
<1>1. <<a, n>> = None => n = <<>>
  BY DEF None, Nothing
<1>2. Len(<<>>) = 0
  OBVIOUS
<1> QED
  BY <1>1, <1>2

\* A reference, and one that names no module.
Ref(b, mod, to) == b.is = "ref" /\ b.mod = mod /\ b.to = to
Unqualified == ""
Qualified(mod) == mod # ""

LEMMA RefBody ==
    \A mod, to : /\ Ref(Body("ref", mod, to, Nothing), mod, to)
                 /\ Ref(Body("ref", "", to, Nothing), Unqualified, to)
BY DEF Body, Ref, Unqualified

\* A name that the text declares is a definition of the module it names.
LEMMA DeclaredIsWritten ==
    ASSUME NEW m, NEW mod, NEW n, Declared(m, mod, n) # None
    PROVE  \E a \in Names : n \in Own(a) /\ Declared(m, mod, n) = <<a, n>> /\ (Qualified(mod) => a = mod)
<1> DEFINE clauses == {k \in 1..Len(FileOf(m).imports) : n \in ToSet(FileOf(m).imports[k].names)}
           sources == {Source(FileOf(m).imports[k]) : k \in clauses}
           s == CHOOSE x \in sources : Written(x, n)
<1>1. Declared(m, mod, n) =
        IF mod # "" THEN IF Written(mod, n) THEN <<mod, n>> ELSE None
        ELSE IF Written(m, n) THEN <<m, n>>
        ELSE IF \E x \in sources : Written(x, n) THEN <<s, n>> ELSE None
  BY DEF Declared
<1>2. (\E x \in sources : Written(x, n)) => Written(s, n)
  <2> HIDE DEF sources
  <2> QED
    OBVIOUS
<1> HIDE DEF sources, s
<1> QED
  BY <1>1, <1>2 DEF Written, Qualified

\* A reference that says what the text says leads where the text says, from
\* whatever module it is followed.
LEMMA HopLeads ==
    ASSUME Final, NEW x, NEW sc, IsRef(x), NEW m,
           Declared(m, BodyOf(x).mod, BodyOf(x).to) # None
    PROVE  \E sc1 : Hop(<<x, sc>>) = <<Declared(m, BodyOf(x).mod, BodyOf(x).to), sc1>>
<1> DEFINE mod == BodyOf(x).mod
           to == BodyOf(x).to
<1>1. PICK a \in Names : to \in Own(a) /\ Declared(m, mod, to) = <<a, to>> /\ (Qualified(mod) => a = mod)
  BY DeclaredIsWritten
<1>2. Len(to) = 1
  BY <1>1, TextFacts DEF Final, Settled, Known
<1>3. Direct(to, sc) = <<a, to>>
  BY <1>1, <1>2, OneMeaning DEF Final
<1>4. Defined(a, to)
  BY <1>1 DEF Defined, Final, Settled, Known, SoundInv, SymbolsInv
<1>5. Hop(<<x, sc>>) = IF mod # "" THEN <<IF Defined(mod, to) THEN <<mod, to>> ELSE None, mod>>
                       ELSE <<Direct(to, sc), sc>>
  BY DEF Hop, IsRef
<1> HIDE DEF mod, to
<1> QED
  BY <1>1, <1>3, <1>4, <1>5 DEF mod, to, Qualified

\* A link of the text, from a definition, is one the code follows, or two.
LEMMA LinkIsFollowed ==
    ASSUME Final, MeansInv, NEW m \in Names, NEW n \in Own(m), NEW sc,
           Meant(<<m, n>>) # None
    PROVE  \/ Meant(<<m, n>>) = <<m, n>> /\ ~IsRef(<<m, n>>)
           \/ \E sc1 : Hop(<<<<m, n>>, sc>>) = <<Meant(<<m, n>>), sc1>>
           \/ \E sc1 : Hop(Hop(<<<<m, n>>, sc>>)) = <<Meant(<<m, n>>), sc1>>
<1> DEFINE t == Text(<<m, n>>)
           b == symbols[m][n]
           g == Declared(m, t.mod, t.to)
           u == Text(g)
           e == Meant(<<m, n>>)
<1>1. /\ Settled /\ Known /\ pc = "codegen" /\ DOMAIN symbols = Names
      /\ FieldsDone(m) /\ InstancesDone(m, n)
  BY DEF Final, Settled, Known, SoundInv, SymbolsInv, FieldsDone, InstancesDone, Late
<1>2. Kept(m, n, t, b)
  BY <1>1 DEF MeansInv
<1>3. b = BodyOf(<<m, n>>)
  BY DEF BodyOf
<1>4. <<m, n>> # None
  <2>1. Len(n) = 1
    BY <1>1, TextFacts DEF Known
  <2> QED
    BY <2>1, NotNone
<1>5. /\ t.is = "ref" => e = g
      /\ t.is = "field" => /\ g # None /\ u.is = "class" /\ u.to # Nothing
                           /\ e = Declared(g[1], "", u.to)
      /\ t.is = "inst" => /\ g # None /\ u.is = "generic"
                          /\ e = IF u.to = Formal THEN Declared(m, t.arg.mod, t.arg.to)
                                 ELSE Declared(g[1], "", u.to)
      /\ t.is \notin {"ref", "field", "inst"} => e = <<m, n>>
  BY DEF Meant
<1>6. g # None => \E a \in Names : t.to \in Own(a) /\ g = <<a, t.to>>
  <2> DEFINE mod == t.mod
             to == t.to
  <2> HIDE DEF t, mod, to
  <2>1. Declared(m, mod, to) # None => \E a \in Names : to \in Own(a) /\ Declared(m, mod, to) = <<a, to>>
    BY DeclaredIsWritten
  <2> QED
    BY <2>1 DEF mod, to
<1>7. CASE t.is \notin {"ref", "field", "inst"}
  <2>1. b = t
    BY <1>2, <1>7 DEF Kept, Plain
  <2>2. ~IsRef(<<m, n>>)
    BY <1>3, <1>7, <2>1 DEF IsRef
  <2> QED
    BY <1>5, <1>7, <2>2
<1>8. CASE t.is = "ref"
  <2>1. b = t
    BY <1>2, <1>8 DEF Kept, Plain
  <2>2. IsRef(<<m, n>>)
    BY <1>3, <1>4, <1>8, <2>1 DEF IsRef
  <2>3. e = Declared(m, BodyOf(<<m, n>>).mod, BodyOf(<<m, n>>).to)
    BY <1>3, <1>5, <1>8, <2>1
  <2> QED
    BY <2>2, <2>3, HopLeads
<1>9. CASE t.is = "field"
  <2>1. FieldMeans(t, b)
    BY <1>1, <1>2, <1>9 DEF Kept, Refielded
  <2>2. PICK a \in Names : t.to \in Own(a) /\ g = <<a, t.to>>
    BY <1>5, <1>6, <1>9
  <2>3. u.is = "class" /\ u.to # Nothing
    BY <1>5, <1>9
  <2>4. b = Body("ref", "", u.to, Nothing)
    BY <2>1, <2>2, <2>3 DEF FieldMeans
  <2> DEFINE to == u.to
             from == g[1]
  <2>5. e = Declared(from, "", to)
    BY <1>5, <1>9
  <2> HIDE DEF t, b, g, u, e, to, from
  <2>6. b = Body("ref", "", to, Nothing)
    BY <2>4 DEF to
  <2>7. Ref(b, Unqualified, to)
    BY <2>6, RefBody
  <2>8. IsRef(<<m, n>>)
    BY <1>3, <1>4, <2>7 DEF IsRef, Ref
  <2>9. e = Declared(from, BodyOf(<<m, n>>).mod, BodyOf(<<m, n>>).to)
    BY <1>3, <2>5, <2>7 DEF Ref, Unqualified
  <2> QED
    BY <2>8, <2>9, HopLeads DEF e
<1>10. CASE t.is = "inst"
  <2>1. PICK a \in Names : t.to \in Own(a) /\ g = <<a, t.to>>
    BY <1>5, <1>6, <1>10
  <2>2. IsGeneric(a, t.to) /\ u = Text(<<a, t.to>>)
    BY <1>5, <1>10, <2>1 DEF IsGeneric
  <2>3. Replaced(m, t, b)
    BY <1>1, <1>2, <1>10, <2>2 DEF Kept, Instanced
  <2> DEFINE key == <<m, t.to, t.arg>>
             name == cache[key]
             new == <<m, name>>
             c == symbols[m][name]
  <2>4. key \in DOMAIN cache /\ b = Body("ref", "", name, Nothing)
    BY <2>3 DEF Replaced
  <2>5. /\ m \in DOMAIN symbols /\ name \in DOMAIN symbols[m] /\ Len(name) \notin {0, 1}
        /\ InstanceMeans(c, t.to, t.arg) /\ name \in DOMAIN global /\ global[name] = new
    BY <2>4 DEF MeansInv, CacheMeans
  <2>6. ~(sc \in DOMAIN scope /\ name \in DOMAIN scope[sc])
    <3>1. ASSUME sc \in DOMAIN scope, name \in DOMAIN scope[sc] PROVE FALSE
      <4>1. PICK from \in Names : name \in Own(from)
        BY <1>1, <3>1 DEF Known, SoundInv, ScopesInv, LeadsToText
      <4> QED
        BY <1>1, <2>5, <4>1, TextFacts DEF Known
    <3> QED
      BY <3>1
  <2>7. Direct(name, sc) = new
    BY <2>5, <2>6 DEF Direct
  <2>8. c = IF u.to = Formal THEN Body("ref", t.arg.mod, t.arg.to, Nothing)
            ELSE Body("ref", "", u.to, Nothing)
    BY <2>2, <2>5 DEF InstanceMeans
  <2>9. e = IF u.to = Formal THEN Declared(m, t.arg.mod, t.arg.to) ELSE Declared(g[1], "", u.to)
    BY <1>5, <1>10
  <2>10. BodyOf(new) = c
    BY DEF BodyOf
  <2>11. new # None
    BY <2>5, NotNone
  <2> HIDE DEF t, b, g, u, name, key, c
  <2>12. Ref(b, Unqualified, name)
    BY <2>4, RefBody
  <2>13. Hop(<<<<m, n>>, sc>>) = <<new, sc>>
    <3>1. IsRef(<<m, n>>)
      BY <1>3, <1>4, <2>12 DEF IsRef, Ref
    <3> QED
      BY <1>3, <1>4, <2>7, <2>12, <3>1 DEF Hop, Ref, Unqualified
  <2>14. c.is = "ref" /\ \E from : e = Declared(from, c.mod, c.to)
    <3>1. CASE u.to = Formal
      <4>1. Ref(c, t.arg.mod, t.arg.to)
        BY <2>8, <3>1, RefBody
      <4> QED
        BY <2>9, <3>1, <4>1 DEF Ref
    <3>2. CASE u.to # Formal
      <4>1. Ref(c, Unqualified, u.to)
        BY <2>8, <3>2, RefBody
      <4> QED
        BY <2>9, <3>2, <4>1 DEF Ref, Unqualified
    <3> QED
      BY <3>1, <3>2
  <2>15. IsRef(new)
    BY <2>10, <2>11, <2>14 DEF IsRef
  <2> HIDE DEF e, new
  <2>16. \E sc1 : Hop(<<new, sc>>) = <<e, sc1>>
    <3>1. PICK from : e = Declared(from, BodyOf(new).mod, BodyOf(new).to)
      BY <2>10, <2>14
    <3>2. e # None
      BY DEF e
    <3> QED
      BY <2>15, <3>1, <3>2, HopLeads
  <2> QED
    BY <2>13, <2>16 DEF e
<1> QED
  BY <1>7, <1>8, <1>9, <1>10

\* The chain of the text, and the walk along what the code made of it.
Path(x, N, f) == f[0] = x /\ \A k \in 0..(N - 1) : f[k + 1] = Onwards(f[k])
Walk(at, N, h) == h[0] = at /\ \A k \in 0..(N - 1) : h[k + 1] = Hop(h[k])

\* The turns that Repeat takes, along each.
PathTurns(start, n, f) == f = [k \in 0..n |-> IF k = 0 THEN start ELSE Onwards(f[k - 1])]
WalkTurns(start, n, f) == f = [k \in 0..n |-> IF k = 0 THEN start ELSE Hop(f[k - 1])]

LEMMA PathTurnsExist ==
    ASSUME NEW start, NEW N \in Nat
    PROVE  \E f : PathTurns(start, N, f)
<1> DEFINE S == {n \in Nat : \E f : PathTurns(start, n, f)}
<1>1. 0 \in S
  <2>1. PathTurns(start, 0, [k \in 0..0 |-> start])
    BY DEF PathTurns
  <2> QED
    BY <2>1
<1>2. ASSUME NEW n \in Nat, n \in S PROVE n + 1 \in S
  <2>1. PICK f : PathTurns(start, n, f)
    BY <1>2
  <2> DEFINE g == [k \in 0..(n + 1) |-> IF k <= n THEN f[k] ELSE Onwards(f[n])]
             h == [k \in 0..(n + 1) |-> IF k = 0 THEN start ELSE Onwards(g[k - 1])]
  <2>2. \A k \in 0..n : f[k] = IF k = 0 THEN start ELSE Onwards(f[k - 1])
    BY <2>1 DEF PathTurns
  <2>3. ASSUME NEW k \in 0..(n + 1) PROVE g[k] = h[k]
    <3>1. CASE k <= n
      BY <2>2, <3>1
    <3>2. CASE k = n + 1
      BY <3>2
    <3> QED
      BY <3>1, <3>2
  <2>4. g = h
    BY <2>3
  <2>5. PathTurns(start, n + 1, g)
    <3> HIDE DEF g
    <3> QED
      BY <2>4 DEF PathTurns
  <2> QED
    BY <2>5
<1>3. Nat \subseteq S
  <2> HIDE DEF S
  <2> QED
    BY <1>1, <1>2, Inductive
<1> QED
  BY <1>3

LEMMA WalkTurnsExist ==
    ASSUME NEW start, NEW N \in Nat
    PROVE  \E f : WalkTurns(start, N, f)
<1> DEFINE S == {n \in Nat : \E f : WalkTurns(start, n, f)}
<1>1. 0 \in S
  <2>1. WalkTurns(start, 0, [k \in 0..0 |-> start])
    BY DEF WalkTurns
  <2> QED
    BY <2>1
<1>2. ASSUME NEW n \in Nat, n \in S PROVE n + 1 \in S
  <2>1. PICK f : WalkTurns(start, n, f)
    BY <1>2
  <2> DEFINE g == [k \in 0..(n + 1) |-> IF k <= n THEN f[k] ELSE Hop(f[n])]
             h == [k \in 0..(n + 1) |-> IF k = 0 THEN start ELSE Hop(g[k - 1])]
  <2>2. \A k \in 0..n : f[k] = IF k = 0 THEN start ELSE Hop(f[k - 1])
    BY <2>1 DEF WalkTurns
  <2>3. ASSUME NEW k \in 0..(n + 1) PROVE g[k] = h[k]
    <3>1. CASE k <= n
      BY <2>2, <3>1
    <3>2. CASE k = n + 1
      BY <3>2
    <3> QED
      BY <3>1, <3>2
  <2>4. g = h
    BY <2>3
  <2>5. WalkTurns(start, n + 1, g)
    <3> HIDE DEF g
    <3> QED
      BY <2>4 DEF WalkTurns
  <2> QED
    BY <2>5
<1>3. Nat \subseteq S
  <2> HIDE DEF S
  <2> QED
    BY <1>1, <1>2, Inductive
<1> QED
  BY <1>3

LEMMA PathOf ==
    ASSUME NEW x, NEW N \in Nat
    PROVE  \E f : Path(x, N, f) /\ Repeat(Onwards, N, x) = f[N]
<1> DEFINE f == CHOOSE g : PathTurns(x, N, g)
<1>1. PathTurns(x, N, f)
  <2>1. \E g : PathTurns(x, N, g)
    BY PathTurnsExist
  <2> QED
    BY <2>1
<1>2. Repeat(Onwards, N, x) = f[N]
  BY DEF Repeat, PathTurns
<1> HIDE DEF f
<1>3. \A k \in 0..N : f[k] = IF k = 0 THEN x ELSE Onwards(f[k - 1])
  BY <1>1 DEF PathTurns
<1>4. ASSUME NEW k \in 0..(N - 1) PROVE f[k + 1] = Onwards(f[k])
  <2>1. k + 1 \in 0..N /\ k + 1 # 0 /\ (k + 1) - 1 = k
    OBVIOUS
  <2> QED
    BY <1>3, <2>1
<1>5. 0 \in 0..N
  OBVIOUS
<1>6. Path(x, N, f)
  BY <1>3, <1>4, <1>5 DEF Path
<1> QED
  BY <1>2, <1>6

LEMMA WalkOf ==
    ASSUME NEW at, NEW N \in Nat
    PROVE  \E h : Walk(at, N, h) /\ Repeat(Hop, N, at) = h[N]
<1> DEFINE h == CHOOSE g : WalkTurns(at, N, g)
<1>1. WalkTurns(at, N, h)
  <2>1. \E g : WalkTurns(at, N, g)
    BY WalkTurnsExist
  <2> QED
    BY <2>1
<1>2. Repeat(Hop, N, at) = h[N]
  BY DEF Repeat, WalkTurns
<1> HIDE DEF h
<1>3. \A k \in 0..N : h[k] = IF k = 0 THEN at ELSE Hop(h[k - 1])
  BY <1>1 DEF WalkTurns
<1>4. ASSUME NEW k \in 0..(N - 1) PROVE h[k + 1] = Hop(h[k])
  <2>1. k + 1 \in 0..N /\ k + 1 # 0 /\ (k + 1) - 1 = k
    OBVIOUS
  <2> QED
    BY <1>3, <2>1
<1>5. 0 \in 0..N
  OBVIOUS
<1>6. Walk(at, N, h)
  BY <1>3, <1>4, <1>5 DEF Walk
<1> QED
  BY <1>2, <1>6

\* Two paths from one definition agree as far as both go.
LEMMA PathsAgree ==
    ASSUME NEW x, NEW N \in Nat, NEW M \in Nat, NEW f, NEW g, Path(x, N, f), Path(x, M, g),
           NEW k \in Nat, k <= N, k <= M
    PROVE  f[k] = g[k]
<1> DEFINE S == {j \in Nat : j <= N /\ j <= M => f[j] = g[j]}
<1>1. 0 \in S
  BY DEF Path
<1>2. ASSUME NEW j \in Nat, j \in S PROVE j + 1 \in S
  <2> SUFFICES ASSUME j + 1 <= N, j + 1 <= M PROVE f[j + 1] = g[j + 1]
    OBVIOUS
  <2>1. j \in 0..(N - 1) /\ j \in 0..(M - 1) /\ f[j] = g[j]
    BY <1>2
  <2> QED
    BY <2>1 DEF Path
<1>3. Nat \subseteq S
  <2> HIDE DEF S
  <2> QED
    BY <1>1, <1>2, Inductive
<1> QED
  BY <1>3

\* A path that ends, or is lost, stays where it is.
LEMMA PathStays ==
    ASSUME NEW x, NEW N \in Nat, NEW f, Path(x, N, f), NEW k \in 0..N, Ends(f[k]) \/ f[k] = None
    PROVE  f[N] = f[k]
<1>1. Onwards(f[k]) = f[k]
  BY DEF Onwards, Ends, Meant
<1> QED
  BY <1>1, Still DEF Path

\* A near meaning is the end of a path of 31 links.
LEMMA NearPath ==
    ASSUME NEW id, Links \in Nat, Meaning(id) # None, Near(id)
    PROVE  \E f : Path(id, 31, f) /\ f[31] = Meaning(id) /\ Ends(f[31])
<1>1. PICK f : Path(id, 31, f) /\ Repeat(Onwards, 31, id) = f[31]
  BY PathOf
<1>2. PICK g : Path(id, Links, g) /\ Repeat(Onwards, Links, id) = g[Links]
  BY PathOf
<1>3. Ends(f[31])
  BY <1>1 DEF Near
<1>4. Ends(g[Links]) /\ Meaning(id) = g[Links]
  BY <1>2 DEF Meaning
<1>5. f[31] = g[Links]
  <2> DEFINE L == Links
  <2>1. L \in Nat
    OBVIOUS
  <2>2. Path(id, L, g) /\ Ends(g[L])
    BY <1>2, <1>4
  <2> HIDE DEF L
  <2>3. CASE 31 <= L
    <3>1. 31 \in 0..L /\ f[31] = g[31]
      BY <1>1, <2>1, <2>2, <2>3, PathsAgree
    <3>2. g[L] = g[31]
      BY <1>3, <2>1, <2>2, <3>1, PathStays
    <3> QED
      BY <3>1, <3>2 DEF L
  <2>4. CASE L < 31
    <3>1. L \in 0..31 /\ f[L] = g[L]
      BY <1>1, <2>1, <2>2, <2>4, PathsAgree
    <3>2. f[31] = f[L]
      BY <1>1, <2>2, <3>1, PathStays
    <3> QED
      BY <3>1, <3>2 DEF L
  <2> QED
    BY <2>1, <2>3, <2>4
<1> QED
  BY <1>1, <1>3, <1>4, <1>5

LEMMA MeantIsWritten ==
    ASSUME NEW m \in Names, NEW n \in Own(m), Meant(<<m, n>>) # None
    PROVE  \E a \in Names : \E x \in Own(a) : Meant(<<m, n>>) = <<a, x>>
<1>1. \A k, mod, x : Declared(k, mod, x) # None => \E a \in Names : \E y \in Own(a) : Declared(k, mod, x) = <<a, y>>
  BY DeclaredIsWritten
<1>2. \/ Meant(<<m, n>>) = <<m, n>>
      \/ \E k, mod, x : Meant(<<m, n>>) = Declared(k, mod, x)
  BY DEF Meant
<1>3. CASE Meant(<<m, n>>) = <<m, n>>
  BY <1>3
<1>4. CASE \E k, mod, x : Meant(<<m, n>>) = Declared(k, mod, x)
  <2>1. PICK k, mod, x : Meant(<<m, n>>) = Declared(k, mod, x)
    BY <1>4
  <2>2. \E a \in Names : \E y \in Own(a) : Declared(k, mod, x) = <<a, y>>
    BY <1>1, <2>1
  <2> QED
    BY <2>1, <2>2
<1> QED
  BY <1>2, <1>3, <1>4

\* At an end of the text the code has come to an end too.
LEMMA EndIsNoRef ==
    ASSUME Final, MeansInv, NEW m \in Names, NEW n \in Own(m), Ends(<<m, n>>)
    PROVE  ~IsRef(<<m, n>>)
<1>1. Kept(m, n, Text(<<m, n>>), symbols[m][n])
  BY DEF MeansInv, Final, Settled, Known, SoundInv, SymbolsInv
<1>2. symbols[m][n] = Text(<<m, n>>)
  BY <1>1 DEF Kept, Plain, Ends
<1> QED
  BY <1>2 DEF IsRef, BodyOf, Ends

\* The walk has come, before its last turn, to where the path ends.
KeptUp(f, h) == \E a \in Names : \E x \in Own(a) : \E sc : \E j \in 0..62 :
                    f[31] = <<a, x>> /\ h[j] = <<<<a, x>>, sc>>

\* Within 2k turns it has been where the path is after k links.
LEMMA WalkKeepsUp ==
    ASSUME Final, MeansInv, NEW m \in Names, NEW n \in Own(m),
           NEW f, Path(<<m, n>>, 31, f), \A k \in 0..31 : f[k] # None,
           NEW h, Walk(<<<<m, n>>, m>>, 63, h)
    PROVE  KeptUp(f, h)
<1> DEFINE There(k) == \E a \in Names : \E x \in Own(a) : \E sc : \E j \in 0..(2 * k) :
                         f[k] = <<a, x>> /\ h[j] = <<<<a, x>>, sc>>
           S == {k \in Nat : k <= 31 => There(k)}
<1>1. 0 \in S
  <2>1. f[0] = <<m, n>> /\ h[0] = <<<<m, n>>, m>> /\ 0 \in 0..(2 * 0)
    BY DEF Path, Walk
  <2> QED
    BY <2>1
<1>2. ASSUME NEW k \in Nat, k \in S PROVE k + 1 \in S
  <2> SUFFICES ASSUME k + 1 <= 31 PROVE There(k + 1)
    <3> HIDE DEF There
    <3> QED
      OBVIOUS
  <2>1. k \in 0..30 /\ k + 1 \in 0..31 /\ k <= 31
    OBVIOUS
  <2>2. There(k)
    <3> HIDE DEF There
    <3> QED
      BY <1>2, <2>1
  <2>3. PICK a \in Names : \E x \in Own(a) : \E sc : \E j \in 0..(2 * k) :
                            f[k] = <<a, x>> /\ h[j] = <<<<a, x>>, sc>>
    BY <2>2
  <2>4. PICK x \in Own(a) : \E sc : \E j \in 0..(2 * k) :
                            f[k] = <<a, x>> /\ h[j] = <<<<a, x>>, sc>>
    BY <2>3
  <2>5. PICK j \in 0..(2 * k) : \E sc : f[k] = <<a, x>> /\ h[j] = <<<<a, x>>, sc>>
    BY <2>4
  <2>6. f[k + 1] = Meant(<<a, x>>) /\ Meant(<<a, x>>) # None
    <3>1. f[k + 1] = Onwards(f[k]) /\ f[k] # None /\ f[k + 1] # None
      BY <2>1 DEF Path
    <3> QED
      BY <2>5, <3>1 DEF Onwards
  <2>7. \E b \in Names : \E y \in Own(b) : f[k + 1] = <<b, y>>
    BY <2>4, <2>6, MeantIsWritten
  <2>8. /\ j \in 0..(2 * (k + 1)) /\ j + 1 \in 0..(2 * (k + 1)) /\ (j + 1) + 1 \in 0..(2 * (k + 1))
        /\ j \in 0..62 /\ j + 1 \in 0..62
    BY <2>1
  <2>9. h[j + 1] = Hop(h[j]) /\ h[(j + 1) + 1] = Hop(h[j + 1])
    BY <2>8 DEF Walk
  <2>10. \/ \E sc1 : h[j] = <<f[k + 1], sc1>>
         \/ \E sc1 : h[j + 1] = <<f[k + 1], sc1>>
         \/ \E sc1 : h[(j + 1) + 1] = <<f[k + 1], sc1>>
    BY <2>4, <2>5, <2>6, <2>9, LinkIsFollowed
  <2> QED
    BY <2>7, <2>8, <2>10
<1>3. 31 \in S
  <2>1. Nat \subseteq S
    <3> HIDE DEF S
    <3> QED
      BY <1>1, <1>2, Inductive
  <2> HIDE DEF S
  <2> QED
    BY <2>1
<1>4. There(31)
  <2> HIDE DEF There
  <2> QED
    BY <1>3
<1>5. 0..(2 * 31) = 0..62
  OBVIOUS
<1> QED
  BY <1>4, <1>5 DEF KeptUp

LEMMA InvMeans == NamesInv /\ TablesInv /\ SenseInv => NamesKeepTheirMeaning
<1> SUFFICES ASSUME NamesInv, TablesInv, SenseInv, pc = "codegen", ~Collisions,
                    NEW id \in AllDefs, Meaning(id) # None, Near(id)
             PROVE  Found(id) = Meaning(id)
  BY DEF NamesKeepTheirMeaning, TypeDefs
<1>1. Final /\ MeansInv /\ program \in Programs
  BY DEF Final, Settled, Known, TablesInv, SenseInv
<1>2. PICK m \in Names : \E n \in Own(m) : id = <<m, n>>
  BY DEF AllDefs
<1>3. PICK n \in Own(m) : id = <<m, n>>
  BY <1>2
<1>4. PICK f : Path(id, 31, f) /\ f[31] = Meaning(id) /\ Ends(f[31])
  BY <1>1, NearPath, TextIsFinite
<1>5. ASSUME NEW k \in 0..31, f[k] = None PROVE FALSE
  BY <1>4, <1>5, PathStays DEF Ends
<1>6. PICK h : Walk(<<id, m>>, 63, h) /\ Repeat(Hop, 63, <<id, m>>) = h[63]
  BY WalkOf
<1>7. PICK a \in Names : \E x \in Own(a) : \E sc : \E j \in 0..62 :
                          f[31] = <<a, x>> /\ h[j] = <<<<a, x>>, sc>>
  <2>1. Path(<<m, n>>, 31, f) /\ Walk(<<<<m, n>>, m>>, 63, h) /\ \A k \in 0..31 : f[k] # None
    BY <1>3, <1>4, <1>5, <1>6
  <2>2. KeptUp(f, h)
    BY <1>1, <2>1, WalkKeepsUp
  <2> QED
    BY <2>2 DEF KeptUp
<1>8. PICK x \in Own(a) : \E sc : \E j \in 0..62 : f[31] = <<a, x>> /\ h[j] = <<<<a, x>>, sc>>
  BY <1>7
<1>9. PICK j \in 0..62 : \E sc : f[31] = <<a, x>> /\ h[j] = <<<<a, x>>, sc>>
  BY <1>8
<1>10. ~IsRef(<<a, x>>)
  BY <1>1, <1>4, <1>8, <1>9, EndIsNoRef
<1>11. Hop(h[j]) = h[j]
  BY <1>9, <1>10 DEF Hop
<1>12. h[63] = h[j]
  BY <1>6, <1>11, Still DEF Walk
<1>13. FollowAliases(id, m) = <<a, x>>
  BY <1>6, <1>9, <1>10, <1>12 DEF FollowAliases
<1> QED
  BY <1>3, <1>4, <1>9, <1>13 DEF Found

\* Resolver.hpp: whatever the schema, the order of its files and of its
\* definitions, once the checks have passed every definition is what its text
\* says, through imports, class fields and instances of parameterised types,
\* as long as no two modules use one name for two things and no chain is
\* longer than 31 links.
THEOREM NamesMean == Spec => []NamesKeepTheirMeaning
<1>1. Init => NamesInv /\ TablesInv /\ SenseInv
  BY InvInit, TablesInit, SenseInit
<1>2. NamesInv /\ TablesInv /\ SenseInv /\ [Next]_vars => NamesInv' /\ TablesInv' /\ SenseInv'
  BY InvNext, TablesNext, SenseNext
<1> QED
  BY <1>1, <1>2, InvMeans, PTL DEF Spec
=============================================================================
