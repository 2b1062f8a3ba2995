---------------------------- MODULE BerProjection ----------------------------
(***************************************************************************)
(* BerProjection and BerProjectionResult of the C++ runtime                *)
(* (runtime/src/BerProjection.cpp): field paths are compiled into a trie   *)
(* of tags, which is sealed and shared by all threads; every thread walks  *)
(* it beside the TLVs of its own frames, decodes the fields it meets into  *)
(* bound optionals, and may write one back in place.                       *)
(*                                                                         *)
(* A place in a frame is named by the path of the field its sender put     *)
(* there.  The code never sees that name: it sees the place's tag.  One    *)
(* component of a path and one TLV of a frame are a step each, so walks of *)
(* several threads interleave.                                             *)
(***************************************************************************)
EXTENDS Naturals, Sequences, FiniteSets, SequencesExt

CONSTANTS
    Thread,
    Target,     \* optionals of one thread
    Name,       \* member and alternative names
    Sent,       \* places a sender may fill: sequences of names
    Field,      \* those the descriptors of this program know
    TagOf,      \* TagOf[c]: the outer tag at place c
    Asked,      \* paths the program tries to register
    Frame,      \* frames received: a layout, which maps a place to the members
                \* there in order, and the places that are broken: malformed or
                \* of indefinite length, BerCursor stops there
    Content,    \* Content[f]: what each place of f holds
    Value,      \* field contents
    Bad,        \* those that do not decode
    Size,       \* Size[v]: bytes of v
    None

Parent(c) == SubSeq(c, 1, Len(c) - 1)
Siblings(c, d) == Len(c) = Len(d) /\ Parent(c) = Parent(d)

ASSUME PlaceAssumption ==
    /\ Sent \subseteq Seq(Name) \ {<<>>} /\ Field \subseteq Sent
    /\ Asked \subseteq Seq(Name) \ {<<>>} /\ IsFiniteSet(Asked)
    /\ None \notin Sent
\* A frame's layout puts places below a place.
ASSUME FrameAssumption ==
    \A f \in Frame :
        /\ \A p \in DOMAIN f.layout : f.layout[p] \in Seq({c \in Sent : Parent(c) = p})
        /\ Content[f] \in [Sent -> Value]
ASSUME ValueAssumption == Bad \subseteq Value /\ None \notin Value

\* A frame, what its bytes hold now and whether commit may write to them.
Reading == [frame : Frame, val : [Sent -> Value], rw : BOOLEAN]
ASSUME NoneAssumption ==
    None \notin Target \cup Reading \cup [frame : Frame, val : [Sent -> Value]]

VARIABLES
    nodes,      \* the arena, nodes_[i] with its children; no two siblings have
                \* one tag, so the order of their chain makes no difference;
                \* nodes[1] stands for the root level
    paths,      \* paths_, leaf_count_ is its length
    adding,     \* the add_path call in progress, or None
    handles,    \* the handles returned: [registered paths -> slot index]
    finalized,  \* finalized_
    bound,      \* [Thread -> [Index -> Slot::binding]]
    slot,       \* [Thread -> [Index -> Slot::value_off, the place or None]]
    buffer,     \* [Thread -> the frame last applied and its bytes, or None]
    stack,      \* [Thread -> the nested walk() calls, innermost last]
    found,      \* [Thread -> found: leaves met by the apply in progress]
    hit,        \* [Thread -> the targets whose found flag is set]
    shown       \* [Thread -> [Target -> the value in the target]]

trieVars == <<nodes, paths, adding, handles, finalized>>
threadVars == <<bound, slot, buffer, stack, found, hit, shown>>
vars == <<trieVars, threadVars>>

Index == 1..Cardinality(Asked)
Place == Sent \cup {None}
MaybeValue == Value \cup {None}
Node == [field : Field \cup {<<>>}, kids : SUBSET Nat, index : Nat]

TypeOK ==
    /\ nodes \in Seq(Node)
    /\ paths \in Seq(Asked)
    /\ adding = None \/ adding \in [path : Asked, done : Nat, at : Nat]
    /\ DOMAIN handles \subseteq Asked /\ \A p \in DOMAIN handles : handles[p] \in Index
    /\ finalized \in BOOLEAN
    /\ bound \in [Thread -> [Index -> Target \cup {None}]]
    /\ slot \in [Thread -> [Index -> Place]]
    /\ \A t \in Thread :
          /\ buffer[t] # None => buffer[t] \in Reading
          /\ \A i \in DOMAIN stack[t] : stack[t][i].node \in DOMAIN nodes
    /\ found \in [Thread -> Nat]
    /\ hit \in [Thread -> SUBSET Target]
    /\ shown \in [Thread -> [Target -> MaybeValue]]

Init ==
    /\ nodes = << [field |-> <<>>, kids |-> {}, index |-> 0] >>
    /\ paths = <<>> /\ adding = None /\ handles = <<>> /\ finalized = FALSE
    /\ bound = [t \in Thread |-> [i \in Index |-> None]]
    /\ slot = [t \in Thread |-> [i \in Index |-> None]]
    /\ buffer = [t \in Thread |-> None]
    /\ stack = [t \in Thread |-> <<>>]
    /\ found = [t \in Thread |-> 0]
    /\ hit = [t \in Thread |-> {}]
    /\ shown = [t \in Thread |-> [x \in Target |-> None]]

-----------------------------------------------------------------------------
\* Mutant: any node of the arena with the tag will do, not a sibling only.
MatchingAnywhere(n, g) == {m \in 2..Len(nodes) : TagOf[nodes[m].field] = g}

\* The children of node n that a TLV with tag g matches: one at most.
Matching(n, g) == {m \in nodes[n].kids : TagOf[nodes[m].field] = g}
TheMatch(n, g) == CHOOSE m \in Matching(n, g) : TRUE

\* ensure_node: the node to use for member c below node n, and the arena with
\* that node in it.
NodeFor(n, c) ==
    IF Matching(n, TagOf[c]) # {} THEN TheMatch(n, TagOf[c]) ELSE Len(nodes) + 1

Ensured(n, c) ==
    IF Matching(n, TagOf[c]) # {} THEN nodes
    ELSE Append([nodes EXCEPT ![n].kids = @ \cup {Len(nodes) + 1}],
                [field |-> c, kids |-> {}, index |-> 0])

AddPath(p) ==
    /\ ~finalized /\ adding = None
    /\ adding' = [path |-> p, done |-> 0, at |-> 1]
    /\ UNCHANGED <<nodes, paths, handles, finalized, threadVars>>

\* The component names no member of the type reached: add_path throws, and the
\* nodes it made for the components before stay.
AddThrows ==
    /\ adding # None
    /\ SubSeq(adding.path, 1, adding.done + 1) \notin Field
    /\ adding' = None
    /\ UNCHANGED <<nodes, paths, handles, finalized, threadVars>>

AddInterior ==
    LET c == SubSeq(adding.path, 1, adding.done + 1)
    IN  /\ adding # None
        /\ c \in Field /\ c # adding.path
        /\ nodes' = Ensured(adding.at, c)
        /\ adding' = [adding EXCEPT !.done = @ + 1, !.at = NodeFor(adding.at, c)]
        /\ UNCHANGED <<paths, handles, finalized, threadVars>>

\* The last component: its node gets a slot unless it has one.
AddLeaf ==
    LET c == adding.path
        n == NodeFor(adding.at, c)
        arena == Ensured(adding.at, c)
        fresh == arena[n].index = 0
        i == IF fresh THEN Len(paths) + 1 ELSE arena[n].index
    IN  /\ adding # None
        /\ adding.done + 1 = Len(c) /\ c \in Field
        /\ nodes' = [arena EXCEPT ![n].index = i]
        /\ paths' = IF fresh THEN Append(paths, c) ELSE paths
        /\ handles' = [p \in DOMAIN handles \cup {c} |-> IF p = c THEN i ELSE handles[p]]
        /\ adding' = None
        /\ UNCHANGED <<finalized, threadVars>>

Finalize ==
    /\ ~finalized /\ adding = None
    /\ finalized' = TRUE
    /\ UNCHANGED <<nodes, paths, adding, handles, threadVars>>

-----------------------------------------------------------------------------
Idle(t) == stack[t] = <<>>
Unbound(t, x) == \A i \in Index : bound[t][i] # x

\* The program binds a target to one handle at a time.
Bind(t, p, x) ==
    /\ finalized /\ Idle(t)
    /\ \A i \in Index \ {handles[p]} : bound[t][i] # x
    /\ bound' = [bound EXCEPT ![t][handles[p]] = x]
    /\ UNCHANGED <<trieVars, slot, buffer, stack, found, hit, shown>>

ApplyKeepsHits(t, f, content, rw) ==
    /\ finalized /\ Idle(t)
    /\ buffer' = [buffer EXCEPT ![t] = [frame |-> f, val |-> content, rw |-> rw]]
    /\ slot' = [slot EXCEPT ![t] = [i \in Index |-> None]]
    /\ found' = [found EXCEPT ![t] = 0]
    /\ stack' = [stack EXCEPT ![t] = << [at |-> <<>>, next |-> 1, node |-> 1] >>]
    /\ UNCHANGED <<trieVars, bound, hit, shown>>

\* apply: forget the last frame, clear the bound targets, enter the root TLV.
Apply(t, f, content, rw) ==
    /\ finalized /\ Idle(t)
    /\ buffer' = [buffer EXCEPT ![t] = [frame |-> f, val |-> content, rw |-> rw]]
    /\ slot' = [slot EXCEPT ![t] = [i \in Index |-> None]]
    /\ hit' = [hit EXCEPT ![t] = {x \in @ : Unbound(t, x)}]
    /\ found' = [found EXCEPT ![t] = 0]
    /\ stack' = [stack EXCEPT ![t] = << [at |-> <<>>, next |-> 1, node |-> 1] >>]
    /\ UNCHANGED <<trieVars, bound, shown>>

Members(t, at) ==
    LET layout == buffer[t].frame.layout
    IN  IF at \in DOMAIN layout THEN layout[at] ELSE <<>>

\* The innermost walk() of t, and whether its cursor still has a TLV to match.
Top(t) == Last(stack[t])
Broken(t, at) == at \in buffer[t].frame.broken
Continues(t) ==
    /\ found[t] < Len(paths)
    /\ Top(t).next \in DOMAIN Members(t, Top(t).at)
    /\ ~Broken(t, Members(t, Top(t).at)[Top(t).next])
    /\ ~Broken(t, <<>>)

Advanced(t) == [stack[t] EXCEPT ![Len(stack[t])].next = @ + 1]

\* A TLV no node matches is skipped.
SkipTLV(t) ==
    LET c == Members(t, Top(t).at)[Top(t).next]
    IN  /\ ~Idle(t) /\ Continues(t)
        /\ Matching(Top(t).node, TagOf[c]) = {}
        /\ stack' = [stack EXCEPT ![t] = Advanced(t)]
        /\ UNCHANGED <<trieVars, bound, slot, buffer, found, hit, shown>>

\* A leaf: remember where it is, and decode it if a target is bound.
MeetLeaf(t) ==
    LET c == Members(t, Top(t).at)[Top(t).next]
        n == TheMatch(Top(t).node, TagOf[c])
        i == nodes[n].index
        x == bound[t][i]
        v == buffer[t].val[c]
    IN  /\ ~Idle(t) /\ Continues(t)
        /\ Matching(Top(t).node, TagOf[c]) # {} /\ i # 0
        /\ slot' = [slot EXCEPT ![t][i] = c]
        /\ hit' = IF x = None THEN hit
                  ELSE [hit EXCEPT ![t] = IF v \in Bad THEN @ \ {x} ELSE @ \cup {x}]
        /\ shown' = IF x = None \/ v \in Bad THEN shown ELSE [shown EXCEPT ![t][x] = v]
        /\ found' = [found EXCEPT ![t] = @ + 1]
        /\ stack' = [stack EXCEPT ![t] = Advanced(t)]
        /\ UNCHANGED <<trieVars, bound, buffer>>

\* An interior node: a nested walk over the TLV's contents.
Enter(t) ==
    LET c == Members(t, Top(t).at)[Top(t).next]
        n == TheMatch(Top(t).node, TagOf[c])
    IN  /\ ~Idle(t) /\ Continues(t)
        /\ Matching(Top(t).node, TagOf[c]) # {} /\ nodes[n].index = 0
        /\ stack' = [stack EXCEPT ![t] =
                        Append(Advanced(t), [at |-> c, next |-> 1, node |-> n])]
        /\ UNCHANGED <<trieVars, bound, slot, buffer, found, hit, shown>>

\* The end of the contents, a TLV BerCursor cannot read, or all leaves found:
\* walk() returns, the outermost one from apply.
Return(t) ==
    /\ ~Idle(t) /\ ~Continues(t)
    /\ stack' = [stack EXCEPT ![t] = Front(@)]
    /\ UNCHANGED <<trieVars, bound, slot, buffer, found, hit, shown>>

-----------------------------------------------------------------------------
\* load: decode the bytes the last apply found, whatever they hold by now.
Load(t, p, x) ==
    LET c == slot[t][handles[p]]
        ok == c # None /\ buffer[t].val[c] \notin Bad
    IN  /\ Idle(t) /\ buffer[t] # None
        /\ hit' = [hit EXCEPT ![t] = IF ok THEN @ \cup {x} ELSE @ \ {x}]
        /\ shown' = IF ok THEN [shown EXCEPT ![t][x] = buffer[t].val[c]] ELSE shown
        /\ UNCHANGED <<trieVars, bound, slot, buffer, stack, found>>

\* The program changes the value of a field it was shown.
Modify(t, x, v) ==
    /\ Idle(t) /\ x \in hit[t]
    /\ shown' = [shown EXCEPT ![t][x] = v]
    /\ UNCHANGED <<trieVars, bound, slot, buffer, stack, found, hit>>

\* Mutant: a longer value is written too, over the start of what follows it.
CommitAnySize(t, p) ==
    LET c == slot[t][handles[p]]
        x == bound[t][handles[p]]
    IN  /\ Idle(t) /\ buffer[t] # None /\ buffer[t].rw
        /\ x # None /\ x \in hit[t] /\ c # None
        /\ buffer' = [buffer EXCEPT ![t].val = [d \in Sent |->
               IF d = c \/ (Siblings(c, d) /\ Size[shown[t][x]] > Size[@[c]])
               THEN shown[t][x] ELSE @[d]]]
        /\ UNCHANGED <<trieVars, bound, slot, stack, found, hit, shown>>

\* commit writes the value in the bound target over the bytes found, if it is
\* as long as they are; otherwise it returns false and changes nothing.
Commit(t, p) ==
    LET c == slot[t][handles[p]]
        x == bound[t][handles[p]]
    IN  /\ Idle(t) /\ buffer[t] # None /\ buffer[t].rw
        /\ x # None /\ x \in hit[t] /\ c # None
        /\ Size[shown[t][x]] = Size[buffer[t].val[c]]
        /\ buffer' = [buffer EXCEPT ![t].val[c] = shown[t][x]]
        /\ UNCHANGED <<trieVars, bound, slot, stack, found, hit, shown>>

Build == (\E p \in Asked : AddPath(p)) \/ AddThrows \/ AddInterior \/ AddLeaf \/ Finalize

Walk(t) == SkipTLV(t) \/ MeetLeaf(t) \/ Enter(t) \/ Return(t)

Use(t) ==
    \/ \E p \in DOMAIN handles, x \in Target : Bind(t, p, x) \/ Load(t, p, x)
    \/ \E f \in Frame, rw \in BOOLEAN : Apply(t, f, Content[f], rw)
    \/ /\ buffer[t] # None
       /\ \E rw \in BOOLEAN : Apply(t, buffer[t].frame, buffer[t].val, rw)
    \/ \E x \in Target, v \in Value \ Bad : Modify(t, x, v)
    \/ \E p \in DOMAIN handles : Commit(t, p)

Next == Build \/ \E t \in Thread : Walk(t) \/ Use(t)

Spec == Init /\ [][Next]_vars

-----------------------------------------------------------------------------
\* Fields of one type have tags of their own, also against what a later
\* version of the type may add (AUTOMATIC TAGS gives this; X.680 asks less of
\* mandatory members).
DistinctTags ==
    \A c \in Field, d \in Sent : Siblings(c, d) /\ TagOf[c] = TagOf[d] => c = d

\* A type has a field once, and an encoding of it no field twice: the walk takes
\* every TLV that matches a leaf for one leaf more, and stops at as many as there
\* are paths.
FieldsOnce ==
    \A f \in Frame : \A p \in DOMAIN f.layout :
        \A i, j \in DOMAIN f.layout[p] : f.layout[p][i] = f.layout[p][j] => i = j

\* A handle is the slot of its own path: BerProjection.hpp, "indices match
\* FieldHandle::index", whatever order paths were registered in and whichever
\* calls threw in between.
HandlesNameFields ==
    \A p \in DOMAIN handles : handles[p] \in DOMAIN paths /\ paths[handles[p]] = p

\* book.md: "Fields not on a projected path are left untouched in the wire
\* bytes", whatever is committed.
UnprojectedUntouched ==
    \A t \in Thread : buffer[t] # None =>
        \A c \in Sent : (\A p \in DOMAIN handles : ~IsPrefix(p, c)) =>
            buffer[t].val[c] = Content[buffer[t].frame][c]

-----------------------------------------------------------------------------
\* The place p of frame f can be reached: each TLV on the way is there and
\* comes before the first unreadable one beside it.
Readable(f, p) ==
    /\ <<>> \notin f.broken
    /\ \A k \in 1..Len(p) :
          LET c == SubSeq(p, 1, k)
          IN  /\ Parent(c) \in DOMAIN f.layout
              /\ \E i \in DOMAIN f.layout[Parent(c)] :
                    /\ f.layout[Parent(c)][i] = c
                    /\ \A j \in 1..i : f.layout[Parent(c)][j] \notin f.broken

\* What the program sees of all this.
Shows(t, x) ==
    IF Unbound(t, x) THEN None
    ELSE CHOOSE p \in DOMAIN handles : bound[t][handles[p]] = x

Abstract ==
    INSTANCE Projection WITH
        registered <- DOMAIN handles,
        sealed <- finalized,
        reading <- [t \in Thread |->
                       IF buffer[t] = None THEN None
                       ELSE [frame |-> buffer[t].frame, val |-> buffer[t].val]],
        busy <- {t \in Thread : ~Idle(t)},
        shows <- [t \in Thread |-> [x \in Target |-> Shows(t, x)]],
        view <- [t \in Thread |-> [x \in Target |->
                    IF x \notin hit[t] \/ (~Idle(t) /\ ~Unbound(t, x)) THEN None ELSE shown[t][x]]]

\* Every thread sees exactly the fields of its own frames.
Implements == Abstract!Spec

=============================================================================
