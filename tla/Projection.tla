----------------------------- MODULE Projection -----------------------------
(***************************************************************************)
(* What BerProjection promises to a program: a set of field paths is       *)
(* registered and sealed, every thread shows some of the registered        *)
(* fields in targets (Asn1Optional) of its own, and each apply fills these *)
(* targets with exactly the fields of the frame, each from its own place.  *)
(* An apply takes time, during which the thread's bound targets are in no  *)
(* particular state.  BerProjection implements this with one trie of tags  *)
(* shared by all threads.                                                  *)
(***************************************************************************)
EXTENDS Naturals, Sequences, SequencesExt

CONSTANTS
    Thread,
    Target,     \* optionals of one thread
    Field,      \* the field paths below the root type, sequences of names
    Frame,      \* frames received
    Content,    \* Content[f]: what each field of f holds
    Value,      \* field contents
    Bad,        \* those that do not decode
    Size,       \* Size[v]: bytes of v
    None,
    Readable(_, _)  \* Readable(f, p): p is in f, and nothing before it is
                    \* malformed or of indefinite length

VARIABLES
    registered, \* the field paths registered
    sealed,
    reading,    \* [Thread -> None or a frame and what its bytes hold now]
    busy,       \* the threads in the middle of an apply
    shows,      \* [Thread -> [Target -> the field it is bound to, or None]]
    view        \* [Thread -> [Target -> the value found, or None]]

vars == <<registered, sealed, reading, busy, shows, view>>

Init ==
    /\ registered = {} /\ sealed = FALSE
    /\ reading = [t \in Thread |-> None]
    /\ busy = {}
    /\ shows = [t \in Thread |-> [x \in Target |-> None]]
    /\ view = [t \in Thread |-> [x \in Target |-> None]]

-----------------------------------------------------------------------------
\* A leaf hides the leaves below it, which are not supported.
Delivers(f, p) == Readable(f, p) /\ \A q \in registered : ~IsStrictPrefix(q, p)

\* What a thread that has applied a frame sees of a field.
Seen(t, p) ==
    IF Delivers(reading[t].frame, p) /\ reading[t].val[p] \notin Bad
    THEN reading[t].val[p] ELSE None

Register(p) ==
    /\ ~sealed /\ registered' = registered \cup {p}
    /\ UNCHANGED <<sealed, reading, busy, shows, view>>

Seal ==
    /\ ~sealed /\ sealed' = TRUE
    /\ UNCHANGED <<registered, reading, busy, shows, view>>

\* The target shows another field from now on, another target no longer does.
Bind(t, p, x) ==
    /\ sealed /\ t \notin busy /\ p \in registered
    /\ shows' = [shows EXCEPT ![t] =
            [y \in Target |-> IF y = x THEN p ELSE IF @[y] = p THEN None ELSE @[y]]]
    /\ UNCHANGED <<registered, sealed, reading, busy, view>>

Begin(t, f, content) ==
    /\ sealed /\ t \notin busy
    /\ reading' = [reading EXCEPT ![t] = [frame |-> f, val |-> content]]
    /\ busy' = busy \cup {t}
    /\ view' = [view EXCEPT ![t] = [x \in Target |-> IF shows[t][x] = None THEN @[x] ELSE None]]
    /\ UNCHANGED <<registered, sealed, shows>>

End(t) ==
    /\ t \in busy
    /\ busy' = busy \ {t}
    /\ view' = [view EXCEPT ![t] =
            [x \in Target |-> IF shows[t][x] = None THEN @[x] ELSE Seen(t, shows[t][x])]]
    /\ UNCHANGED <<registered, sealed, reading, shows>>

\* A field on demand, from the frame last applied.
Load(t, p, x) ==
    /\ t \notin busy /\ reading[t] # None /\ p \in registered
    /\ view' = [view EXCEPT ![t][x] = Seen(t, p)]
    /\ UNCHANGED <<registered, sealed, reading, busy, shows>>

Modify(t, x, v) ==
    /\ t \notin busy /\ view[t][x] # None
    /\ view' = [view EXCEPT ![t][x] = v]
    /\ UNCHANGED <<registered, sealed, reading, busy, shows>>

\* The value shown replaces the field it is bound to, and nothing else.
Commit(t, x) ==
    LET p == shows[t][x]
        v == view[t][x]
    IN  /\ t \notin busy /\ reading[t] # None /\ p # None /\ v # None
        /\ Delivers(reading[t].frame, p) /\ Size[v] = Size[reading[t].val[p]]
        /\ reading' = [reading EXCEPT ![t].val[p] = v]
        /\ UNCHANGED <<registered, sealed, busy, shows, view>>

Next ==
    \/ \E p \in Field : Register(p)
    \/ Seal
    \/ \E t \in Thread :
          \/ \E p \in registered, x \in Target : Bind(t, p, x) \/ Load(t, p, x)
          \/ \E f \in Frame : Begin(t, f, Content[f])
          \/ reading[t] # None /\ Begin(t, reading[t].frame, reading[t].val)
          \/ End(t)
          \/ \E x \in Target, v \in Value \ Bad : Modify(t, x, v)
          \/ \E x \in Target : Commit(t, x)

Spec == Init /\ [][Next]_vars

=============================================================================
