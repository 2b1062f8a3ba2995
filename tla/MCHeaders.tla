----------------------------- MODULE MCHeaders ------------------------------
(* Schemas of three types for Headers: A with two members, B and C with one, *)
(* or a reference or a named SEQUENCE OF; see Recursive.                     *)
EXTENDS Headers

Member(to, opt, many) == [to |-> to, opt |-> opt, many |-> many]
RecordMembers == {Member(t, o, FALSE) : t \in Names, o \in BOOLEAN}
                   \cup {Member(t, FALSE, TRUE) : t \in Names}
ChoiceMembers == {Member(t, FALSE, w) : t \in Names, w \in BOOLEAN}

Pairs(S) == {s \in [{1, 2} -> S] : s[1] # s[2]}
OneMember == {[kind |-> "record", members |-> <<m>>] : m \in RecordMembers}
       \cup {[kind |-> "choice", members |-> <<m>>] : m \in ChoiceMembers}
       \cup {[kind |-> w, to |-> t] : w \in {"list", "alias"}, t \in Names}
       \cup {[kind |-> "leaf"]}
TwoMembers == {[kind |-> "record", members |-> s] : s \in Pairs(RecordMembers)}
       \cup {[kind |-> "choice", members |-> s] : s \in Pairs(ChoiceMembers)}

To(d) == CASE d.kind \in {"list", "alias"} -> {d.to}
           [] d.kind = "leaf" -> {}
           [] OTHER -> {m.to : m \in Range(d.members)}

\* A type reaches itself, and A reaches every other but for a C that is a SEQUENCE OF A.
Recursive(s) ==
    LET one == To(s["A"])
        two == one \cup UNION {To(s[n]) : n \in one}
        three == two \cup UNION {To(s[n]) : n \in two}
    IN /\ {"B", "C"} \subseteq two \/ ("B" \in one /\ s["C"] = [kind |-> "list", to |-> "A"])
       /\ "A" \in three \/ "B" \in To(s["B"]) \/ "C" \in To(s["C"])
            \/ ("C" \in To(s["B"]) /\ "B" \in To(s["C"]))

MCSchemas ==
    {s \in {[A |-> a, B |-> b, C |-> c] : a \in TwoMembers, b \in OneMember, c \in OneMember} :
        Recursive(s)}
=============================================================================
