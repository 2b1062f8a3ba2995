-------------------------- MODULE MCContainedValue --------------------------
(***************************************************************************)
(* ContainedValue for TLC: two objects, two inner values, and the field    *)
(* configurations of the repository's tests plus an application cipher.    *)
(* The encoding of v1 in BER happens to read as v2 in PER, and that of v2  *)
(* in PER as v1 in BER; the other two combinations do not decode.          *)
(***************************************************************************)
EXTENDS ContainedValue, TLC

CONSTANTS o1, o2, v1, v2

MCObj == {o1, o2}
MCValue == {v1, v2}
MCMisread ==
    [r \in Rules |-> [v \in MCValue |->
        CASE r = "Ber" /\ v = v1 -> v2 [] r = "Per" /\ v = v2 -> v1 [] OTHER -> None]]
Symmetry == Permutations(MCObj)

F(encoding, eager, app, default, place) ==
    [encoding |-> encoding, eager |-> eager, app |-> app, default |-> default, place |-> place]

MCField ==
    { F("Outer", TRUE, "pkcs7", "pkcs7", "setOf"),
      F("Ber", TRUE, "zero_padding", "zero_padding", "addition"),
      F("Outer", TRUE, "seal", "plain", "member"),
      F("Per", TRUE, "unseal", "absent", "member"),
      F("Outer", TRUE, "plain", "plain", "addition"),
      F("Outer", FALSE, "none", "none", "member") }
\* Bytes in both rules, dressed for different decoders.
MCGiven ==
    { Pack("Ber", v1, "bare"), Pack("Per", v2, "pkcs7"), Pack("Ber", v1, "sealed") }

\* The bound that keeps the product of two objects small: a state is explored
\* further only while one object is untouched, or the two are a value and its
\* fresh copy, or what a move has just left.
Untouched(o) == raw[o] = None /\ inner[o] = None /\ status[o] = "NotDecoded"
Words(o) == <<status[o], rawEnc[o], o \in dirty>>
Held(o) == <<raw[o], inner[o], origin[o], meant[o]>>
OneLive ==
    \/ \E o \in MCObj : Untouched(o)
    \/ /\ Words(o1) = Words(o2)
       /\ Held(o1) = Held(o2) \/ \E o \in MCObj : Held(o) = <<None, None, None, None>>

ASSUME \A f \in MCField : Sound(f)

=============================================================================
