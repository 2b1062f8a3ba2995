---------------------------- MODULE ChoiceStorage ----------------------------
(***************************************************************************)
(* The storage of a generated CHOICE value of the C++ runtime              *)
(* (runtime/include/asn1cpp/ChoiceInterface.hpp and the class that         *)
(* CppBackend.cpp emits) while one object is decoded into, assigned,       *)
(* copied, moved and encoded over and over again.                          *)
(*                                                                         *)
(* A CHOICE keeps one buffer, val_, shared by all its alternatives, and    *)
(* says twice what is in it: _present is the alternative the codecs and    *)
(* the application look at, active_lifecycle the alternative whose         *)
(* constructor last ran in the buffer.  Every accessor (get_mut_fn,        *)
(* get_const_fn) reinterprets the buffer from _present alone, so the two   *)
(* must agree whenever an accessor runs.  PER writes _present next to      *)
(* emplace_alt; BER, XER and JER write it only when the alternative's own  *)
(* decode succeeds, which is what the caller's discipline in               *)
(* TrustsFailedObject is about.                                            *)
(***************************************************************************)
EXTENDS Naturals

CONSTANTS
    Obj,                \* the CHOICE objects of the program
    Count,              \* number of alternatives in the table (spec.count)
    Extensible,         \* spec.ext_at >= 0
    Value,              \* values an alternative can hold
    Fresh,              \* the value ops.construct leaves: T{}
    Rules,              \* the encoding rules the program decodes with
    TrustsFailedObject  \* TRUE: the caller reads and reuses an object whose
                        \* BER, XER or JER decode has failed

ASSUME CountAssumption == Count \in Nat
ASSUME ExtensibleAssumption == Extensible \in BOOLEAN
ASSUME FreshAssumption == Fresh \notin Value
ASSUME RulesAssumption == Rules \subseteq {"BER", "XER", "JER", "PER"}
ASSUME TrustAssumption == TrustsFailedObject \in BOOLEAN

VARIABLES
    present,    \* [Obj -> 0..Count]: _present, 0 is PR::NOTHING
    held,       \* [Obj -> 0..Count]: the alternative active_lifecycle is for,
                \* 0 is k_noop_lifecycle (nothing constructed in val_)
    val,        \* [Obj -> Content]: what is in val_
    misread,    \* an accessor reinterpreted val_ as a type it does not hold
    failed,     \* SUBSET Obj: the last decode into them was a failed BER, XER
                \* or JER decode (the caller has seen the error)
    stored,     \* [Obj -> Claim]: what the last successful call stored
    vouched     \* SUBSET Obj: no call that disturbs them failed since then,
                \* and none succeeded by skipping an unknown alternative

vars == <<present, held, val, misread, failed, stored, vouched>>

Alternative == 1..Count
Content == Value \cup {Fresh}
Claim == [alt : 0..Count, v : Content]
Chosen(a, v) == [alt |-> a, v |-> v]
Nothing == Chosen(0, Fresh)

TypeOK ==
    /\ present \in [Obj -> 0..Count]
    /\ held \in [Obj -> 0..Count]
    /\ val \in [Obj -> Content]
    /\ misread \in BOOLEAN
    /\ failed \subseteq Obj
    /\ stored \in [Obj -> Claim]
    /\ vouched \subseteq Obj

Init ==
    /\ present = [o \in Obj |-> 0]
    /\ held = [o \in Obj |-> 0]
    /\ val = [o \in Obj |-> Fresh]
    /\ misread = FALSE
    /\ failed = {}
    /\ stored = [o \in Obj |-> Nothing]
    /\ vouched = Obj

-----------------------------------------------------------------------------
\* May the caller read o, or decode into it again?
Usable(o) == TrustsFailedObject \/ o \notin failed

\* The storage after "if (ch->_present != a) ch->emplace_alt(alt)".  The guard
\* looks at _present, never at what the buffer holds.
HeldFor(o, a) == IF present[o] # a THEN a ELSE held[o]

\* What the decode that follows finds in the buffer is not an alternative a:
\* get_mut_fn reinterprets another type's bytes.
Misses(o, a) == HeldFor(o, a) # a

Stores(o, claim) ==
    /\ stored' = [stored EXCEPT ![o] = claim]
    /\ vouched' = vouched \cup {o}
    /\ failed' = failed \ {o}

\* A failed call; sure: the two words agree whatever they were before.
Spoils(o, sure) ==
    /\ vouched' = vouched \ {o}
    /\ failed' = IF sure THEN failed \ {o} ELSE failed \cup {o}
    /\ stored' = [stored EXCEPT ![o] = Nothing]

\* BER, XER and JER: emplace if the name differs, decode the alternative, and
\* name it only if that went well.
DecodeThenName(o, r, a, v) ==
    /\ r \in Rules \cap {"BER", "XER", "JER"} /\ Usable(o)
    /\ held' = [held EXCEPT ![o] = HeldFor(o, a)]
    /\ misread' = (misread \/ Misses(o, a))
    /\ val' = [val EXCEPT ![o] = v]
    /\ present' = [present EXCEPT ![o] = a]
    /\ Stores(o, Chosen(a, v))

\* The same when the alternative's contents do not decode: "if (!ok) return
\* ok" leaves _present alone, the buffer already holds the new alternative
\* with whatever part of it was decoded.
DecodeFailsUnnamed(o, r, a, v) ==
    /\ r \in Rules \cap {"BER", "XER", "JER"} /\ Usable(o)
    /\ held' = [held EXCEPT ![o] = HeldFor(o, a)]
    /\ misread' = (misread \/ Misses(o, a))
    /\ val' = [val EXCEPT ![o] = v]
    /\ Spoils(o, FALSE)
    /\ UNCHANGED present

\* An error after the alternative is decoded and named: JER misses the closing
\* brace, or a contained field in it is to fail the decode.
DecodeFailsNamed(o, r, a, v) ==
    /\ r \in Rules \cap {"BER", "XER", "JER"} /\ Usable(o)
    /\ held' = [held EXCEPT ![o] = HeldFor(o, a)]
    /\ misread' = (misread \/ Misses(o, a))
    /\ val' = [val EXCEPT ![o] = v]
    /\ present' = [present EXCEPT ![o] = a]
    /\ Spoils(o, FALSE)

\* Mutant: PER names the alternative only when its contents decode, as BER does.
NameAfterDecode(o, a, v, ok) ==
    /\ "PER" \in Rules /\ Usable(o)
    /\ held' = [held EXCEPT ![o] = HeldFor(o, a)]
    /\ misread' = (misread \/ Misses(o, a))
    /\ val' = [val EXCEPT ![o] = v]
    /\ present' = [present EXCEPT ![o] = IF ok THEN a ELSE @]
    /\ IF ok THEN Stores(o, Chosen(a, v)) ELSE Spoils(o, TRUE)

\* PER: the index selects the alternative and names it before its contents
\* are decoded, so a failure leaves the two in agreement.
NameThenDecode(o, a, v, ok) ==
    /\ "PER" \in Rules /\ Usable(o)
    /\ held' = [held EXCEPT ![o] = HeldFor(o, a)]
    /\ misread' = (misread \/ Misses(o, a))
    /\ val' = [val EXCEPT ![o] = v]
    /\ present' = [present EXCEPT ![o] = a]
    /\ IF ok THEN Stores(o, Chosen(a, v)) ELSE Spoils(o, TRUE)

\* An alternative added by a later version: BER skips its TLV, PER its open
\* type, and both report success without touching the object.  It is not
\* vouched for: it goes on naming the alternative of an earlier message, where
\* the documentation has none selected (README, section 5).
SkipUnknown(o) ==
    /\ Extensible /\ Rules \cap {"BER", "PER"} # {} /\ Usable(o)
    /\ failed' = failed \ {o}
    /\ vouched' = vouched \ {o}
    /\ stored' = [stored EXCEPT ![o] = Nothing]
    /\ UNCHANGED <<present, held, val, misread>>

\* The decode ends before it touches the object: no alternative matches and
\* none may be skipped, the index is out of range, the input is too short.
RejectEarly(o, r) ==
    /\ r \in Rules /\ Usable(o)
    /\ failed' = IF r = "PER" THEN failed \ {o} ELSE failed \cup {o}
    /\ UNCHANGED <<present, held, val, misread, stored, vouched>>

-----------------------------------------------------------------------------
\* The generated set_present(p): destroy, NOTHING, then emplace p.
SetPresent(o, a) ==
    /\ present' = [present EXCEPT ![o] = a]
    /\ held' = [held EXCEPT ![o] = a]
    /\ val' = [val EXCEPT ![o] = Fresh]
    /\ Stores(o, Chosen(a, Fresh))
    /\ UNCHANGED misread

\* RandomFiller::fill_choice, which may give up within the alternative.
Fill(o, a, v, ok) ==
    /\ present' = [present EXCEPT ![o] = a]
    /\ held' = [held EXCEPT ![o] = a]
    /\ val' = [val EXCEPT ![o] = v]
    /\ IF ok THEN Stores(o, Chosen(a, v)) ELSE Spoils(o, TRUE)
    /\ UNCHANGED misread

\* The application writes the alternative present() names, through its
\* accessor.
Assign(o, v) ==
    /\ Usable(o) /\ present[o] # 0
    /\ misread' = (misread \/ held[o] # present[o])
    /\ val' = [val EXCEPT ![o] = v]
    /\ Stores(o, Chosen(present[o], v))
    /\ UNCHANGED <<present, held>>

\* dst is in S afterwards if src was.
Transfer(S, dst, src) == IF src \in S THEN S \cup {dst} ELSE S \ {dst}

\* deep_copy: NOTHING resets the target, anything else is emplaced afresh in
\* the target and copied from what the source's _present names.
CopyAssign(dst, src) ==
    /\ dst # src /\ Usable(src)
    /\ present' = [present EXCEPT ![dst] = present[src]]
    /\ held' = [held EXCEPT ![dst] = present[src]]
    /\ val' = [val EXCEPT ![dst] = IF present[src] = 0 THEN Fresh ELSE val[src]]
    /\ misread' = (misread \/ (present[src] # 0 /\ held[src] # present[src]))
    /\ stored' = [stored EXCEPT ![dst] = stored[src]]
    /\ vouched' = Transfer(vouched, dst, src)
    /\ failed' = Transfer(failed, dst, src)

\* Mutant: the source of a move goes on naming the alternative it lost.
MoveKeepsName(dst, src) ==
    /\ dst # src
    /\ present' = [present EXCEPT ![dst] = present[src]]
    /\ held' = [held EXCEPT ![dst] = held[src], ![src] = 0]
    /\ val' = [val EXCEPT ![dst] = val[src], ![src] = Fresh]
    /\ stored' = [stored EXCEPT ![dst] = stored[src], ![src] = Nothing]
    /\ vouched' = Transfer(vouched, dst, src) \cup {src}
    /\ failed' = Transfer(failed, dst, src) \ {src}
    /\ UNCHANGED misread

\* The generated move assignment: the target takes both words and the buffer,
\* moved by the source's own lifecycle, and the source is left NOTHING.
MoveAssign(dst, src) ==
    /\ dst # src
    /\ present' = [present EXCEPT ![dst] = present[src], ![src] = 0]
    /\ held' = [held EXCEPT ![dst] = held[src], ![src] = 0]
    /\ val' = [val EXCEPT ![dst] = val[src], ![src] = Fresh]
    /\ stored' = [stored EXCEPT ![dst] = stored[src], ![src] = Nothing]
    /\ vouched' = Transfer(vouched, dst, src) \cup {src}
    /\ failed' = Transfer(failed, dst, src) \ {src}
    /\ UNCHANGED misread

\* Encode under any rules: refuses NOTHING, else reads the alternative
\* _present names.
Encode(o) ==
    /\ Usable(o) /\ present[o] # 0
    /\ misread' = (misread \/ held[o] # present[o])
    /\ UNCHANGED <<present, held, val, failed, stored, vouched>>

Decode(o) ==
    \/ \E r \in Rules, a \in Alternative, v \in Value : DecodeThenName(o, r, a, v)
    \/ \E r \in Rules, a \in Alternative, v \in Content : DecodeFailsUnnamed(o, r, a, v)
    \/ \E r \in Rules, a \in Alternative, v \in Value : DecodeFailsNamed(o, r, a, v)
    \/ \E a \in Alternative, v \in Value : NameThenDecode(o, a, v, TRUE)
    \/ \E a \in Alternative, v \in Content : NameThenDecode(o, a, v, FALSE)
    \/ SkipUnknown(o)
    \/ \E r \in Rules : RejectEarly(o, r)

Use(o) ==
    \/ \E a \in 0..Count : SetPresent(o, a)
    \/ \E a \in Alternative, v \in Content, ok \in BOOLEAN : Fill(o, a, v, ok)
    \/ \E v \in Value : Assign(o, v)
    \/ \E p \in Obj : CopyAssign(o, p)
    \/ \E p \in Obj : MoveAssign(o, p)
    \/ Encode(o)

Next == \E o \in Obj : Decode(o) \/ Use(o)

Spec == Init /\ [][Next]_vars

-----------------------------------------------------------------------------
\* Accessors reinterpret the buffer from _present: none ever meets another
\* alternative's bytes, over any sequence of decodes, failed ones included,
\* assignments, copies and moves.
NeverMisread == ~misread

\* What that takes: _present and active_lifecycle name the same alternative in
\* every object the caller may still read.
NamedIsHeld ==
    \A o \in Obj : Usable(o) /\ present[o] # 0 => held[o] = present[o]

\* An object holds the alternative and the value the last call that reported
\* success put into it (through copies, moves and refused decodes), and a
\* decode refused before it touched the object does not disturb them.  Of an
\* object whose last decode skipped an unknown alternative nothing is said,
\* until a call stores something in it again.
HoldsWhatWasStored ==
    \A o \in vouched :
        /\ present[o] = stored[o].alt
        /\ present[o] # 0 => held[o] = present[o] /\ val[o] = stored[o].v

=============================================================================
