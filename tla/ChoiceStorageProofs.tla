------------------------- MODULE ChoiceStorageProofs -------------------------
(***************************************************************************)
(* Theorems about ChoiceStorage for any number of objects, alternatives    *)
(* and values.  Discipline is the condition under which the storage is     *)
(* safe: the program decodes PER only, or its callers never go back to an  *)
(* object whose BER, XER or JER decode failed.                             *)
(***************************************************************************)
EXTENDS ChoiceStorage, TLAPS

Discipline == ~TrustsFailedObject \/ Rules \subseteq {"PER"}

\* A PER decode, failed or not, never makes an object one to stay away from.
OnlyOthersFail == \A o \in failed : ~(Rules \subseteq {"PER"})

\* NamedIsHeld, of the objects whose last decode is not a failure to avoid.
Agrees == \A o \in Obj : o \notin failed /\ present[o] # 0 => held[o] = present[o]

IInv == TypeOK /\ NeverMisread /\ OnlyOthersFail /\ Agrees /\ HoldsWhatWasStored

LEMMA UsableAgrees ==
    ASSUME Discipline, OnlyOthersFail, Agrees,
           NEW o \in Obj, Usable(o), present[o] # 0
    PROVE  held[o] = present[o]
BY DEF Discipline, OnlyOthersFail, Agrees, Usable

LEMMA NoMiss ==
    ASSUME Discipline, OnlyOthersFail, Agrees,
           NEW o \in Obj, Usable(o), NEW a \in Alternative
    PROVE  HeldFor(o, a) = a /\ ~Misses(o, a)
<1>1. CASE present[o] # a
  BY <1>1 DEF HeldFor, Misses
<1>2. CASE present[o] = a
  <2>1. a # 0
    BY CountAssumption DEF CountAssumption, Alternative
  <2>2. held[o] = present[o]
    BY <1>2, <2>1, UsableAgrees
  <2> QED
    BY <1>2, <2>2 DEF HeldFor, Misses
<1> QED
  BY <1>1, <1>2

LEMMA ZeroAndNothing == 0 \in 0..Count /\ Nothing \in Claim
BY CountAssumption DEF CountAssumption, Nothing, Chosen, Claim, Content

\* Every variable stays in its type, however the objects are used.
THEOREM TypeCorrect == Spec => []TypeOK
<1>1. Init => TypeOK
  BY ZeroAndNothing DEF Init, TypeOK, Content
<1>2. TypeOK /\ [Next]_vars => TypeOK'
  <2> SUFFICES ASSUME TypeOK, [Next]_vars PROVE TypeOK'
    OBVIOUS
  <2> USE CountAssumption DEF CountAssumption, TypeOK, Content, Claim, Nothing, Chosen, Stores, Spoils, Transfer, Alternative
  <2>1. ASSUME NEW o \in Obj, NEW r \in Rules, NEW a \in Alternative, NEW v \in Value,
               DecodeThenName(o, r, a, v)
        PROVE  TypeOK'
    BY <2>1 DEF DecodeThenName, HeldFor, Misses
  <2>2. ASSUME NEW o \in Obj, NEW r \in Rules, NEW a \in Alternative, NEW v \in Content,
               DecodeFailsUnnamed(o, r, a, v)
        PROVE  TypeOK'
    BY <2>2 DEF DecodeFailsUnnamed, HeldFor, Misses
  <2>3. ASSUME NEW o \in Obj, NEW r \in Rules, NEW a \in Alternative, NEW v \in Value,
               DecodeFailsNamed(o, r, a, v)
        PROVE  TypeOK'
    BY <2>3 DEF DecodeFailsNamed, HeldFor, Misses
  <2>4. ASSUME NEW o \in Obj, NEW a \in Alternative, NEW v \in Content, NEW ok \in BOOLEAN,
               NameThenDecode(o, a, v, ok)
        PROVE  TypeOK'
    BY <2>4 DEF NameThenDecode, HeldFor, Misses
  <2>5. ASSUME NEW o \in Obj, SkipUnknown(o) PROVE TypeOK'
    BY <2>5 DEF SkipUnknown
  <2>6. ASSUME NEW o \in Obj, NEW r \in Rules, RejectEarly(o, r) PROVE TypeOK'
    BY <2>6 DEF RejectEarly
  <2>7. ASSUME NEW o \in Obj, NEW a \in 0..Count, SetPresent(o, a) PROVE TypeOK'
    BY <2>7 DEF SetPresent
  <2>8. ASSUME NEW o \in Obj, NEW v \in Value, Assign(o, v) PROVE TypeOK'
    BY <2>8 DEF Assign
  <2>9. ASSUME NEW o \in Obj, NEW p \in Obj, CopyAssign(o, p) PROVE TypeOK'
    BY <2>9 DEF CopyAssign
  <2>10. ASSUME NEW o \in Obj, NEW p \in Obj, MoveAssign(o, p) PROVE TypeOK'
    <3>1. /\ present' \in [Obj -> 0..Count]
          /\ held' \in [Obj -> 0..Count]
          /\ val' \in [Obj -> Content]
          /\ stored' \in [Obj -> Claim]
      BY <2>10, ZeroAndNothing DEF MoveAssign
    <3>2. /\ misread' \in BOOLEAN
          /\ failed' \subseteq Obj
          /\ vouched' \subseteq Obj
      BY <2>10 DEF MoveAssign
    <3> QED
      BY <3>1, <3>2
  <2>11. ASSUME NEW o \in Obj, Encode(o) PROVE TypeOK'
    BY <2>11 DEF Encode
  <2>12. ASSUME NEW o \in Obj, NEW a \in Alternative, NEW v \in Content, NEW ok \in BOOLEAN,
                Fill(o, a, v, ok)
         PROVE  TypeOK'
    BY <2>12 DEF Fill
  <2>13. CASE UNCHANGED vars
    BY <2>13 DEF vars
  <2>14. ASSUME NEW o \in Obj, Decode(o) PROVE TypeOK'
    <3> HIDE DEF TypeOK, Claim, Stores, Spoils, Transfer, Alternative
    <3> QED
      BY <2>1, <2>2, <2>3, <2>4, <2>5, <2>6, <2>14 DEF Decode
  <2>15. ASSUME NEW o \in Obj, Use(o) PROVE TypeOK'
    <3> HIDE DEF TypeOK, Claim, Stores, Spoils, Transfer, Alternative
    <3> QED
      BY <2>7, <2>8, <2>9, <2>10, <2>11, <2>12, <2>15 DEF Use
  <2> QED
    BY <2>13, <2>14, <2>15 DEF Next
<1> QED
  BY <1>1, <1>2, PTL DEF Spec

-----------------------------------------------------------------------------
LEMMA InitIInv == Init => IInv
<1> SUFFICES ASSUME Init PROVE IInv
  OBVIOUS
<1>1. TypeOK
  BY ZeroAndNothing DEF Init, TypeOK, Content
<1>2. NeverMisread /\ OnlyOthersFail /\ Agrees
  BY DEF Init, NeverMisread, OnlyOthersFail, Agrees
<1>3. HoldsWhatWasStored
  BY DEF Init, HoldsWhatWasStored, Nothing, Chosen
<1> QED
  BY <1>1, <1>2, <1>3 DEF IInv

\* The parts of IInv that say more than TypeOK, to be shown of a next state.
Storage == NeverMisread /\ OnlyOthersFail /\ Agrees /\ HoldsWhatWasStored

\* A decode keeps the invariant: it names what it emplaces or is a failure
\* that keeps callers away.
LEMMA DecodeStep ==
    ASSUME Discipline, IInv, NEW o \in Obj, Decode(o)
    PROVE  Storage'
<1> USE DEF IInv, TypeOK, Storage, NeverMisread, OnlyOthersFail, Agrees, HoldsWhatWasStored
<1>1. ASSUME NEW r \in Rules, NEW a \in Alternative, NEW v \in Value,
             DecodeThenName(o, r, a, v)
      PROVE  Storage'
  <2>1. HeldFor(o, a) = a /\ ~Misses(o, a)
    BY <1>1, NoMiss DEF DecodeThenName
  <2> QED
    BY <1>1, <2>1 DEF DecodeThenName, Stores, Chosen
<1>2. ASSUME NEW r \in Rules, NEW a \in Alternative, NEW v \in Content,
             DecodeFailsUnnamed(o, r, a, v)
      PROVE  Storage'
  <2>1. ~Misses(o, a)
    BY <1>2, NoMiss DEF DecodeFailsUnnamed
  <2>2. ~(Rules \subseteq {"PER"})
    BY <1>2 DEF DecodeFailsUnnamed
  <2> QED
    BY <1>2, <2>1, <2>2 DEF DecodeFailsUnnamed, Spoils
<1>3. ASSUME NEW r \in Rules, NEW a \in Alternative, NEW v \in Value,
             DecodeFailsNamed(o, r, a, v)
      PROVE  Storage'
  <2>1. ~Misses(o, a)
    BY <1>3, NoMiss DEF DecodeFailsNamed
  <2>2. ~(Rules \subseteq {"PER"})
    BY <1>3 DEF DecodeFailsNamed
  <2> QED
    BY <1>3, <2>1, <2>2 DEF DecodeFailsNamed, Spoils
<1>4. ASSUME NEW a \in Alternative, NEW v \in Content, NEW ok \in BOOLEAN,
             NameThenDecode(o, a, v, ok)
      PROVE  Storage'
  <2>1. HeldFor(o, a) = a /\ ~Misses(o, a)
    BY <1>4, NoMiss DEF NameThenDecode
  <2>2. CASE ok
    BY <1>4, <2>1, <2>2 DEF NameThenDecode, Stores, Chosen
  <2>3. CASE ~ok
    BY <1>4, <2>1, <2>3 DEF NameThenDecode, Spoils
  <2> QED
    BY <2>2, <2>3
<1>5. ASSUME SkipUnknown(o) PROVE Storage'
  BY <1>5, UsableAgrees DEF SkipUnknown
<1>6. ASSUME NEW r \in Rules, RejectEarly(o, r) PROVE Storage'
  BY <1>6, UsableAgrees DEF RejectEarly
<1> QED
  BY <1>1, <1>2, <1>3, <1>4, <1>5, <1>6 DEF Decode, Content

\* So does everything the application does with the objects.
LEMMA UseStep ==
    ASSUME Discipline, IInv, NEW o \in Obj, Use(o)
    PROVE  Storage'
<1> USE DEF IInv, TypeOK, Storage, NeverMisread, OnlyOthersFail, Agrees, HoldsWhatWasStored
<1>1. ASSUME NEW a \in 0..Count, SetPresent(o, a) PROVE Storage'
  BY <1>1 DEF SetPresent, Stores, Chosen
<1>2. ASSUME NEW v \in Value, Assign(o, v) PROVE Storage'
  <2>1. held[o] = present[o]
    BY <1>2, UsableAgrees DEF Assign
  <2> QED
    BY <1>2, <2>1 DEF Assign, Stores, Chosen
<1>3. ASSUME NEW p \in Obj, CopyAssign(o, p) PROVE Storage'
  <2>1. present[p] # 0 => held[p] = present[p]
    BY <1>3, UsableAgrees DEF CopyAssign
  <2> QED
    BY <1>3, <2>1 DEF CopyAssign, Transfer
<1>4. ASSUME NEW p \in Obj, MoveAssign(o, p) PROVE Storage'
  BY <1>4 DEF MoveAssign, Transfer, Nothing, Chosen
<1>5. ASSUME Encode(o) PROVE Storage'
  <2>1. held[o] = present[o]
    BY <1>5, UsableAgrees DEF Encode
  <2> QED
    BY <1>5, <2>1 DEF Encode
<1>6. ASSUME NEW a \in Alternative, NEW v \in Content, NEW ok \in BOOLEAN, Fill(o, a, v, ok)
      PROVE  Storage'
  BY <1>6 DEF Fill, Stores, Spoils, Chosen
<1> QED
  BY <1>1, <1>2, <1>3, <1>4, <1>5, <1>6 DEF Use

THEOREM Invariance == ASSUME Discipline PROVE Spec => []IInv
<1>1. Init => IInv
  BY InitIInv
<1>2. IInv /\ [Next]_vars => Storage'
  <2> SUFFICES ASSUME IInv, [Next]_vars PROVE Storage'
    OBVIOUS
  <2>1. CASE UNCHANGED vars
    BY <2>1 DEF vars, IInv, Storage, NeverMisread, OnlyOthersFail, Agrees, HoldsWhatWasStored
  <2>2. CASE Next
    BY <2>2, DecodeStep, UseStep DEF Next
  <2> QED
    BY <2>1, <2>2
<1>3. IInv <=> TypeOK /\ Storage
  BY DEF IInv, Storage
<1> QED
  BY <1>1, <1>2, <1>3, TypeCorrect, PTL DEF Spec

\* Under the discipline no accessor ever reinterprets another alternative's
\* bytes.
THEOREM Safety == ASSUME Discipline PROVE Spec => []NeverMisread
<1>1. IInv => NeverMisread
  BY DEF IInv
<1> QED
  BY <1>1, Invariance, PTL

\* Under the discipline the name and the contents of every object the caller
\* may read agree.
THEOREM Agreement == ASSUME Discipline PROVE Spec => []NamedIsHeld
<1>1. IInv => NamedIsHeld
  BY UsableAgrees DEF IInv, NamedIsHeld
<1> QED
  BY <1>1, Invariance, PTL

\* Under the discipline an object holds what the last successful call stored,
\* unless that call was a decode that skipped an unknown alternative.
THEOREM Faithfulness == ASSUME Discipline PROVE Spec => []HoldsWhatWasStored
<1>1. IInv => HoldsWhatWasStored
  BY DEF IInv
<1> QED
  BY <1>1, Invariance, PTL

=============================================================================
