------------------------------ MODULE PerLength ------------------------------
(***************************************************************************)
(* A counted value in PER: the SIZE and length helpers of PerCodec.cpp and *)
(* PerCodec.hpp, under strings, open types and SEQUENCE OF.  The count     *)
(* goes out in one of four forms, picked from the type's SIZE and the      *)
(* count: not at all (a fixed size), as the offset from the lower bound,   *)
(* as one length determinant, or as fragments of up to four blocks of 16K  *)
(* items, closed by the length of the rest, which may be 0.  The decoder   *)
(* has to take the same path from the bits alone, and to give up, not to   *)
(* run on, when they are cut off or changed on the way.                    *)
(*                                                                         *)
(* An encoding is a sequence of chunks: a determinant and the items behind *)
(* it, is being "bit" (the extension bit), "offset", "fixed" (items        *)
(* alone), "length" or "fragment" (v blocks); from, the index of the first *)
(* item behind it, is there for the proofs only.                           *)
(***************************************************************************)
EXTENDS Integers, Sequences

CONSTANTS
    Unit,       \* kFragmentUnit
    Blocks,     \* blocks in a fragment (4)
    MaxCount,   \* bound: items in a value
    Sizes,      \* SIZE constraints: [constrained, ext, lb, ub]
    Wide,       \* [Sizes -> Nat]: the largest offset the bits of a count hold
    Limit,      \* kMaxZeroWidthItems
    MaxHeader   \* bound: the largest multiplier read from a damaged header

ASSUME PerLengthAssumption ==
    /\ Unit \in Nat \ {0} /\ Blocks \in Nat \ {0}
    /\ Limit \in Nat /\ MaxCount \in Nat /\ MaxHeader \in Nat
    /\ Sizes \subseteq [constrained : BOOLEAN, ext : BOOLEAN, lb : Nat, ub : Nat]
    /\ \A s \in Sizes : s.lb <= s.ub
    /\ Wide \in [Sizes -> Nat] /\ \A s \in Sizes : s.ub - s.lb <= Wide[s]

\* The limit on items without bits is compared with one fragment at a time.
ASSUME LimitAssumption == Limit < Unit

VARIABLES
    pc,         \* "prefix", "offset", "count"; "sent"; "open", "number",
                \* "items"; "whole", "error", "refused"
    n,          \* items of the value
    size,       \* the type's SIZE
    bare,       \* the items are encoded in no bits (NULL)
    start,      \* items written
    wire,       \* the encoding
    fate,       \* "intact", "cut" or "changed"
    at,         \* chunks read
    got         \* items decoded

vars == <<pc, n, size, bare, start, wire, fate, at, got>>
Value == <<n, size, bare>>

Chunk(is, v, from) == [is |-> is, v |-> v, from |-> from]

-----------------------------------------------------------------------------
InRoot(s, k) == s.lb <= k /\ k <= s.ub
Extensible(s) == s.ext /\ s.constrained
Fixed(s) == s.lb = s.ub

\* Blocks in the next fragment for so many items left.
BlocksOf(left) == IF left \div Unit < Blocks THEN left \div Unit ELSE Blocks

Init ==
    /\ pc = "prefix" /\ n \in 0..MaxCount /\ size \in Sizes /\ bare \in BOOLEAN
    /\ start = 0 /\ wire = <<>> /\ fate = "intact" /\ at = 0 /\ got = 0

\* encode_ext_size_and_items: one bit tells whether the count is in the root.
PutPrefix ==
    /\ pc = "prefix"
    /\ wire' = IF Extensible(size)
               THEN <<Chunk("bit", IF InRoot(size, n) THEN 0 ELSE 1, 0)>> ELSE <<>>
    /\ pc' = IF size.constrained /\ (Extensible(size) => InRoot(size, n))
             THEN "offset" ELSE "count"
    /\ UNCHANGED <<Value, start, fate, at, got>>

\* encode_size_and_items: a constrained count is an offset from the lower
\* bound; outside the range it has no encoding and fails the encode.
PutOffset ==
    /\ pc = "offset" /\ InRoot(size, n)
    /\ wire' = IF ~Fixed(size) THEN Append(wire, Chunk("offset", n - size.lb, 0))
               ELSE IF n > 0 /\ ~bare THEN Append(wire, Chunk("fixed", n, 0))
               ELSE wire
    /\ start' = n /\ pc' = "sent"
    /\ UNCHANGED <<Value, fate, at, got>>

Refuse ==
    /\ pc = "offset" /\ ~InRoot(size, n)
    /\ pc' = "refused"
    /\ UNCHANGED <<Value, start, wire, fate, at, got>>

\* Mutant: a count that is a multiple of the block size ends on a fragment.
EndsOnBlock ==
    /\ pc = "count" /\ n - start >= Unit
    /\ LET k == BlocksOf(n - start)
       IN  /\ wire' = Append(wire, Chunk("fragment", k, start))
           /\ start' = start + k * Unit
           /\ pc' = IF start' = n THEN "sent" ELSE pc
    /\ UNCHANGED <<Value, fate, at, got>>

\* put_length_and_items: a fragment of as many blocks as there are, at most four.
PutFragment ==
    /\ pc = "count" /\ n - start >= Unit
    /\ LET k == BlocksOf(n - start)
       IN  /\ wire' = Append(wire, Chunk("fragment", k, start))
           /\ start' = start + k * Unit
    /\ UNCHANGED <<pc, Value, fate, at, got>>

PutRest ==
    /\ pc = "count" /\ n - start < Unit
    /\ wire' = Append(wire, Chunk("length", n - start, start))
    /\ start' = n /\ pc' = "sent"
    /\ UNCHANGED <<Value, fate, at, got>>

-----------------------------------------------------------------------------
\* On the way: the end is lost, some of a chunk being all of it to a decoder;
\* or bits change, after which the decoder may read anything.
Cut(k) ==
    /\ pc = "sent" /\ fate = "intact" /\ k \in 0..(Len(wire) - 1)
    /\ wire' = SubSeq(wire, 1, k) /\ fate' = "cut"
    /\ UNCHANGED <<pc, Value, start, at, got>>

\* What the chunks hold no longer matters, only how many headers there are.
Change(k) ==
    /\ pc = "sent" /\ fate = "intact" /\ fate' = "changed"
    /\ wire' = [i \in 1..k |-> Chunk("length", 0, 0)]
    /\ UNCHANGED <<pc, Value, start, at, got>>

\* A chunk the decoder finds next: what was written or, after a change, any.
Finds(is, v) ==
    /\ at < Len(wire)
    /\ \/ fate # "changed" /\ wire[at + 1].is = is /\ wire[at + 1].v = v
       \/ fate = "changed" /\ CASE is = "bit" -> v \in {0, 1}
                                [] is = "offset" -> v \in 0..Wide[size]
                                [] is = "fixed" -> v = size.lb
                                [] is = "length" -> v \in 0..(Unit - 1)
                                [] is = "fragment" -> v \in 0..MaxHeader

\* Mutant: the end of the input is not an error.
WaitsForMore == at >= Len(wire) /\ UNCHANGED vars

Ends == at >= Len(wire) /\ pc' = "error" /\ UNCHANGED <<Value, start, wire, fate, at, got>>

\* Mutant: the limit is compared with what the list already holds.
TakesEarlier(m, then) ==
    /\ pc' = IF bare /\ got > Limit THEN "error" ELSE then
    /\ got' = IF bare /\ got > Limit THEN got ELSE got + m

\* m items behind the determinant just read: items without bits are refused when one fragment counts
\* more of them than the limit.
Takes(m, then) ==
    /\ pc' = IF bare /\ m > Limit THEN "error" ELSE then
    /\ got' = IF bare /\ m > Limit THEN got ELSE got + m

Open ==
    /\ pc = "sent"
    /\ pc' = IF Extensible(size) THEN "open" ELSE IF size.constrained THEN "number" ELSE "items"
    /\ UNCHANGED <<Value, start, wire, fate, at, got>>

\* decode_ext_size_and_items.
GetBit ==
    /\ pc = "open"
    /\ \/ Ends
       \/ \E v \in {0, 1} :
            /\ Finds("bit", v)
            /\ pc' = IF v = 1 THEN "items" ELSE "number"
            /\ at' = at + 1
            /\ UNCHANGED <<Value, start, wire, fate, got>>

\* decode_size_and_items: what the bits hold is not compared with ub.
GetOffset ==
    /\ pc = "number" /\ ~Fixed(size)
    /\ \/ Ends
       \/ \E v \in 0..Wide[size] :
            /\ Finds("offset", v) /\ Takes(size.lb + v, "whole")
            /\ at' = at + 1
            /\ UNCHANGED <<Value, start, wire, fate>>

GetFixed ==
    /\ pc = "number" /\ Fixed(size)
    /\ IF size.lb = 0 \/ bare
       THEN Takes(size.lb, "whole") /\ UNCHANGED <<Value, start, wire, fate, at>>
       ELSE \/ Ends
            \/ /\ Finds("fixed", size.lb) /\ Takes(size.lb, "whole")
               /\ at' = at + 1
               /\ UNCHANGED <<Value, start, wire, fate>>

\* Mutant: a fragment is taken for four blocks.
FragmentOfFour ==
    /\ pc = "items"
    /\ \E v \in 0..(Blocks + MaxHeader) :
        /\ Finds("fragment", v)
        /\ IF v \in 1..Blocks THEN Takes(Blocks * Unit, "items") ELSE pc' = "error" /\ UNCHANGED got
        /\ at' = at + 1
    /\ UNCHANGED <<Value, start, wire, fate>>

\* get_length_and_items: a fragment is 1 to 4 blocks.
GetFragment ==
    /\ pc = "items"
    /\ \E v \in 0..(Blocks + MaxHeader) :
        /\ Finds("fragment", v)
        /\ IF v \in 1..Blocks THEN Takes(v * Unit, "items") ELSE pc' = "error" /\ UNCHANGED got
        /\ at' = at + 1
    /\ UNCHANGED <<Value, start, wire, fate>>

\* Mutant: the end of the input ends a value that had a fragment.
EndIsRest ==
    /\ pc = "items"
    /\ \/ /\ at >= Len(wire)
          /\ pc' = IF got > 0 THEN "whole" ELSE "error"
          /\ UNCHANGED <<Value, start, wire, fate, at, got>>
       \/ \E v \in 0..(Unit - 1) :
            /\ Finds("length", v) /\ Takes(v, "whole")
            /\ at' = at + 1
            /\ UNCHANGED <<Value, start, wire, fate>>

GetRest ==
    /\ pc = "items"
    /\ \/ Ends
       \/ \E v \in 0..(Unit - 1) :
            /\ Finds("length", v) /\ Takes(v, "whole")
            /\ at' = at + 1
            /\ UNCHANGED <<Value, start, wire, fate>>

Encode == PutPrefix \/ PutOffset \/ Refuse \/ PutFragment \/ PutRest
Decode == Open \/ GetBit \/ GetOffset \/ GetFixed \/ GetFragment \/ GetRest

Next == Encode \/ (\E k \in 0..MaxCount : Cut(k) \/ Change(k)) \/ Decode

Spec == Init /\ [][Next]_vars

\* A codec call runs to its end: encode and decode are loops, not requests.
FairSpec == Spec /\ WF_vars(Encode) /\ WF_vars(Decode)

-----------------------------------------------------------------------------
\* Items written and items read stay within the value while nothing is damaged.
TypeOK ==
    /\ pc \in {"prefix", "offset", "count", "sent", "open", "number", "items",
               "whole", "error", "refused"}
    /\ n \in Nat /\ size \in Sizes /\ bare \in BOOLEAN
    /\ start \in 0..n /\ got \in Nat /\ at \in 0..Len(wire)
    /\ fate \in {"intact", "cut", "changed"}
    /\ wire \in Seq([is : {"bit", "offset", "fixed", "length", "fragment"},
                     v : Nat, from : Nat])

\* An encoding that arrives intact decodes to as many items as were encoded,
\* whatever the count and the SIZE: at 0, at a multiple of 16K, in and out of
\* an extensible root (put_length_and_items against get_length_and_items).
IntactIsWhole ==
    /\ pc = "whole" /\ fate = "intact" => got = n /\ at = Len(wire)
    /\ pc = "error" /\ fate = "intact" => bare /\ n > Limit

\* No prefix of an encoding decodes: an end that is lost is noticed, also when
\* it is only the closing length of 0 after the last full fragment.
CutIsNoticed == fate = "cut" => pc # "whole"

\* book.md: "at most 200 zero-width list items": the limit holds for the whole
\* list although it is compared fragment by fragment.
BareListsAreShort == bare => got <= Limit

\* Every decode ends, on damaged input too: each turn of the loop takes a
\* header off the input.
EveryCallEnds == <>(pc \in {"whole", "error", "refused"})

\* The items of an intact encoding are those of the abstract transfer.
Abstract == INSTANCE Transfer WITH
    want <- n,
    have <- IF fate = "changed" THEN 0 ELSE got,
    end <- IF pc \in {"refused", "error"} \/ (pc = "whole" /\ fate = "changed") THEN "error"
           ELSE IF pc = "whole" THEN "whole" ELSE "open"

\* Cut or not, the decoder's fragments are a transfer of the encoder's items,
\* in order, that ends with all of them or with an error.
ImplementsTransfer == Abstract!Spec
=============================================================================
