---------------------------- MODULE SegmentStore ----------------------------
(***************************************************************************)
(* What a volume promises to whoever looks only at the device: a row of    *)
(* segments that are claimed in order, of which only the newest can still  *)
(* be finalized, and which, once finalized, hold their own records, each   *)
(* once and in order, for ever.  A segment left open by a crash stays open *)
(* unless its slot was never entered in the header: then the next claim    *)
(* takes the same slot again.  No process, buffer or I/O appears here.     *)
(***************************************************************************)
EXTENDS Naturals

CONSTANT SegmentSlots   \* toc_slot_count

VARIABLES
    state,      \* of each slot
    records     \* of each slot: what its segment holds, once finalized

Slots == 0 .. SegmentSlots - 1

\* recs are records of slot g's segment alone, from its first, without a gap.
Own(g, recs) == \A k \in DOMAIN recs : recs[k].seg = g /\ recs[k].seq = k - 1

Init ==
    /\ state = [g \in Slots |-> "FREE"]
    /\ records = [g \in Slots |-> <<>>]

\* Slots are handed out from the first to the last without a hole.
Newest(g) ==
    /\ \A h \in 0 .. g - 1 : state[h] # "FREE"
    /\ \A h \in g + 1 .. SegmentSlots - 1 : state[h] = "FREE"

Claim(g) ==
    /\ state[g] = "FREE" /\ Newest(g)
    /\ state' = [state EXCEPT ![g] = "OPEN"]
    /\ UNCHANGED records

Finalize(g) ==
    /\ state[g] = "OPEN" /\ Newest(g)
    /\ state' = [state EXCEPT ![g] = "FINALIZED"]
    /\ Own(g, records'[g])
    /\ \A h \in Slots \ {g} : records'[h] = records[h]

Next == \E g \in Slots : Claim(g) \/ Finalize(g)

Spec == Init /\ [][Next]_<<state, records>>
=============================================================================
