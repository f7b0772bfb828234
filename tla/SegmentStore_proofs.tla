------------------------ MODULE SegmentStore_proofs ------------------------
(***************************************************************************)
(* What a reader of a volume may rely on, proved from SegmentStore alone;  *)
(* every program that implements the store inherits it.                    *)
(***************************************************************************)
EXTENDS SegmentStore, TLAPS

storeVars == <<state, records>>

States == {"FREE", "OPEN", "FINALIZED"}

\* No slot is handed out while one before it is free.
NoHoles == \A g, h \in Slots : state[g] # "FREE" /\ h < g => state[h] # "FREE"

\* A finalized segment holds its own records.
Readable == \A g \in Slots : state[g] = "FINALIZED" => Own(g, records[g])

StoreInv == state \in [Slots -> States] /\ NoHoles /\ Readable

LEMMA InitStore == Init => StoreInv
<1> SUFFICES ASSUME Init PROVE StoreInv
  OBVIOUS
<1>1. state \in [Slots -> States]
  BY DEF Init, States
<1>2. NoHoles
  BY DEF Init, NoHoles
<1>3. Readable
  BY DEF Init, Readable
<1>4. QED
  BY <1>1, <1>2, <1>3 DEF StoreInv

LEMMA ClaimStore ==
  ASSUME StoreInv, NEW c \in Slots, Claim(c)
  PROVE  StoreInv'
<1>1. state' \in [Slots -> States]
  BY DEF StoreInv, Claim, States
<1>2. \A h \in Slots : state'[h] = IF h = c THEN "OPEN" ELSE state[h]
  BY DEF StoreInv, Claim
<1>3. NoHoles'
  <2> SUFFICES ASSUME NEW g \in Slots, NEW h \in Slots,
                      state'[g] # "FREE", h < g
               PROVE  state'[h] # "FREE"
    BY DEF NoHoles
  <2>1. h \in 0 .. g - 1
    BY DEF Slots
  <2>2. CASE g = c
    BY <1>2, <2>1, <2>2 DEF Claim, Newest
  <2>3. CASE g # c
    BY <1>2, <2>1, <2>3 DEF StoreInv, NoHoles
  <2>4. QED
    BY <2>2, <2>3
<1>4. Readable'
  BY <1>2 DEF StoreInv, Readable, Claim
<1>5. QED
  BY <1>1, <1>3, <1>4 DEF StoreInv

LEMMA FinalizeStore ==
  ASSUME StoreInv, NEW c \in Slots, Finalize(c)
  PROVE  StoreInv'
<1>1. state' \in [Slots -> States]
  BY DEF StoreInv, Finalize, States
<1>2. \A h \in Slots : state'[h] = IF h = c THEN "FINALIZED" ELSE state[h]
  BY DEF StoreInv, Finalize
<1>3. NoHoles'
  <2> SUFFICES ASSUME NEW g \in Slots, NEW h \in Slots,
                      state'[g] # "FREE", h < g
               PROVE  state'[h] # "FREE"
    BY DEF NoHoles
  <2>1. h \in 0 .. g - 1
    BY DEF Slots
  <2>2. CASE g = c
    BY <1>2, <2>1, <2>2 DEF Finalize, Newest
  <2>3. CASE g # c
    BY <1>2, <2>1, <2>3 DEF StoreInv, NoHoles
  <2>4. QED
    BY <2>2, <2>3
<1>4. Readable'
  <2> SUFFICES ASSUME NEW g \in Slots, state'[g] = "FINALIZED"
               PROVE  Own(g, records'[g])
    BY DEF Readable
  <2>1. CASE g = c
    BY <2>1 DEF Finalize
  <2>2. CASE g # c
    <3>1. state[g] = "FINALIZED" /\ records'[g] = records[g]
      BY <1>2, <2>2 DEF Finalize
    <3>2. QED
      BY <3>1 DEF StoreInv, Readable
  <2>3. QED
    BY <2>1, <2>2
<1>5. QED
  BY <1>1, <1>3, <1>4 DEF StoreInv

\* The step of an implementation that maps to a stutter.
LEMMA StutterStore ==
  ASSUME StoreInv, UNCHANGED storeVars
  PROVE  StoreInv'
  BY DEF StoreInv, NoHoles, Readable, Own, storeVars

\* In every state a dump of a finalized segment shows this segment's records
\* alone, from the first on and without a gap, and no claimed slot lies behind
\* a free one, where a list or the next claim would miss it.
THEOREM StoreIsReadable == Spec => [](NoHoles /\ Readable)
<1>1. Init => StoreInv
  BY InitStore
<1>2. StoreInv /\ [Next]_storeVars => StoreInv'
  BY ClaimStore, FinalizeStore, StutterStore DEF Next
<1>3. StoreInv => NoHoles /\ Readable
  BY DEF StoreInv
<1>4. QED
  BY <1>1, <1>2, <1>3, PTL DEF Spec, storeVars

\* What was finalized stays finalized and reads the same for ever.
THEOREM FinalizedForever ==
  Spec => [][\A g \in Slots : state[g] = "FINALIZED" =>
                state'[g] = "FINALIZED" /\ records'[g] = records[g]]_storeVars
<1> DEFINE Kept == \A g \in Slots : state[g] = "FINALIZED" =>
                      state'[g] = "FINALIZED" /\ records'[g] = records[g]
<1>1. ASSUME StoreInv, NEW c \in Slots, Claim(c) PROVE Kept
  BY <1>1 DEF StoreInv, Claim
<1>2. ASSUME StoreInv, NEW c \in Slots, Finalize(c) PROVE Kept
  BY <1>2 DEF StoreInv, Finalize
<1>3. StoreInv /\ [Next]_storeVars => [Kept]_storeVars
  BY <1>1, <1>2 DEF Next
<1>4. Init => StoreInv
  BY InitStore
<1>5. StoreInv /\ [Next]_storeVars => StoreInv'
  BY ClaimStore, FinalizeStore, StutterStore DEF Next
<1>6. QED
  BY <1>3, <1>4, <1>5, PTL DEF Spec, storeVars
=============================================================================
