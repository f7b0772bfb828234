------------------------ MODULE RecorderStore_proofs ------------------------
(***************************************************************************)
(* What a reader finds on the device, for every value of the constants     *)
(* that satisfies Ample and a device that fails no write: a finalized      *)
(* segment reads back as its own records (FinalizedIsAuthoritative), and   *)
(* the recorder implements SegmentStore.                                   *)
(*                                                                         *)
(* The inductive invariant is Readable: the blocks of the open segment, as *)
(* they will be once all that is outstanding is performed, hold a chain of *)
(* records without a gap, and the current buffer holds the rest of those   *)
(* counted.                                                                *)
(***************************************************************************)
EXTENDS Recorder_proofs, SequenceTheorems, WellFoundedInduction

-----------------------------------------------------------------------------
(* Induction over a bounded range *)

\* A set of numbers has a least one: the induction the proofs below use.
LEMMA Least ==
    ASSUME NEW T \in SUBSET Nat, T # {}
    PROVE  \E m \in T : \A k \in T : m <= k
<1> DEFINE R == {ss \in Nat \X Nat : ss[1] < ss[2]}
<1>1. IsWellFoundedOn(R, Nat) BY NatLessThanWellFounded DEF OpToRel
<1>2. \A x, y \in Nat : <<y, x>> \in R <=> y < x OBVIOUS
<1> HIDE DEF R
<1>3. PICK m \in T : \A k \in T : ~(<<k, m>> \in R) BY <1>1, WFMin
<1>4. ASSUME NEW k \in T PROVE m <= k
  <2>1. m \in Nat /\ k \in Nat OBVIOUS
  <2>2. ~(k < m) BY <1>2, <1>3, <2>1
  <2>3. QED BY <2>1, <2>2
<1>5. QED BY <1>4

\* What holds at n, and at every k of a set whose later members have it, holds
\* at every member: induction from the end.
LEMMA Descent ==
    ASSUME NEW n \in Nat, NEW K \in SUBSET (0 .. n), NEW S,
           \A k \in K : (\A j \in K : k < j => j \in S) => k \in S
    PROVE  K \subseteq S
<1> DEFINE T == {i \in 0 .. n : n - i \in K \ S}
<1>1. SUFFICES ASSUME T # {} PROVE FALSE
  <2>1. SUFFICES ASSUME NEW k \in K, k \notin S PROVE T # {} BY DEF T
  <2>2. n - k \in 0 .. n /\ n - (n - k) = k OBVIOUS
  <2>3. n - k \in T BY <2>1, <2>2
  <2>4. QED BY <2>3
<1>2. T \in SUBSET Nat OBVIOUS
<1>3. PICK m \in T : \A i \in T : m <= i BY <1>1, <1>2, Least
<1>4. n - m \in K /\ n - m \notin S /\ m \in 0 .. n BY <1>3
<1>5. ASSUME NEW j \in K, n - m < j PROVE j \in S
  <2>1. SUFFICES ASSUME j \notin S PROVE FALSE OBVIOUS
  <2>2. j \in 0 .. n /\ n - j \in 0 .. n /\ n - (n - j) = j OBVIOUS
  <2>3. n - j \in T BY <2>1, <2>2
  <2>4. m <= n - j BY <1>3, <2>3
  <2>5. QED BY <1>4, <1>5, <2>2, <2>4
<1>6. QED BY <1>4, <1>5

-----------------------------------------------------------------------------
(* Reading a row of pieces, each of which names the next *)

\* f[k] is what is read from k on, up to a place where reading stops.
Recurs(f, n, stop, head, next) ==
    f = [k \in 0 .. n |-> IF stop[k] THEN <<>> ELSE head[k] \o f[next[k]]]

LEMMA RecursExists ==
    ASSUME NEW n \in Nat, NEW stop, NEW head, NEW next,
           \A k \in 0 .. n : ~stop[k] => next[k] \in 0 .. n /\ k < next[k]
    PROVE  \E f : Recurs(f, n, stop, head, next)
<1> DEFINE Val(f, k) == IF stop[k] THEN <<>> ELSE head[k] \o f[next[k]]
           Is(f, i) == f = [k \in 0 .. n |->
                              IF k < i THEN <<>> ELSE Val(f, k)]
           S == {i \in 0 .. n : \E f : Is(f, i)}
<1>1. ASSUME NEW i \in 0 .. n, \A j \in 0 .. n : i < j => j \in S
      PROVE  i \in S
  <2>1. PICK f : \A k \in 0 .. n : i < k => f[k] = Val(f, k)
    <3>1. CASE i = n
      <4>1. \A k \in 0 .. n : ~(i < k) BY <3>1
      <4>2. QED BY <4>1
    <3>2. CASE i # n
      <4>1. i + 1 \in 0 .. n /\ i < i + 1 BY <3>2
      <4>2. i + 1 \in S BY <1>1, <4>1
      <4>3. PICK f : Is(f, i + 1) BY <4>2
      <4>4. ASSUME NEW k \in 0 .. n, i < k PROVE f[k] = Val(f, k)
        <5>1. ~(k < i + 1) BY <4>4
        <5>2. f[k] = IF k < i + 1 THEN <<>> ELSE Val(f, k) BY <4>3
        <5>3. QED BY <5>1, <5>2
      <4>5. QED BY <4>4
    <3>3. QED BY <3>1, <3>2
  <2> DEFINE g == [k \in 0 .. n |->
                     IF k < i THEN <<>> ELSE Val(f, k)]
  <2>2. ASSUME NEW k \in 0 .. n, i < k PROVE g[k] = f[k]
    <3>1. ~(k < i) BY <2>2
    <3>2. g[k] = Val(f, k) BY <3>1
    <3> HIDE DEF g, Val
    <3>3. QED BY <2>1, <2>2, <3>2
  <2>3. ASSUME NEW k \in 0 .. n, ~(k < i) PROVE Val(g, k) = Val(f, k)
    <3>1. CASE stop[k] BY <3>1
    <3>2. CASE ~stop[k]
      <4>1. next[k] \in 0 .. n /\ i < next[k] BY <2>3, <3>2
      <4>2. g[next[k]] = f[next[k]] BY <2>2, <4>1
      <4> HIDE DEF g
      <4>3. QED BY <4>2
    <3>3. QED BY <3>1, <3>2
  <2> DEFINE h == [k \in 0 .. n |->
                     IF k < i THEN <<>> ELSE Val(g, k)]
  <2>4. ASSUME NEW k \in 0 .. n PROVE g[k] = h[k]
    <3>1. g[k] = (IF k < i THEN <<>> ELSE Val(f, k))
          /\ h[k] = (IF k < i THEN <<>> ELSE Val(g, k))
      OBVIOUS
    <3> HIDE DEF g, h, Val
    <3>2. QED BY <2>3, <3>1
  <2>5. g = h BY <2>4
  <2>6. Is(g, i) BY <2>5
  <2> HIDE DEF g, Is
  <2>7. QED BY <2>6
<1>2. 0 .. n \subseteq S
  <2> DEFINE K == 0 .. n
  <2>1. K \in SUBSET (0 .. n) OBVIOUS
  <2>2. \A k \in K : (\A j \in K : k < j => j \in S) => k \in S BY <1>1
  <2> HIDE DEF S, K
  <2>3. K \subseteq S BY <2>1, <2>2, Descent
  <2>4. QED BY <2>3 DEF K
<1>3. 0 \in 0 .. n OBVIOUS
<1>4. PICK f : Is(f, 0) BY <1>2, <1>3
<1> DEFINE e == [k \in 0 .. n |-> IF stop[k] THEN <<>>
                                  ELSE head[k] \o f[next[k]]]
<1>5. ASSUME NEW k \in 0 .. n PROVE f[k] = e[k]
  <2>1. ~(k < 0) OBVIOUS
  <2>2. f[k] = IF k < 0 THEN <<>> ELSE Val(f, k) BY <1>4
  <2>3. QED BY <2>1, <2>2
<1> DEFINE e0 == [k \in 0 .. n |-> IF k < 0 THEN <<>> ELSE Val(f, k)]
<1>6. f = e
  <2>1. f = e0 BY <1>4
  <2>2. \A k \in 0 .. n : e0[k] = e[k] BY <1>5, <2>1
  <2>3. e0 = e BY <2>2
  <2>4. QED BY <2>1, <2>3
<1> HIDE DEF e
<1>7. QED BY <1>6 DEF Recurs, e

\* Pieces that are sequences of records make such sequences.
LEMMA RecursSeq ==
    ASSUME NEW n \in Nat, NEW stop, NEW head, NEW next,
           \A k \in 0 .. n : ~stop[k] => /\ next[k] \in 0 .. n /\ k < next[k]
                                         /\ head[k] \in Seq(Cell),
           NEW f, Recurs(f, n, stop, head, next), NEW i \in 0 .. n
    PROVE  f[i] \in Seq(Cell)
<1> DEFINE S == {k \in 0 .. n : f[k] \in Seq(Cell)}
           K == 0 .. n
<1>1. ASSUME NEW k \in 0 .. n, \A j \in 0 .. n : k < j => j \in S
      PROVE  k \in S
  <2> DEFINE e == [j \in 0 .. n |-> IF stop[j] THEN <<>>
                                   ELSE head[j] \o f[next[j]]]
  <2>1. f = e BY DEF Recurs
  <2>2. f[k] = IF stop[k] THEN <<>> ELSE head[k] \o f[next[k]]
    <3>1. e[k] = IF stop[k] THEN <<>> ELSE head[k] \o f[next[k]] OBVIOUS
    <3> HIDE DEF e
    <3>2. QED BY <2>1, <3>1
  <2> HIDE DEF e
  <2>3. CASE stop[k]
    <3>1. f[k] = <<>> BY <2>2, <2>3
    <3>2. <<>> \in Seq(Cell) BY EmptySeq
    <3>3. QED BY <3>1, <3>2
  <2>4. CASE ~stop[k]
    <3>1. head[k] \in Seq(Cell) /\ f[next[k]] \in Seq(Cell)
      BY <1>1, <2>4
    <3>2. head[k] \o f[next[k]] \in Seq(Cell)
      BY <3>1, ConcatProperties
    <3>3. QED BY <2>2, <2>4, <3>2
  <2>5. QED BY <2>3, <2>4
<1>2. K \in SUBSET (0 .. n) OBVIOUS
<1>3. \A k \in K : (\A j \in K : k < j => j \in S) => k \in S BY <1>1
<1>4. K \subseteq S
  <2> HIDE DEF S, K
  <2>1. QED BY <1>2, <1>3, Descent
<1>5. QED BY <1>4

\* P holds the records a .. z - 1 of segment g, each once and in order.
Runs(P, g, a, z) ==
    /\ P \in Seq(Cell)
    /\ Len(P) + a = z
    /\ \A j \in 1 .. Len(P) : P[j].seg = g /\ P[j].seq = a + j - 1

LEMMA RunsNothing == ASSUME NEW g, NEW a \in Nat PROVE Runs(<<>>, g, a, a)
  BY EmptySeq DEF Runs

LEMMA RunsOn ==
    ASSUME NEW g, NEW a \in Nat, NEW b \in Nat, NEW z \in Nat,
           NEW P, Runs(P, g, a, b), NEW Q, Runs(Q, g, b, z)
    PROVE  Runs(P \o Q, g, a, z)
<1>1. P \in Seq(Cell) /\ Q \in Seq(Cell) BY DEF Runs
<1> DEFINE R == P \o Q
           p == Len(P)
           q == Len(Q)
<1>2. /\ R \in Seq(Cell) /\ Len(R) = p + q
      /\ \A i \in 1 .. p + q : R[i] = IF i <= p THEN P[i] ELSE Q[i - p]
  BY <1>1, ConcatProperties
<1>3. p \in Nat /\ q \in Nat /\ p + a = b /\ q + b = z
  BY <1>1, LenProperties DEF Runs
<1>4. /\ \A j \in 1 .. p : P[j].seg = g /\ P[j].seq = a + j - 1
      /\ \A j \in 1 .. q : Q[j].seg = g /\ Q[j].seq = b + j - 1
  BY DEF Runs
<1> HIDE DEF R, p, q
<1>5. ASSUME NEW j \in 1 .. p + q PROVE R[j].seg = g /\ R[j].seq = a + j - 1
  <2>1. CASE j <= p
    <3>1. j \in 1 .. p /\ R[j] = P[j] BY <1>2, <1>3, <2>1
    <3>2. QED BY <1>4, <3>1
  <2>2. CASE ~(j <= p)
    <3>1. j - p \in 1 .. q /\ R[j] = Q[j - p] BY <1>2, <1>3, <2>2
    <3>2. Q[j - p].seg = g /\ Q[j - p].seq = b + (j - p) - 1
      BY <1>4, <3>1
    <3>3. b + (j - p) - 1 = a + j - 1 BY <1>3
    <3>4. QED BY <3>1, <3>2, <3>3
  <2>3. QED BY <2>1, <2>2
<1>6. (p + q) + a = z BY <1>3
<1>7. Runs(R, g, a, z) BY <1>2, <1>5, <1>6 DEF Runs
<1>8. QED BY <1>7 DEF R

LEMMA Associative ==
    ASSUME NEW P \in Seq(Cell), NEW Q \in Seq(Cell), NEW R \in Seq(Cell)
    PROVE  P \o (Q \o R) = (P \o Q) \o R
<1> DEFINE C == Cell
<1>1. P \in Seq(C) /\ Q \in Seq(C) /\ R \in Seq(C) OBVIOUS
<1> HIDE DEF C
<1>2. (P \o Q) \o R = P \o (Q \o R) BY <1>1, ConcatAssociative
<1>3. QED BY <1>2

\* The pieces K, among the places 0 .. n, and e, to which the last leads:
\* piece k holds the records from m[k] up to those of piece next[k].
Row(n, e, K, g, m, next, head) ==
    /\ n \in Nat /\ e \in 0 .. n /\ K \in SUBSET (0 .. n) /\ e \notin K
    /\ \A k \in K \cup {e} : m[k] \in Nat
    /\ \A k \in K : /\ next[k] \in K \cup {e}
                    /\ k < next[k]
                    /\ Runs(head[k], g, m[k], m[next[k]])

Reads(f, e, K, next, head) ==
    /\ \A k \in K : f[k] = head[k] \o f[next[k]]
    /\ f[e] \in Seq(Cell)

\* Readers f and h find the same records m[i] .. m[e] - 1 from i up to e.
Alike(f, h, i, e, g, m) ==
    \E P : Runs(P, g, m[i], m[e]) /\ f[i] = P \o f[e] /\ h[i] = P \o h[e]

\* Any two readers of a row do.
LEMMA ReadsOn ==
    ASSUME NEW n, NEW e, NEW K, NEW g, NEW m, NEW next, NEW head,
           Row(n, e, K, g, m, next, head),
           NEW f, Reads(f, e, K, next, head),
           NEW h, Reads(h, e, K, next, head),
           NEW i \in K \cup {e}
    PROVE  Alike(f, h, i, e, g, m)
<1> USE DEF Row, Reads
<1> DEFINE Found(k, P) ==
              Runs(P, g, m[k], m[e]) /\ f[k] = P \o f[e] /\ h[k] = P \o h[e]
           S == {k \in K \cup {e} : \E P : Found(k, P)}
           KE == K \cup {e}
<1>1. e \in S
  <2>1. Runs(<<>>, g, m[e], m[e]) BY RunsNothing
  <2>2. f[e] = <<>> \o f[e] /\ h[e] = <<>> \o h[e] BY ConcatEmptySeq
  <2>3. Found(e, <<>>) BY <2>1, <2>2
  <2> HIDE DEF Found
  <2>4. QED BY <2>3
<1>2. ASSUME NEW k \in K, next[k] \in S PROVE k \in S
  <2>1. PICK Q : Found(next[k], Q) BY <1>2
  <2> DEFINE P == head[k] \o Q
  <2>2. Runs(P, g, m[k], m[e])
    <3>1. m[k] \in Nat /\ m[next[k]] \in Nat /\ m[e] \in Nat OBVIOUS
    <3>2. QED BY <2>1, <3>1, RunsOn
  <2>3. head[k] \in Seq(Cell) /\ Q \in Seq(Cell) BY <2>1 DEF Runs
  <2>4. /\ head[k] \o (Q \o f[e]) = P \o f[e]
        /\ head[k] \o (Q \o h[e]) = P \o h[e]
    BY <2>3, Associative
  <2>5. f[k] = head[k] \o (Q \o f[e]) /\ h[k] = head[k] \o (Q \o h[e])
    BY <2>1
  <2>6. Found(k, P) BY <2>2, <2>4, <2>5
  <2> HIDE DEF Found, P
  <2>7. QED BY <2>6
<1>3. KE \in SUBSET (0 .. n) OBVIOUS
<1>4. ASSUME NEW k \in KE, \A j \in KE : k < j => j \in S PROVE k \in S
  <2> HIDE DEF S
  <2>1. CASE k = e BY <1>1, <2>1
  <2>2. CASE k # e
    <3>1. k \in K BY <2>2
    <3>2. next[k] \in KE /\ k < next[k] BY <3>1
    <3>3. next[k] \in S BY <1>4, <3>2
    <3>4. QED BY <1>2, <3>1, <3>3
  <2>3. QED BY <2>1, <2>2
<1>5. KE \subseteq S
  <2> HIDE DEF S, KE
  <2>1. QED BY <1>3, <1>4, Descent
<1>6. i \in S BY <1>5
<1>7. QED BY <1>6 DEF Alike

-----------------------------------------------------------------------------
(* What a chunk holds *)

\* The first u units of chunk c hold the records a .. z - 1 of segment g.
Holds(c, u, g, a, z) ==
    /\ a <= z /\ z - a <= u
    /\ u = 0 => a = z
    /\ u > 0 => c[0].len > 0 /\ c[0].seq = a
    /\ \A k \in 0 .. u - 1 : c[k].len > 0 =>
          /\ c[k].seg = g
          /\ k + c[k].len <= u
          /\ IF k + c[k].len = u THEN c[k].seq + 1 = z
             ELSE /\ c[k + c[k].len].len > 0
                  /\ c[k + c[k].len].seq = c[k].seq + 1

\* As flush_buffer leaves a chunk: records, and zeros behind them.
Sealed(c, g, a, z) ==
    \E u \in 1 .. BufSize :
       /\ Holds(c, u, g, a, z)
       /\ \A k \in u .. BufSize - 1 : c[k] = Blank

LEMMA UnitTypes ==
    /\ BufSize \in Nat /\ BufSize > 0
    /\ \A c \in Chunk : \A k \in 0 .. BufSize - 1 :
          /\ c[k] \in Cell /\ c[k].len \in Nat /\ c[k].seq \in Nat
          /\ c[k].seg \in Nat
    /\ Blank \in Cell /\ Blank.len = 0
<1>1. BufSize \in Nat /\ BufSize > 0 BY RecorderAssumption
<1>2. \A c \in Chunk : \A k \in 0 .. BufSize - 1 : c[k] \in Cell BY DEF Chunk
<1>3. \A x \in Cell : x.len \in Nat /\ x.seq \in Nat /\ x.seg \in Nat
  BY DEF Cell
<1>4. Blank \in Cell /\ Blank.len = 0 BY DEF Blank, Cell
<1>5. QED BY <1>1, <1>2, <1>3, <1>4

\* The function dump_chunk_read_complete's walk over chunk c computes.
WalkFrom(c, f) == \A k \in 0 .. BufSize :
    /\ f[k] \in Seq(Cell)
    /\ f[k] = IF k = BufSize THEN <<>>
              ELSE IF c[k].len = 0 \/ k + c[k].len > BufSize THEN <<>>
              ELSE <<c[k]>> \o f[k + c[k].len]

LEMMA WalkExists ==
    ASSUME NEW c \in Chunk
    PROVE  \E f : Walk(c) = f[0] /\ WalkFrom(c, f)
<1> DEFINE Stops(k) == k = BufSize \/ c[k].len = 0 \/ k + c[k].len > BufSize
           stop == [k \in 0 .. BufSize |-> Stops(k)]
           head == [k \in 0 .. BufSize |-> <<c[k]>>]
           next == [k \in 0 .. BufSize |-> k + c[k].len]
           Val(f, k) == IF k = BufSize THEN <<>>
                        ELSE IF c[k].len = 0 \/ k + c[k].len > BufSize
                             THEN <<>>
                        ELSE <<c[k]>> \o f[k + c[k].len]
           Eq(f) == f = [k \in 0 .. BufSize |->
                           IF k = BufSize THEN <<>>
                           ELSE IF c[k].len = 0 \/ k + c[k].len > BufSize
                                THEN <<>>
                           ELSE <<c[k]>> \o f[k + c[k].len]]
           from == CHOOSE f : Eq(f)
<1>1. Walk(c) = from[0] BY DEF Walk
<1>2. \A k \in 0 .. BufSize :
         ~stop[k] => /\ next[k] \in 0 .. BufSize /\ k < next[k]
                     /\ head[k] \in Seq(Cell)
  <2>1. SUFFICES ASSUME NEW k \in 0 .. BufSize, ~stop[k]
                 PROVE  /\ next[k] \in 0 .. BufSize /\ k < next[k]
                        /\ head[k] \in Seq(Cell)
    OBVIOUS
  <2>2. ~Stops(k) BY <2>1
  <2>3. k \in 0 .. BufSize - 1 BY <2>2, UnitTypes
  <2>4. c[k].len \in Nat /\ c[k].len # 0 /\ ~(k + c[k].len > BufSize)
        /\ c[k] \in Cell
    BY <2>2, <2>3, UnitTypes
  <2>5. next[k] = k + c[k].len /\ head[k] = <<c[k]>> OBVIOUS
  <2>6. <<c[k]>> \in Seq(Cell) BY <2>4
  <2> HIDE DEF next, head
  <2>7. QED BY <2>4, <2>5, <2>6, UnitTypes
<1>3. PICK f0 : Recurs(f0, BufSize, stop, head, next)
  <2> HIDE DEF stop, head, next
  <2>1. QED BY <1>2, UnitTypes, RecursExists
<1>4. ASSUME NEW f, NEW k \in 0 .. BufSize
      PROVE  (IF stop[k] THEN <<>> ELSE head[k] \o f[next[k]]) = Val(f, k)
  OBVIOUS
<1>5. ASSUME NEW f PROVE Recurs(f, BufSize, stop, head, next) <=> Eq(f)
  <2> DEFINE e1 == [k \in 0 .. BufSize |->
                      IF stop[k] THEN <<>> ELSE head[k] \o f[next[k]]]
             e2 == [k \in 0 .. BufSize |-> Val(f, k)]
  <2>1. e1 = e2
    <3> HIDE DEF stop, head, next, Val
    <3>1. QED BY <1>4
  <2>2. Recurs(f, BufSize, stop, head, next) <=> f = e1 BY DEF Recurs
  <2>3. Eq(f) <=> f = e2 OBVIOUS
  <2> HIDE DEF e1, e2, Eq, stop, head, next
  <2>4. QED BY <2>1, <2>2, <2>3
<1>6. Eq(from)
  <2> HIDE DEF Eq, stop, head, next
  <2>1. QED BY <1>3, <1>5
<1>7. Recurs(from, BufSize, stop, head, next)
  <2> HIDE DEF Eq, stop, head, next, from
  <2>1. QED BY <1>5, <1>6
<1> HIDE DEF from
<1>8. ASSUME NEW k \in 0 .. BufSize PROVE from[k] \in Seq(Cell)
  <2> HIDE DEF stop, head, next
  <2>1. QED BY <1>2, <1>7, UnitTypes, RecursSeq
<1>9. ASSUME NEW k \in 0 .. BufSize PROVE from[k] = Val(from, k)
  BY <1>6
<1>10. WalkFrom(c, from) BY <1>8, <1>9 DEF WalkFrom
<1>11. QED BY <1>1, <1>10

LEMMA WalkIsSeq == ASSUME NEW c \in Chunk PROVE Walk(c) \in Seq(Cell)
<1>1. PICK f : Walk(c) = f[0] /\ WalkFrom(c, f) BY WalkExists
<1>2. 0 \in 0 .. BufSize BY UnitTypes
<1>3. QED BY <1>1, <1>2 DEF WalkFrom

\* dump_chunk_read_complete's walk over a sealed chunk finds its records.
LEMMA WalkReads ==
    ASSUME NEW c \in Chunk, NEW g, NEW a \in Nat, NEW z \in Nat,
           Sealed(c, g, a, z)
    PROVE  Runs(Walk(c), g, a, z)
<1>1. PICK from : Walk(c) = from[0] /\ WalkFrom(c, from) BY WalkExists
<1> DEFINE head == [k \in 0 .. BufSize |-> <<c[k]>>]
           next == [k \in 0 .. BufSize |-> k + c[k].len]
<1>5. \A k \in 0 .. BufSize :
         from[k] = IF k = BufSize THEN <<>>
                   ELSE IF c[k].len = 0 \/ k + c[k].len > BufSize THEN <<>>
                   ELSE <<c[k]>> \o from[k + c[k].len]
  BY <1>1 DEF WalkFrom
<1>6. PICK u \in 1 .. BufSize :
        Holds(c, u, g, a, z) /\ \A k \in u .. BufSize - 1 : c[k] = Blank
  BY DEF Sealed
<1>7. u \in 0 .. BufSize /\ u \in Nat /\ u > 0 BY UnitTypes
<1> DEFINE K == {k \in 0 .. u - 1 : c[k].len > 0}
           m == [k \in 0 .. BufSize |-> IF k = u THEN z ELSE c[k].seq]
<1>8. from[u] = <<>>
  <2>1. from[u] = IF u = BufSize THEN <<>>
                  ELSE IF c[u].len = 0 \/ u + c[u].len > BufSize
                       THEN <<>>
                  ELSE <<c[u]>> \o from[u + c[u].len]
    BY <1>5, <1>7
  <2>2. u # BufSize => c[u].len = 0
    <3>1. SUFFICES ASSUME u # BufSize PROVE c[u].len = 0 OBVIOUS
    <3>2. u \in u .. BufSize - 1 BY <1>7, <3>1, UnitTypes
    <3>3. QED BY <1>6, <3>2, UnitTypes
  <2>3. QED BY <2>1, <2>2
<1>9. ASSUME NEW k \in K
      PROVE  /\ k \in 0 .. BufSize - 1 /\ k \in 0 .. BufSize /\ k < u
             /\ m[k] = c[k].seq /\ m[k] \in Nat
             /\ next[k] \in K \cup {u} /\ k < next[k]
             /\ m[next[k]] = m[k] + 1
             /\ c[k].seg = g /\ c[k] \in Cell
             /\ from[k] = head[k] \o from[next[k]]
  <2>1. k \in 0 .. u - 1 /\ c[k].len > 0 OBVIOUS
  <2>2. k \in 0 .. BufSize - 1 /\ k \in 0 .. BufSize /\ k < u /\ k # u
        /\ k # BufSize
    BY <1>7, <2>1, UnitTypes
  <2>3. c[k] \in Cell /\ c[k].len \in Nat /\ c[k].seq \in Nat
    BY <2>2, UnitTypes
  <2> DEFINE j == k + c[k].len
  <2>4. /\ c[k].seg = g /\ j <= u
        /\ IF j = u THEN c[k].seq + 1 = z
           ELSE c[j].len > 0 /\ c[j].seq = c[k].seq + 1
    BY <1>6, <2>1 DEF Holds
  <2>5. m[k] = c[k].seq BY <2>2
  <2>6. next[k] = j BY <2>2
  <2>7. j \in Nat /\ k < j
    BY <2>1, <2>2, <2>3, UnitTypes
  <2> HIDE DEF next
  <2>8. j \in 0 .. BufSize BY <1>7, <2>4, <2>7, UnitTypes
  <2>9. j \in K \cup {u}
    <3>1. CASE j = u BY <3>1
    <3>2. CASE j # u
      <4>1. j \in 0 .. u - 1 BY <1>7, <2>4, <2>7, <3>2
      <4>2. c[j].len > 0 BY <2>4, <3>2
      <4> HIDE DEF j
      <4>3. QED BY <4>1, <4>2
    <3>3. QED BY <3>1, <3>2
  <2>10. m[j] = m[k] + 1
    <3>1. m[j] = IF j = u THEN z ELSE c[j].seq BY <2>8
    <3>2. QED BY <2>4, <2>5, <3>1
  <2>11. from[k] = <<c[k]>> \o from[j]
    <3>1. from[k] = IF k = BufSize THEN <<>>
                    ELSE IF c[k].len = 0 \/ k + c[k].len > BufSize THEN <<>>
                    ELSE <<c[k]>> \o from[k + c[k].len]
      BY <1>5, <2>2
    <3>2. ~(k + c[k].len > BufSize) /\ c[k].len # 0
      BY <2>1, <2>3, <2>8, UnitTypes
    <3>3. QED BY <2>2, <3>1, <3>2
  <2>12. head[k] = <<c[k]>> BY <2>2
  <2> HIDE DEF j, m, head, K
  <2>13. QED
    BY <2>2, <2>3, <2>4, <2>5, <2>6, <2>7, <2>9, <2>10, <2>11, <2>12
<1>10. ASSUME NEW k \in K PROVE Runs(head[k], g, m[k], m[next[k]])
  <2>1. /\ c[k].seg = g /\ c[k] \in Cell /\ m[k] = c[k].seq /\ m[k] \in Nat
        /\ m[next[k]] = m[k] + 1 /\ k \in 0 .. BufSize
    BY <1>9
  <2>2. head[k] = <<c[k]>> BY <2>1
  <2> DEFINE P == <<c[k]>>
  <2>3. P \in Seq(Cell) /\ Len(P) = 1 /\ P[1] = c[k] BY <2>1
  <2>4. \A j \in 1 .. Len(P) : P[j].seg = g /\ P[j].seq = m[k] + j - 1
    <3>1. SUFFICES ASSUME NEW j \in 1 .. Len(P)
                   PROVE  P[j].seg = g /\ P[j].seq = m[k] + j - 1
      OBVIOUS
    <3>2. j = 1 BY <2>3
    <3> HIDE DEF P, m, next, head, K
    <3>3. QED BY <2>1, <2>3, <3>2
  <2> HIDE DEF P, m, next, head, K
  <2>5. Len(P) + m[k] = m[next[k]] BY <2>1, <2>3
  <2>6. Runs(P, g, m[k], m[next[k]]) BY <2>3, <2>4, <2>5 DEF Runs
  <2>7. QED BY <2>2, <2>6 DEF P
<1>11. /\ m[u] = z /\ K \in SUBSET (0 .. BufSize) /\ u \notin K
       /\ from[u] \in Seq(Cell)
  <2>1. m[u] = z BY <1>7
  <2>2. K \in SUBSET (0 .. BufSize)
    <3>1. \A k \in K : k \in 0 .. BufSize BY <1>9
    <3> HIDE DEF K
    <3>2. QED BY <3>1
  <2>3. u \notin K BY <1>7
  <2>4. from[u] \in Seq(Cell) BY <1>8, EmptySeq
  <2>5. QED BY <2>1, <2>2, <2>3, <2>4
<1>12. 0 \in K /\ m[0] = a
  <2>1. c[0].len > 0 /\ c[0].seq = a BY <1>6, <1>7 DEF Holds
  <2>2. 0 \in 0 .. u - 1 /\ 0 # u /\ 0 \in 0 .. BufSize
    BY <1>7, UnitTypes
  <2>3. QED BY <2>1, <2>2
<1> HIDE DEF K, m, next, head
<1>13. PICK P : Runs(P, g, m[0], m[u]) /\ from[0] = P \o from[u]
  <2>1. Row(BufSize, u, K, g, m, next, head)
    <3>1. \A k \in K \cup {u} : m[k] \in Nat BY <1>9, <1>11
    <3>2. \A k \in K : /\ next[k] \in K \cup {u}
                       /\ k < next[k]
                       /\ Runs(head[k], g, m[k], m[next[k]])
      BY <1>9, <1>10
    <3>3. QED BY <1>7, <1>11, <3>1, <3>2, UnitTypes DEF Row
  <2>2. Reads(from, u, K, next, head) BY <1>9, <1>11 DEF Reads
  <2>3. 0 \in K \cup {u} BY <1>12
  <2>4. Alike(from, from, 0, u, g, m) BY <2>1, <2>2, <2>3, ReadsOn
  <2>5. QED BY <2>4 DEF Alike
<1>14. P \in Seq(Cell) BY <1>13 DEF Runs
<1>15. from[0] = P BY <1>8, <1>13, <1>14, ConcatEmptySeq
<1>16. QED BY <1>1, <1>11, <1>12, <1>13, <1>15

-----------------------------------------------------------------------------
(* What a row of blocks holds *)

\* Blocks s .. L - 1 are chunks of segment g that hold its records 0 .. z - 1.
StartOf(img, L, z, b) == IF b = L THEN z ELSE img[b][0].seq

Chain(img, g, s, L, z) ==
    /\ s <= L /\ L <= NumBlocks
    /\ StartOf(img, L, z, s) = 0
    /\ \A b \in s .. L - 1 :
          Sealed(img[b], g, StartOf(img, L, z, b), StartOf(img, L, z, b + 1))

\* A chain of z records up to block L is all of the c counted in a segment
\* that ends at block n, unless the device was full.
Ends(L, z, n, c) ==
    /\ L <= n
    /\ \/ z = c
       \/ z < c /\ c - z <= BufSize /\ L = NumBlocks /\ n = NumBlocks

\* Segment g, with entry e, is on the device.
Stored(data, g, e) ==
    \E L \in Nat, z \in Nat :
       /\ Chain(data, g, e.start_block, L, z)
       /\ Ends(L, z, End(e), e.record_count)

Images == [0 .. NumBlocks - 1 -> Chunk]

LEMMA SealedBegins ==
    ASSUME NEW c \in Chunk, NEW g, NEW a, NEW z, Sealed(c, g, a, z)
    PROVE  c[0].len > 0 /\ c[0].seq = a /\ c[0].seq \in Nat /\ c[0].len \in Nat
<1>1. PICK u \in 1 .. BufSize : Holds(c, u, g, a, z) BY DEF Sealed
<1>2. u > 0 /\ 0 \in 0 .. BufSize - 1 BY UnitTypes
<1>3. c[0].seq \in Nat /\ c[0].len \in Nat BY <1>2, UnitTypes
<1>4. QED BY <1>1, <1>2, <1>3 DEF Holds

\* The function a dump of the blocks of img computes.
DumpFrom(img, f) == \A b \in 0 .. NumBlocks :
    /\ f[b] \in Seq(Cell)
    /\ f[b] = IF b = NumBlocks THEN <<>>
              ELSE IF img[b][0].len = 0 THEN <<>>
              ELSE Walk(img[b]) \o f[b + 1]

LEMMA DumpExists ==
    ASSUME NEW d, d.data \in Images, NEW e
    PROVE  \E f : /\ DumpFrom(d.data, f)
                  /\ Dump(d, e) = SubSeq(f[e.start_block], 1,
                       Min({Len(f[e.start_block]), e.record_count}))
<1> DEFINE Stops(k) == k = NumBlocks \/ d.data[k][0].len = 0
           stop == [k \in 0 .. NumBlocks |-> Stops(k)]
           head == [k \in 0 .. NumBlocks |-> Walk(d.data[k])]
           next == [k \in 0 .. NumBlocks |-> k + 1]
           Val(f, b) == IF b = NumBlocks THEN <<>>
                        ELSE IF d.data[b][0].len = 0 THEN <<>>
                        ELSE Walk(d.data[b]) \o f[b + 1]
           Eq(f) == f = [b \in 0 .. NumBlocks |->
                           IF b = NumBlocks THEN <<>>
                           ELSE IF d.data[b][0].len = 0 THEN <<>>
                           ELSE Walk(d.data[b]) \o f[b + 1]]
           from == CHOOSE f : Eq(f)
<1>0. NumBlocks \in Nat BY RecorderAssumption
<1>1. Dump(d, e) = SubSeq(from[e.start_block], 1,
                     Min({Len(from[e.start_block]), e.record_count}))
  BY DEF Dump
<1>2. \A k \in 0 .. NumBlocks :
         ~stop[k] => /\ next[k] \in 0 .. NumBlocks /\ k < next[k]
                     /\ head[k] \in Seq(Cell)
  <2>1. SUFFICES ASSUME NEW k \in 0 .. NumBlocks, ~stop[k]
                 PROVE  /\ next[k] \in 0 .. NumBlocks /\ k < next[k]
                        /\ head[k] \in Seq(Cell)
    OBVIOUS
  <2>2. ~Stops(k) BY <2>1
  <2>3. k \in 0 .. NumBlocks - 1 BY <1>0, <2>2
  <2>4. d.data[k] \in Chunk BY <2>3 DEF Images
  <2>5. next[k] = k + 1 /\ head[k] = Walk(d.data[k]) OBVIOUS
  <2> HIDE DEF next, head
  <2>6. QED BY <1>0, <2>3, <2>4, <2>5, WalkIsSeq
<1>3. PICK f0 : Recurs(f0, NumBlocks, stop, head, next)
  <2> HIDE DEF stop, head, next
  <2>1. QED BY <1>0, <1>2, RecursExists
<1>4. ASSUME NEW f, NEW k \in 0 .. NumBlocks
      PROVE  (IF stop[k] THEN <<>> ELSE head[k] \o f[next[k]]) = Val(f, k)
  OBVIOUS
<1>5. ASSUME NEW f PROVE Recurs(f, NumBlocks, stop, head, next) <=> Eq(f)
  <2> DEFINE e1 == [k \in 0 .. NumBlocks |->
                      IF stop[k] THEN <<>> ELSE head[k] \o f[next[k]]]
             e2 == [k \in 0 .. NumBlocks |-> Val(f, k)]
  <2>1. e1 = e2
    <3> HIDE DEF stop, head, next, Val
    <3>1. QED BY <1>4
  <2>2. Recurs(f, NumBlocks, stop, head, next) <=> f = e1 BY DEF Recurs
  <2>3. Eq(f) <=> f = e2 OBVIOUS
  <2> HIDE DEF e1, e2, Eq, stop, head, next
  <2>4. QED BY <2>1, <2>2, <2>3
<1>6. Eq(from)
  <2> HIDE DEF Eq, stop, head, next
  <2>1. QED BY <1>3, <1>5
<1>7. Recurs(from, NumBlocks, stop, head, next)
  <2> HIDE DEF Eq, stop, head, next, from
  <2>1. QED BY <1>5, <1>6
<1> HIDE DEF from
<1>8. ASSUME NEW k \in 0 .. NumBlocks PROVE from[k] \in Seq(Cell)
  <2> HIDE DEF stop, head, next
  <2>1. QED BY <1>0, <1>2, <1>7, RecursSeq
<1>9. ASSUME NEW k \in 0 .. NumBlocks PROVE from[k] = Val(from, k)
  BY <1>6
<1>10. DumpFrom(d.data, from) BY <1>8, <1>9 DEF DumpFrom
<1>11. QED BY <1>1, <1>10

LEMMA MinOfTwo ==
    ASSUME NEW a \in Nat, NEW b \in Nat, a <= b
    PROVE  Min({a, b}) = a /\ Min({b, a}) = a
<1>1. \A x \in {a, b} : (\A y \in {a, b} : x <= y) => x = a OBVIOUS
<1>2. a \in {a, b} /\ \A y \in {a, b} : a <= y OBVIOUS
<1>3. Min({a, b}) = a BY <1>1, <1>2 DEF Min
<1>4. {b, a} = {a, b} OBVIOUS
<1>5. QED BY <1>3, <1>4

\* No more than c records are shown.
LEMMA Cut ==
    ASSUME NEW P \in Seq(Cell), NEW Q \in Seq(Cell), NEW c \in Nat,
           Len(P) = c \/ (Len(P) < c /\ Q = <<>>)
    PROVE  SubSeq(P \o Q, 1, Min({Len(P \o Q), c})) = P
<1> DEFINE R == P \o Q
           p == Len(P)
           q == Len(Q)
<1>1. p \in Nat /\ q \in Nat BY LenProperties
<1>2. /\ R \in Seq(Cell) /\ Len(R) = p + q
      /\ \A i \in 1 .. p + q : R[i] = IF i <= p THEN P[i] ELSE Q[i - p]
  BY ConcatProperties
<1>3. Min({Len(R), c}) = p
  <2>1. CASE p = c
    <3>1. p <= Len(R) /\ Len(R) \in Nat BY <1>1, <1>2
    <3> HIDE DEF p, R
    <3>2. QED BY <1>1, <2>1, <3>1, MinOfTwo
  <2>2. CASE p < c /\ Q = <<>>
    <3>1. q = 0 BY <2>2
    <3> HIDE DEF p, R, q
    <3>2. Len(R) = p BY <1>1, <1>2, <3>1
    <3>3. QED BY <1>1, <2>2, <3>2, MinOfTwo
  <2>3. QED BY <2>1, <2>2
<1> DEFINE T == SubSeq(R, 1, p)
<1> HIDE DEF R
<1>4. /\ T \in Seq(Cell) /\ Len(T) = p
      /\ \A i \in 1 .. p : T[i] = R[i]
  <2>1. \A i \in 1 .. p : R[i] \in Cell
    <3>1. \A i \in 1 .. p : i \in 1 .. Len(R) BY <1>1, <1>2
    <3>2. QED BY <1>2, <3>1, ElementOfSeq
  <2>2. 1 \in Int /\ p \in Int BY <1>1
  <2>3. /\ T \in Seq(Cell)
        /\ Len(T) = IF 1 <= p THEN p - 1 + 1 ELSE 0
        /\ \A i \in 1 .. p - 1 + 1 : T[i] = R[1 + i - 1]
    <3> HIDE DEF p
    <3>1. QED BY <1>2, <2>1, <2>2, SubSeqProperties
  <2>4. Len(T) = p BY <1>1, <2>3
  <2>5. \A i \in 1 .. p : i \in 1 .. p - 1 + 1 /\ 1 + i - 1 = i BY <1>1
  <2> HIDE DEF T, p
  <2>6. QED BY <2>3, <2>4, <2>5
<1>5. \A i \in 1 .. p : T[i] = P[i]
  <2>1. SUFFICES ASSUME NEW i \in 1 .. p PROVE T[i] = P[i] OBVIOUS
  <2>2. i \in 1 .. p + q /\ i <= p BY <1>1
  <2>3. R[i] = P[i] BY <1>2, <2>2
  <2>4. QED BY <1>4, <2>3
<1> HIDE DEF T
<1>6. T = P BY <1>4, <1>5, SeqEqual
<1>7. QED BY <1>3, <1>6 DEF T, R

\* A dump of a segment that is stored finds its records, and so does a dump of
\* any device that agrees on its blocks.
LEMMA DumpReads ==
    ASSUME NEW d, d.data \in Images, NEW h, h.data \in Images, NEW g,
           NEW e \in Entry, NEW L \in Nat, NEW z \in Nat,
           Chain(d.data, g, e.start_block, L, z),
           Ends(L, z, End(e), e.record_count),
           \A b \in e.start_block .. L - 1 : h.data[b] = d.data[b]
    PROVE  \E P : Runs(P, g, 0, z) /\ Dump(d, e) = P /\ Dump(h, e) = P
<1> DEFINE s == e.start_block
           K == s .. L - 1
           m == [b \in 0 .. NumBlocks |-> StartOf(d.data, L, z, b)]
           next == [b \in 0 .. NumBlocks |-> b + 1]
           head == [b \in 0 .. NumBlocks |-> Walk(d.data[b])]
<1>1. /\ s \in Nat /\ e.record_count \in Nat /\ NumBlocks \in Nat
      /\ s <= L /\ L <= NumBlocks /\ StartOf(d.data, L, z, s) = 0
  BY RecorderAssumption DEF Chain, Entry
<1>2. ASSUME NEW b \in K
      PROVE  /\ b \in 0 .. NumBlocks - 1 /\ b \in 0 .. NumBlocks
             /\ b # L /\ b # NumBlocks /\ d.data[b] \in Chunk
             /\ b + 1 \in K \cup {L} /\ b < b + 1
             /\ Sealed(d.data[b], g, StartOf(d.data, L, z, b),
                                     StartOf(d.data, L, z, b + 1))
             /\ h.data[b] = d.data[b]
  <2>1. b \in 0 .. NumBlocks - 1 /\ b \in 0 .. NumBlocks /\ b # L
        /\ b # NumBlocks /\ b + 1 \in K \cup {L} /\ b < b + 1
    BY <1>1
  <2>2. d.data[b] \in Chunk BY <2>1 DEF Images
  <2>3. QED BY <2>1, <2>2 DEF Chain
<1>3. ASSUME NEW b \in K
      PROVE  d.data[b][0].len > 0 /\ StartOf(d.data, L, z, b) \in Nat
  BY <1>2, SealedBegins DEF StartOf
<1>4. \A b \in K \cup {L} : b \in 0 .. NumBlocks
                            /\ StartOf(d.data, L, z, b) \in Nat
  <2>1. L \in 0 .. NumBlocks /\ StartOf(d.data, L, z, L) = z
    BY <1>1 DEF StartOf
  <2>2. QED BY <1>2, <1>3, <2>1
<1>5. PICK f : /\ DumpFrom(d.data, f)
               /\ Dump(d, e) = SubSeq(f[s], 1,
                                 Min({Len(f[s]), e.record_count}))
  BY DumpExists
<1>6. PICK x : /\ DumpFrom(h.data, x)
               /\ Dump(h, e) = SubSeq(x[s], 1,
                                 Min({Len(x[s]), e.record_count}))
  BY DumpExists
<1>7. Row(NumBlocks, L, K, g, m, next, head)
  <2>1. L \in 0 .. NumBlocks /\ K \in SUBSET (0 .. NumBlocks) /\ L \notin K
    BY <1>1
  <2>2. \A b \in K \cup {L} : m[b] \in Nat BY <1>4
  <2>3. ASSUME NEW b \in K
        PROVE  /\ next[b] \in K \cup {L} /\ b < next[b]
               /\ Runs(head[b], g, m[b], m[next[b]])
    <3>1. next[b] = b + 1 /\ head[b] = Walk(d.data[b])
          /\ m[b] = StartOf(d.data, L, z, b)
      BY <1>2
    <3>2. m[b + 1] = StartOf(d.data, L, z, b + 1)
          /\ StartOf(d.data, L, z, b + 1) \in Nat
      BY <1>2, <1>4
    <3>3. Runs(Walk(d.data[b]), g, StartOf(d.data, L, z, b),
               StartOf(d.data, L, z, b + 1))
      BY <1>2, <1>3, <3>2, WalkReads
    <3> HIDE DEF next, head, m
    <3>4. QED BY <1>2, <3>1, <3>2, <3>3
  <2> HIDE DEF K, m, next, head
  <2>4. QED BY <1>1, <2>1, <2>2, <2>3 DEF Row
<1>8. Reads(f, L, K, next, head) /\ Reads(x, L, K, next, head)
  <2>1. f[L] \in Seq(Cell) /\ x[L] \in Seq(Cell)
    BY <1>1, <1>5, <1>6 DEF DumpFrom
  <2>2. ASSUME NEW b \in K
        PROVE  f[b] = head[b] \o f[next[b]] /\ x[b] = head[b] \o x[next[b]]
    <3>1. next[b] = b + 1 /\ head[b] = Walk(d.data[b]) BY <1>2
    <3>2. b \in 0 .. NumBlocks /\ b # NumBlocks /\ d.data[b][0].len # 0
          /\ h.data[b] = d.data[b]
      BY <1>2, <1>3
    <3> HIDE DEF next, head, K
    <3>3. f[b] = Walk(d.data[b]) \o f[b + 1]
      BY <1>5, <3>2 DEF DumpFrom
    <3>4. x[b] = Walk(d.data[b]) \o x[b + 1]
      BY <1>6, <3>2 DEF DumpFrom
    <3>5. QED BY <3>1, <3>3, <3>4
  <2> HIDE DEF K, next, head
  <2>3. QED BY <2>1, <2>2 DEF Reads
<1>9. s \in K \cup {L} /\ m[s] = 0 /\ m[L] = z
  BY <1>1 DEF StartOf
<1>10. PICK P : Runs(P, g, 0, z) /\ f[s] = P \o f[L] /\ x[s] = P \o x[L]
  <2> HIDE DEF K, m, next, head, s
  <2>1. s \in K \cup {L} BY <1>9
  <2>2. Alike(f, x, s, L, g, m) BY <1>7, <1>8, <2>1, ReadsOn
  <2>3. QED BY <1>9, <2>2 DEF Alike
<1>11. P \in Seq(Cell) /\ Len(P) = z
  <2>1. P \in Seq(Cell) /\ Len(P) + 0 = z BY <1>10 DEF Runs
  <2>2. QED BY <2>1, LenProperties
<1>12. f[L] \in Seq(Cell) /\ x[L] \in Seq(Cell)
       /\ (L = NumBlocks => f[L] = <<>> /\ x[L] = <<>>)
  BY <1>1, <1>5, <1>6 DEF DumpFrom
<1>13. z = e.record_count \/ (z < e.record_count /\ L = NumBlocks)
  BY DEF Ends
<1>14. Dump(d, e) = P
  <2> HIDE DEF s
  <2>1. Dump(d, e) = SubSeq(P \o f[L], 1, Min({Len(P \o f[L]), e.record_count}))
    BY <1>5, <1>10
  <2>2. Len(P) = e.record_count \/ (Len(P) < e.record_count /\ f[L] = <<>>)
    BY <1>11, <1>12, <1>13
  <2>3. QED BY <1>1, <1>11, <1>12, <2>1, <2>2, Cut
<1>15. Dump(h, e) = P
  <2> HIDE DEF s
  <2>1. Dump(h, e) = SubSeq(P \o x[L], 1, Min({Len(P \o x[L]), e.record_count}))
    BY <1>6, <1>10
  <2>2. Len(P) = e.record_count \/ (Len(P) < e.record_count /\ x[L] = <<>>)
    BY <1>11, <1>12, <1>13
  <2>3. QED BY <1>1, <1>11, <1>12, <2>1, <2>2, Cut
<1>16. QED BY <1>10, <1>14, <1>15

-----------------------------------------------------------------------------
(* How chunks and rows grow *)

\* flush_buffer pads: what is handed to the device is sealed.
LEMMA PaddedIsSealed ==
    ASSUME NEW c \in Chunk, NEW u \in 1 .. BufSize, NEW g, NEW a, NEW z,
           Holds(c, u, g, a, z)
    PROVE  Sealed([k \in 0 .. BufSize - 1 |-> IF k < u THEN c[k] ELSE Blank],
                  g, a, z)
<1> DEFINE d == [k \in 0 .. BufSize - 1 |-> IF k < u THEN c[k] ELSE Blank]
<1>1. u > 0 /\ u <= BufSize /\ u \in Nat BY UnitTypes
<1>2. \A k \in 0 .. u - 1 : k \in 0 .. BufSize - 1 /\ d[k] = c[k]
  BY <1>1, UnitTypes
<1>3. \A k \in u .. BufSize - 1 : d[k] = Blank BY <1>1, UnitTypes
<1> HIDE DEF d
<1>4. 0 \in 0 .. u - 1 BY <1>1
<1>5. a <= z /\ z - a <= u /\ c[0].len > 0 /\ c[0].seq = a
  BY <1>1 DEF Holds
<1>6. ASSUME NEW k \in 0 .. u - 1, d[k].len > 0
      PROVE  /\ d[k].seg = g
             /\ k + d[k].len <= u
             /\ IF k + d[k].len = u THEN d[k].seq + 1 = z
                ELSE /\ d[k + d[k].len].len > 0
                     /\ d[k + d[k].len].seq = d[k].seq + 1
  <2>1. d[k] = c[k] /\ k \in 0 .. BufSize - 1 BY <1>2
  <2>2. c[k].len \in Nat BY <2>1, UnitTypes
  <2> DEFINE j == k + c[k].len
  <2>3. /\ c[k].seg = g /\ j <= u
        /\ IF j = u THEN c[k].seq + 1 = z
           ELSE c[j].len > 0 /\ c[j].seq = c[k].seq + 1
    BY <1>6, <2>1 DEF Holds
  <2>4. j # u => j \in 0 .. u - 1 BY <1>1, <2>2, <2>3
  <2>5. k + d[k].len = j BY <2>1
  <2>6. j # u => d[j] = c[j] BY <1>2, <2>4
  <2> HIDE DEF j
  <2>7. QED BY <2>1, <2>3, <2>5, <2>6
<1>7. d[0] = c[0] BY <1>2, <1>4
<1>8. Holds(d, u, g, a, z) BY <1>1, <1>5, <1>6, <1>7 DEF Holds
<1>9. Sealed(d, g, a, z) BY <1>3, <1>8 DEF Sealed
<1>10. QED BY <1>9 DEF d

\* One record more.
LEMMA PutHolds ==
    ASSUME NEW c \in Chunk, NEW u \in Nat, NEW n \in Nat, n > 0,
           u + n <= BufSize, NEW g \in Nat, NEW a \in Nat, NEW z \in Nat,
           Holds(c, u, g, a, z)
    PROVE  Holds(PutRecord(c, u, [seg |-> g, seq |-> z, len |-> n]),
                 u + n, g, a, z + 1)
<1> DEFINE rec == [seg |-> g, seq |-> z, len |-> n]
           d == PutRecord(c, u, rec)
           w == u + n
<1>1. rec.seg = g /\ rec.seq = z /\ rec.len = n OBVIOUS
<1>2. \A k \in 0 .. BufSize - 1 : d[k] =
         IF k = u THEN rec
         ELSE IF u < k /\ k < u + n THEN Blank ELSE c[k]
  BY <1>1 DEF PutRecord
<1> HIDE DEF rec, d
<1>3. /\ \A k \in 0 .. u - 1 : k \in 0 .. BufSize - 1 /\ d[k] = c[k]
      /\ u \in 0 .. BufSize - 1 /\ d[u] = rec
      /\ \A k \in u + 1 .. w - 1 : d[k] = Blank
  BY <1>2, UnitTypes
<1>4. a <= z + 1 /\ z + 1 - a <= w
  <2>1. a <= z /\ z - a <= u BY DEF Holds
  <2>2. QED BY <2>1
<1>5. d[0].len > 0 /\ d[0].seq = a
  <2>1. CASE u = 0 BY <1>1, <1>3, <2>1 DEF Holds
  <2>2. CASE u > 0
    <3>1. d[0] = c[0] BY <1>3, <2>2
    <3>2. QED BY <2>2, <3>1 DEF Holds
  <2>3. QED BY <2>1, <2>2
<1>6. ASSUME NEW k \in 0 .. w - 1, d[k].len > 0
      PROVE  /\ d[k].seg = g
             /\ k + d[k].len <= w
             /\ IF k + d[k].len = w THEN d[k].seq + 1 = z + 1
                ELSE /\ d[k + d[k].len].len > 0
                     /\ d[k + d[k].len].seq = d[k].seq + 1
  <2>1. CASE k < u
    <3>1. k \in 0 .. u - 1 /\ k \in 0 .. BufSize - 1 BY <2>1, UnitTypes
    <3>2. d[k] = c[k] /\ c[k].len \in Nat BY <1>3, <3>1, UnitTypes
    <3> DEFINE j == k + c[k].len
    <3>3. /\ c[k].seg = g /\ j <= u
          /\ IF j = u THEN c[k].seq + 1 = z
             ELSE c[j].len > 0 /\ c[j].seq = c[k].seq + 1
      BY <1>6, <3>1, <3>2 DEF Holds
    <3>4. j \in Nat /\ j # w /\ j <= w BY <3>2, <3>3
    <3>5. k + d[k].len = j BY <3>2
    <3>6. j # u => d[j] = c[j]
      <4>1. j # u => j \in 0 .. u - 1 BY <3>3, <3>4
      <4> HIDE DEF j
      <4>2. QED BY <1>3, <4>1
    <3> HIDE DEF j, w
    <3>7. CASE j = u BY <1>1, <1>3, <3>2, <3>3, <3>4, <3>5, <3>7
    <3>8. CASE j # u BY <3>2, <3>3, <3>4, <3>5, <3>6, <3>8
    <3>9. QED BY <3>7, <3>8
  <2>2. CASE k = u BY <1>1, <1>3, <2>2
  <2>3. CASE k > u
    <3>1. k \in u + 1 .. w - 1 BY <2>3
    <3>2. d[k].len = 0 BY <1>3, <3>1, UnitTypes
    <3>3. QED BY <1>6, <3>2
  <2>4. QED BY <2>1, <2>2, <2>3
<1>7. w > 0 /\ w \in Nat OBVIOUS
<1> HIDE DEF w
<1>8. Holds(d, w, g, a, z + 1) BY <1>4, <1>5, <1>6, <1>7 DEF Holds
<1>9. QED BY <1>8 DEF d, rec, w

LEMMA ChainRests ==
    ASSUME NEW img, NEW new, NEW g, NEW s \in Nat, NEW L \in Nat, NEW z,
           Chain(img, g, s, L, z), \A b \in s .. L - 1 : new[b] = img[b]
    PROVE  Chain(new, g, s, L, z)
<1>1. s <= L /\ L <= NumBlocks /\ StartOf(img, L, z, s) = 0
  BY DEF Chain
<1>2. \A b \in s .. L : StartOf(new, L, z, b) = StartOf(img, L, z, b)
  BY DEF StartOf
<1>3. ASSUME NEW b \in s .. L - 1
      PROVE  Sealed(new[b], g, StartOf(new, L, z, b), StartOf(new, L, z, b + 1))
  <2>1. b \in s .. L /\ b + 1 \in s .. L /\ new[b] = img[b] OBVIOUS
  <2>2. Sealed(img[b], g, StartOf(img, L, z, b), StartOf(img, L, z, b + 1))
    BY DEF Chain
  <2>3. QED BY <1>2, <2>1, <2>2
<1>4. StartOf(new, L, z, s) = 0
  <2>1. s \in s .. L BY <1>1
  <2>2. QED BY <1>1, <1>2, <2>1
<1>5. QED BY <1>1, <1>3, <1>4 DEF Chain

LEMMA ChainGrows ==
    ASSUME NEW img, NEW new \in Images, NEW g, NEW s \in Nat, NEW L \in Nat,
           NEW z, NEW y, Chain(img, g, s, L, z), L + 1 <= NumBlocks,
           \A b \in s .. L - 1 : new[b] = img[b],
           Sealed(new[L], g, z, y)
    PROVE  Chain(new, g, s, L + 1, y)
<1> DEFINE First(b) == StartOf(new, L + 1, y, b)
<1>1. s <= L /\ StartOf(img, L, z, s) = 0 /\ NumBlocks \in Nat
  BY RecorderAssumption DEF Chain
<1>2. L \in 0 .. NumBlocks - 1 BY <1>1
<1>3. new[L] \in Chunk BY <1>2 DEF Images
<1>4. new[L][0].seq = z BY <1>3, SealedBegins
<1>5. First(L) = z /\ First(L + 1) = y BY <1>4 DEF StartOf
<1>6. \A b \in s .. L : First(b) = StartOf(img, L, z, b)
  <2>1. SUFFICES ASSUME NEW b \in s .. L
                 PROVE  First(b) = StartOf(img, L, z, b)
    OBVIOUS
  <2>2. CASE b = L BY <1>5, <2>2 DEF StartOf
  <2>3. CASE b # L
    <3>1. b \in s .. L - 1 /\ b # L + 1 BY <2>3
    <3>2. QED BY <3>1 DEF StartOf
  <2>4. QED BY <2>2, <2>3
<1>7. ASSUME NEW b \in s .. L
      PROVE  Sealed(new[b], g, First(b), First(b + 1))
  <2>1. CASE b = L BY <1>5, <2>1
  <2>2. CASE b # L
    <3>1. b \in s .. L - 1 /\ b + 1 \in s .. L BY <2>2
    <3>2. Sealed(img[b], g, StartOf(img, L, z, b), StartOf(img, L, z, b + 1))
      BY <3>1 DEF Chain
    <3>3. new[b] = img[b] BY <3>1
    <3> HIDE DEF First
    <3>4. QED BY <1>6, <3>1, <3>2, <3>3
  <2>3. QED BY <2>1, <2>2
<1>8. First(s) = 0
  <2>1. s \in s .. L BY <1>1
  <2> HIDE DEF First
  <2>2. QED BY <1>1, <1>6, <2>1
<1>9. (L + 1) - 1 = L /\ s <= L + 1 BY <1>1
<1>10. QED BY <1>7, <1>8, <1>9 DEF Chain

-----------------------------------------------------------------------------
(* What the open segment will hold *)

Datas(s) == {r \in s.io : r.op = "data"}

\* img is what the data blocks hold once the device has done what it was asked.
Shows(s, data, img) ==
    /\ img \in Images
    /\ \A r \in Datas(s) : img[r.at] = s.buffers[r.id].data
    /\ \A b \in 0 .. NumBlocks - 1 :
          (\A r \in Datas(s) : r.at # b) => img[b] = data[b]

\* Its blocks up to L hold the first z records of the open segment.
Laid(s, data, img, L, z) ==
    /\ L \in Nat /\ z \in Nat
    /\ Shows(s, data, img)
    /\ Chain(img, s.segment_id, s.segment_start_block, L, z)

\* The current buffer holds the records from z on.
Loose(s, z) ==
    LET b == s.buffers[s.cur_buf]
    IN  IF b.in_flight THEN z = s.record_count
        ELSE Holds(b.data, b.used, s.segment_id, z, s.record_count)

Packing(s, data) ==
    \E img, z : Laid(s, data, img, s.next_write_block, z) /\ Loose(s, z)

\* A buffer queued for the second write of its data has its place behind them.
Closed(s, L, z) ==
    /\ Ends(L, z, s.next_write_block, s.record_count)
    /\ s.bdev_io_wait # NoBuf => L <= s.buffers[s.bdev_io_wait].target_block

Settled(s, data) ==
    \E img, L, z : Laid(s, data, img, L, z) /\ Closed(s, L, z)

Intact(s, data) ==
    s.recording => IF s.stopping THEN Settled(s, data) ELSE Packing(s, data)

\* The segment and its count are the same.
Tally(s, t) ==
    /\ t.segment_id = s.segment_id /\ t.record_count = s.record_count
    /\ t.segment_start_block = s.segment_start_block
    /\ t.next_write_block = s.next_write_block

LEMMA LaidRests ==
    ASSUME NEW s, NEW t, NEW data, NEW img, NEW L, NEW z,
           Laid(s, data, img, L, z), Datas(t) = Datas(s),
           \A r \in Datas(s) : t.buffers[r.id].data = s.buffers[r.id].data,
           t.segment_id = s.segment_id,
           t.segment_start_block = s.segment_start_block
    PROVE  Laid(t, data, img, L, z)
  BY DEF Laid, Shows

LEMMA SettledRests ==
    ASSUME NEW s, NEW t, NEW data, Settled(s, data), Datas(t) = Datas(s),
           \A i \in Buffers : t.buffers[i].data = s.buffers[i].data,
           s.io \subseteq Request, Tally(s, t),
           t.bdev_io_wait = s.bdev_io_wait,
           t.bdev_io_wait # NoBuf => t.buffers = s.buffers
    PROVE  Settled(t, data)
<1>1. PICK img, L, z : Laid(s, data, img, L, z) /\ Closed(s, L, z)
  BY DEF Settled
<1>2. \A r \in Datas(s) : t.buffers[r.id].data = s.buffers[r.id].data
  BY DEF Datas, Request
<1>3. Laid(t, data, img, L, z) BY <1>1, <1>2, LaidRests DEF Tally
<1>4. Closed(t, L, z) BY <1>1 DEF Closed, Tally
<1>5. QED BY <1>3, <1>4 DEF Settled

LEMMA PackingRests ==
    ASSUME NEW s, NEW t, NEW data, Packing(s, data), t.io = s.io,
           t.buffers = s.buffers, t.cur_buf = s.cur_buf, Tally(s, t)
    PROVE  Packing(t, data)
<1>1. PICK img, z : Laid(s, data, img, s.next_write_block, z) /\ Loose(s, z)
  BY DEF Packing
<1>2. Datas(t) = Datas(s) BY DEF Datas
<1>3. Laid(t, data, img, t.next_write_block, z)
  BY <1>1, <1>2, LaidRests DEF Tally
<1>4. Loose(t, z) BY <1>1 DEF Loose, Tally
<1>5. QED BY <1>3, <1>4 DEF Packing

LEMMA FlushedTally ==
    ASSUME Ample, NEW s, Good(s), NEW i \in Buffers, HasRoom(s)
    PROVE  LET u == Flushed(s, i)
           IN  /\ u.segment_id = s.segment_id
               /\ u.record_count = s.record_count
<1> DEFINE h == HandedOff(s, i)
           t == Issued(h, i, "data", {})
<1>1. s \in Context BY DEF Good
<1>2. Good(h) /\ ~Refused(h, i, "data", {}) BY HandedOffFields, FlushedFields
<1>3. h.segment_id = s.segment_id /\ h.record_count = s.record_count
  BY <1>1 DEF HandedOff, Context
<1> HIDE DEF h
<1>4. h \in Context BY <1>2 DEF Good
<1>5. t.segment_id = h.segment_id /\ t.record_count = h.record_count
      /\ t \in Context
  <2>1. Good(t) BY <1>2, IssuedKeeps DEF Keeps
  <2>2. CASE Cardinality(h.io) >= PoolSize
    <3>1. t = WaitForIo(h, i) BY <1>2, <2>2 DEF Issued
    <3>2. QED BY <1>4, <2>1, <3>1 DEF WaitForIo, Context, Good
  <2>3. CASE ~(Cardinality(h.io) >= PoolSize)
    <3>1. t = Submitted(h, "data", i, h.buffers[i].target_block)
      BY <1>2, <2>3 DEF Issued
    <3>2. QED BY <1>4, <2>1, <3>1 DEF Submitted, Context, Good
  <2>4. QED BY <2>2, <2>3
<1> HIDE DEF t
<1>6. /\ Advanced(t).segment_id = t.segment_id
      /\ Advanced(t).record_count = t.record_count
  BY <1>5 DEF Advanced, Context
<1>7. Flushed(s, i) = Advanced(t) BY DEF Flushed, t, h
<1>8. QED BY <1>3, <1>5, <1>6, <1>7

\* The device as it will be with buffer i written to block next_write_block.
WithBlock(s, i, img) ==
    [img EXCEPT ![s.next_write_block] = Handed(s, i).data]

\* One more buffer is handed to the device, or queued.
LEMMA FlushedLays ==
    ASSUME Ample, NEW s, Good(s), NEW n, Writing(s, n), NEW i \in Buffers,
           HasRoom(s), \A r \in s.io : Padded(s, r.id),
           NEW data, NEW img, NEW L, NEW z,
           Laid(s, data, img, L, z), L <= s.next_write_block
    PROVE  LET u == Flushed(s, i)
               new == WithBlock(s, i, img)
           IN  IF Cardinality(s.io) >= PoolSize THEN Laid(u, data, img, L, z)
               ELSE /\ Laid(u, data, new, L, z) /\ new \in Images
                    /\ new[s.next_write_block] = Handed(s, i).data
                    /\ \A a \in 0 .. s.next_write_block - 1 : new[a] = img[a]
<1> DEFINE u == Flushed(s, i)
           c == Handed(s, i).data
           b == s.next_write_block
           new == [img EXCEPT ![b] = c]
           r == [op |-> "data", id |-> i, at |-> b]
<1>1. /\ s \in Context /\ s.buffers \in [Buffers -> WriteBuf]
      /\ s.buffers[i].data \in Chunk /\ s.io \subseteq Request
      /\ s.segment_start_block \in Nat /\ b \in Nat
      /\ s.buffers[i].used \in Nat
  BY DEF Good, Context, WriteBuf
<1>2. /\ u.segment_start_block = s.segment_start_block
      /\ u.buffers = [s.buffers EXCEPT ![i] = Handed(s, i)]
      /\ IF Cardinality(s.io) >= PoolSize THEN u.io = s.io
         ELSE u.io = s.io \cup {r}
  BY FlushedFields
<1>3. u.segment_id = s.segment_id BY FlushedTally
<1> HIDE DEF u
<1>4. /\ \A x \in s.io : x.op = "data" /\ x.id \in Buffers /\ x.at < b
      /\ \A x \in s.io : s.segment_start_block <= x.at
      /\ s.segment_start_block <= b
      /\ \A x \in s.io : x.at \in Nat
  BY <1>1 DEF Writing, Charted, Inside, Request
<1>5. c = [k \in 0 .. BufSize - 1 |->
             IF k < s.buffers[i].used THEN s.buffers[i].data[k] ELSE Blank]
  BY DEF Handed
<1>6. c \in Chunk
  BY <1>1, <1>5, UnitTypes DEF Chunk
<1>7. ASSUME NEW x \in s.io
      PROVE  u.buffers[x.id].data = s.buffers[x.id].data
  <2>1. CASE x.id = i
    <3>1. Padded(s, i) BY <2>1
    <3>2. c = s.buffers[i].data BY <1>1, <1>5, <3>1, PadTwice DEF Padded
    <3>3. u.buffers[i] = Handed(s, i) BY <1>1, <1>2
    <3>4. QED BY <2>1, <3>2, <3>3
  <2>2. CASE x.id # i BY <1>1, <1>2, <1>4, <2>2
  <2>3. QED BY <2>1, <2>2
<1>8. Datas(s) = s.io BY <1>4 DEF Datas
<1>9. /\ L \in Nat /\ z \in Nat /\ img \in Images
      /\ \A x \in s.io : img[x.at] = s.buffers[x.id].data
      /\ \A a \in 0 .. NumBlocks - 1 :
            (\A x \in s.io : x.at # a) => img[a] = data[a]
      /\ Chain(img, s.segment_id, s.segment_start_block, L, z)
  BY <1>8 DEF Laid, Shows
<1>10. CASE Cardinality(s.io) >= PoolSize
  <2>1. Datas(u) = Datas(s) BY <1>2, <1>10 DEF Datas
  <2>2. \A x \in Datas(s) : u.buffers[x.id].data = s.buffers[x.id].data
    BY <1>7, <1>8
  <2>3. Laid(u, data, img, L, z) BY <1>2, <1>3, <2>1, <2>2, LaidRests
  <2>4. QED BY <1>10, <2>3 DEF u
<1>11. CASE ~(Cardinality(s.io) >= PoolSize)
  <2>1. b \in 0 .. NumBlocks - 1
    BY <1>1, AmpleSizes DEF HasRoom
  <2> HIDE DEF c
  <2>2. /\ new \in Images /\ new[b] = c
        /\ \A a \in 0 .. NumBlocks - 1 : a # b => new[a] = img[a]
    BY <1>6, <1>9, <2>1 DEF Images
  <2>3. \A a \in 0 .. b - 1 : new[a] = img[a]
    BY <2>1, <2>2, AmpleSizes
  <2> HIDE DEF new
  <2>4. Datas(u) = s.io \cup {r} BY <1>2, <1>4, <1>11 DEF Datas
  <2>5. \A x \in s.io : x.at \in 0 .. b - 1 /\ x.at # b
    BY <1>1, <1>4
  <2>6. ASSUME NEW x \in Datas(u) PROVE new[x.at] = u.buffers[x.id].data
    <3>1. CASE x = r
      <4>1. u.buffers[i] = Handed(s, i) BY <1>1, <1>2
      <4>2. QED BY <2>2, <3>1, <4>1 DEF c
    <3>2. CASE x \in s.io BY <1>7, <1>9, <2>3, <2>5, <3>2
    <3>3. QED BY <2>4, <3>1, <3>2
  <2>7. ASSUME NEW a \in 0 .. NumBlocks - 1, \A x \in Datas(u) : x.at # a
        PROVE  new[a] = data[a]
    <3>1. a # b
      <4>1. r \in Datas(u) BY <2>4
      <4>2. r.at = b OBVIOUS
      <4> HIDE DEF r
      <4>3. QED BY <2>7, <4>1, <4>2
    <3>2. \A x \in s.io : x.at # a BY <2>4, <2>7
    <3>3. QED BY <1>9, <2>2, <3>1, <3>2
  <2>8. Shows(u, data, new) BY <2>2, <2>6, <2>7 DEF Shows
  <2>9. \A a \in s.segment_start_block .. L - 1 : new[a] = img[a]
    BY <1>1, <1>9, <2>3
  <2>10. Chain(new, s.segment_id, s.segment_start_block, L, z)
    BY <1>1, <1>9, <2>9, ChainRests
  <2>11. Laid(u, data, new, L, z)
    BY <1>2, <1>3, <1>9, <2>8, <2>10 DEF Laid
  <2>12. QED BY <1>11, <2>2, <2>3, <2>11 DEF u, new, c, WithBlock
<1>12. QED BY <1>10, <1>11

-----------------------------------------------------------------------------
(* The stop *)

\* The flush of a stop hands over what is left, unless the device is full.
LEMMA FinalFlushSettles ==
    ASSUME Ample, NEW s, Good(s), NEW n \in Nat, Writing(s, n),
           s.bdev_io_wait = NoBuf, \A r \in s.io : Padded(s, r.id),
           ~s.buffers[s.cur_buf].in_flight => Cardinality(s.io) < PoolSize,
           NEW data, Packing(s, data)
    PROVE  Settled(FinalFlush(s, s.cur_buf, {}), data)
<1> DEFINE i == s.cur_buf
           b == s.buffers[i]
           L == s.next_write_block
           c == s.record_count
           g == s.segment_id
           t == FinalFlush(s, i, {})
           e == [s EXCEPT !.buffers[i].used = 0]
           u == Flushed(s, i)
<1>1. /\ s \in Context /\ i \in Buffers /\ b \in WriteBuf /\ L \in Nat
      /\ c \in Nat /\ b.used \in Nat /\ b.used <= BufSize /\ b.data \in Chunk
      /\ s.segment_start_block \in Nat /\ BufSize \in Nat
      /\ Cardinality(s.io) \in Nat
  <2>1. Cardinality(s.io) \in Nat
    BY FS_CardinalityType DEF Writing, Counted
  <2>2. /\ s \in Context /\ i \in Buffers /\ b \in WriteBuf /\ L \in Nat
        /\ c \in Nat /\ s.segment_start_block \in Nat
    BY DEF Good, Context
  <2>3. b.used \in 0 .. BufSize /\ b.data \in Chunk BY <2>2 DEF WriteBuf
  <2>4. QED BY <2>1, <2>2, <2>3, AmpleSizes
<1>2. L <= NumBlocks /\ NumBlocks \in Nat
  BY AmpleSizes DEF Writing, Charted
<1>3. PICK img, z : Laid(s, data, img, L, z) /\ Loose(s, z) BY DEF Packing
<1>4. z \in Nat BY <1>3 DEF Laid
<1>5. IF b.in_flight THEN z = c ELSE Holds(b.data, b.used, g, z, c)
  BY <1>3 DEF Loose
<1>6. CASE b.used = 0
  <2>1. t = s BY <1>6 DEF FinalFlush
  <2>2. z = c BY <1>5, <1>6 DEF Holds
  <2>3. L <= L BY <1>1
  <2> HIDE DEF t
  <2>4. Closed(s, L, z) BY <2>2, <2>3 DEF Closed, Ends
  <2>5. QED BY <1>3, <2>1, <2>4 DEF Settled, t
<1>7. CASE b.used # 0 /\ ~HasRoom(s)
  <2>1. t = e BY <1>7 DEF FinalFlush
  <2>2. L = NumBlocks BY <1>1, <1>2, <1>7, AmpleSizes DEF HasRoom
  <2>3. /\ e.io = s.io /\ e.segment_id = g
        /\ e.segment_start_block = s.segment_start_block
        /\ e.next_write_block = L /\ e.record_count = c
        /\ e.bdev_io_wait = NoBuf
        /\ \A j \in Buffers : e.buffers[j].data = s.buffers[j].data
    BY <1>1 DEF Context, WriteBuf
  <2> HIDE DEF t, e
  <2>4. \A r \in Datas(s) : r.id \in Buffers
    BY <1>1 DEF Datas, Context, Request
  <2>5. Datas(e) = Datas(s) BY <2>3 DEF Datas
  <2>6. \A r \in Datas(s) : e.buffers[r.id].data = s.buffers[r.id].data
    BY <2>3, <2>4
  <2>7. Laid(e, data, img, L, z) BY <1>3, <2>3, <2>5, <2>6, LaidRests
  <2>8. z = c \/ (z < c /\ c - z <= BufSize)
    <3>1. CASE b.in_flight BY <1>5, <3>1
    <3>2. CASE ~b.in_flight
      <4>1. z <= c /\ c - z <= b.used BY <1>5, <3>2 DEF Holds
      <4> HIDE DEF b, c
      <4>2. QED BY <1>1, <1>4, <4>1
    <3>3. QED BY <3>1, <3>2
  <2>9. Closed(e, L, z) BY <1>1, <2>2, <2>3, <2>8 DEF Closed, Ends
  <2>10. QED BY <2>1, <2>7, <2>9 DEF Settled, t
<1>8. CASE b.used # 0 /\ HasRoom(s)
  <2>1. ~Refused(HandedOff(s, i), i, "data", {}) BY <1>1, <1>8, FlushedFields
  <2>2. t = u BY <1>8, <2>1 DEF FinalFlush, Flushed
  <2>3. /\ u.next_write_block = L + 1
        /\ u.segment_start_block = s.segment_start_block
        /\ u.buffers = [s.buffers EXCEPT ![i] = Handed(s, i)]
        /\ u.bdev_io_wait = IF Cardinality(s.io) >= PoolSize THEN i
                            ELSE NoBuf
    BY <1>1, <1>8, FlushedFields
  <2>4. u.segment_id = g /\ u.record_count = c BY <1>1, <1>8, FlushedTally
  <2> DEFINE new == WithBlock(s, i, img)
  <2>5. L <= s.next_write_block BY <1>1
  <2>6. IF Cardinality(s.io) >= PoolSize THEN Laid(u, data, img, L, z)
        ELSE /\ Laid(u, data, new, L, z) /\ new \in Images
             /\ new[L] = Handed(s, i).data
             /\ \A a \in 0 .. L - 1 : new[a] = img[a]
    BY <1>1, <1>3, <1>8, <2>5, FlushedLays
  <2>7. s.buffers \in [Buffers -> WriteBuf] BY <1>1 DEF Context
  <2>8. u.buffers[i].target_block = L /\ i # NoBuf
    BY <1>1, <2>3, <2>7, AmpleSizes DEF Handed
  <2> HIDE DEF t, u, new
  <2>9. CASE z = c
    <3>1. PICK m : Laid(u, data, m, L, z)
      <4>1. CASE Cardinality(s.io) >= PoolSize BY <2>6, <4>1
      <4>2. CASE ~(Cardinality(s.io) >= PoolSize) BY <2>6, <4>2
      <4>3. QED BY <4>1, <4>2
    <3>2. L <= L + 1 /\ L <= L BY <1>1
    <3>3. Closed(u, L, z)
      BY <2>3, <2>4, <2>8, <2>9, <3>2 DEF Closed, Ends
    <3>4. QED BY <2>2, <3>1, <3>3 DEF Settled, t
  <2>10. CASE z # c
    <3>1. ~b.in_flight /\ Holds(b.data, b.used, g, z, c) BY <1>5, <2>10
    <3>2. ~(Cardinality(s.io) >= PoolSize) BY <1>1, <3>1, AmpleSizes
    <3>3. /\ Laid(u, data, new, L, z) /\ new \in Images
          /\ new[L] = Handed(s, i).data
      BY <2>6, <3>2
    <3>4. b.used \in 1 .. BufSize BY <1>1, <1>8
    <3>5. Sealed(new[L], g, z, c)
      BY <1>1, <3>1, <3>3, <3>4, PaddedIsSealed DEF Handed
    <3>6. Chain(new, g, s.segment_start_block, L, z)
      BY <2>3, <2>4, <3>3 DEF Laid
    <3>7. L + 1 <= NumBlocks BY <1>8, AmpleSizes DEF HasRoom
    <3>8. Chain(new, g, s.segment_start_block, L + 1, c)
      BY <1>1, <3>3, <3>5, <3>6, <3>7, ChainGrows
    <3>9. Laid(u, data, new, L + 1, c)
      BY <1>1, <2>3, <2>4, <3>3, <3>8 DEF Laid
    <3>10. L + 1 <= L + 1 BY <1>1
    <3>11. Closed(u, L + 1, c)
      BY <2>3, <2>4, <3>2, <3>10 DEF Closed, Ends
    <3>12. QED BY <2>2, <3>9, <3>11 DEF Settled, t
  <2>11. QED BY <2>9, <2>10
<1>9. QED BY <1>6, <1>7, <1>8

LEMMA FinalizeSegmentTally ==
    ASSUME Ample, NEW s, Good(s), Writing(s, 0), s.stopping,
           s.pending_writes = 0
    PROVE  LET t == FinalizeSegment(s, {})
           IN  /\ Tally(s, t) /\ t.buffers = s.buffers
               /\ Datas(s) = {} /\ Datas(t) = {}
               /\ s.bdev_io_wait = NoBuf /\ t.bdev_io_wait = NoBuf
<1> DEFINE t == FinalizeSegment(s, {})
           v == [s.vol EXCEPT !.next_data_block = s.next_write_block]
           c == s.chains + 1
           p == [s EXCEPT !.vol = v, !.vol_buf = v, !.chains = c]
<1>1. /\ FinalizingHeader(t) /\ Stays(s, t) /\ t.buffers = s.buffers
  BY FinalizeSegmentRuns
<1>2. s \in Context BY DEF Good
<1>3. /\ Waiters(s) \in {0, 1} /\ (Waiters(s) = 0 => s.bdev_io_wait = NoBuf)
      /\ s.pending_writes = Cardinality(s.io) + Waiters(s) + 0
      /\ IsFiniteSet(s.io) /\ Cardinality(s.io) \in Nat
  BY FS_CardinalityType DEF Waiters, Writing, Counted
<1>4. Cardinality(s.io) = 0 /\ s.bdev_io_wait = NoBuf BY <1>3
<1>5. s.io = {} BY <1>3, <1>4, FS_EmptySet
<1>6. t = IF Accepts(p, "hdr", {})
          THEN Submitted(p, "finHdr", p.chains, 0)
          ELSE FinalizeHeaderDone(p, p.chains, {})
  BY <1>2 DEF FinalizeSegment, Context
<1>7. v \in Header /\ c \in Nat BY <1>2 DEF Context, Header
<1> HIDE DEF v, c
<1>8. /\ p.io = s.io /\ p.segment_id = s.segment_id
      /\ p.record_count = s.record_count
      /\ p.segment_start_block = s.segment_start_block
      /\ p.next_write_block = s.next_write_block /\ p \in Context
  BY <1>2, <1>7 DEF Context
<1> HIDE DEF p, t
<1>9. t = Submitted(p, "finHdr", p.chains, 0)
  BY <1>4, <1>6, <1>8, AmpleSizes DEF Accepts
<1>10. Tally(p, t) BY <1>8, <1>9 DEF Submitted, Context, Tally
<1>11. Datas(s) = {} BY <1>5 DEF Datas
<1>12. Datas(t) = {} /\ t.bdev_io_wait = NoBuf
  BY <1>1 DEF FinalizingHeader, Finalizing, Rest, Datas
<1>13. QED BY <1>1, <1>4, <1>8, <1>10, <1>11, <1>12 DEF Tally, t

\* A finalize leaves what is stored as it is.
LEMMA FinalizeSegmentSettles ==
    ASSUME Ample, NEW s, Good(s), Writing(s, 0), s.stopping,
           s.pending_writes = 0, NEW data, Settled(s, data)
    PROVE  Settled(FinalizeSegment(s, {}), data)
<1> DEFINE t == FinalizeSegment(s, {})
<1>1. /\ Tally(s, t) /\ t.buffers = s.buffers
      /\ Datas(s) = {} /\ Datas(t) = {}
      /\ s.bdev_io_wait = NoBuf /\ t.bdev_io_wait = NoBuf
  BY FinalizeSegmentTally
<1>2. s.io \subseteq Request BY DEF Good, Context
<1> HIDE DEF t
<1>3. Settled(t, data) BY <1>1, <1>2, SettledRests
<1>4. QED BY <1>3 DEF t

LEMMA StopRecordingSettles ==
    ASSUME Ample, NEW s, Good(s), NEW n \in {0, 1}, Writing(s, n),
           ~s.stopping, NEW data, Packing(s, data)
    PROVE  Settled(StopRecording(s, {}), data)
<1> DEFINE p == s.rx_poller /\ ServeMode
           b == [s EXCEPT !.stopping = TRUE, !.rx_poller = p]
           f == FinalFlush(b, s.cur_buf, {})
           t == StopRecording(s, {})
<1>1. s \in Context /\ s.cur_buf \in Buffers BY DEF Good, Context
<1>2. p \in BOOLEAN BY <1>1, Sizes DEF Context
<1>3. t = IF f.pending_writes = 0 THEN FinalizeSegment(f, {}) ELSE f
  BY <1>1 DEF StopRecording, Context
<1> HIDE DEF p, t
<1>4. b \in Context BY <1>1, <1>2 DEF Context
<1>5. /\ b.up = s.up /\ b.recording = s.recording /\ b.stopping
      /\ b.wait_requeued = s.wait_requeued /\ b.io = s.io
      /\ b.bdev_io_wait = s.bdev_io_wait /\ b.vol = s.vol
      /\ b.pending_writes = s.pending_writes /\ b.buffers = s.buffers
      /\ b.next_write_block = s.next_write_block
      /\ b.segment_start_block = s.segment_start_block
      /\ b.cur_buf = s.cur_buf /\ b.segment_id = s.segment_id
      /\ b.record_count = s.record_count
  BY <1>1 DEF Context
<1> HIDE DEF b
<1>6. Good(b) BY <1>4, <1>5 DEF Good, Spare
<1>7. s.bdev_io_wait = NoBuf BY DEF Writing, Queued
<1>8. Writing(b, n)
  <2>1. Waiters(b) = Waiters(s) /\ \A x : Inside(b, x) <=> Inside(s, x)
    BY <1>5 DEF Waiters, Inside
  <2>2. Counted(b, n) BY <1>5, <2>1 DEF Writing, Counted
  <2>3. Charted(b) BY <1>5, <2>1 DEF Writing, Charted
  <2>4. Held(b) BY <1>5 DEF Writing, Held
  <2>5. Queued(b) /\ Single(b) BY <1>5, <1>7 DEF Queued, Single
  <2>6. QED BY <1>5, <2>2, <2>3, <2>4, <2>5 DEF Writing
<1>9. \A r \in b.io : Padded(b, r.id)
  BY <1>5 DEF Writing, Single, Padded
<1>10. b.buffers[b.cur_buf].in_flight => Padded(b, b.cur_buf)
  BY <1>1, <1>5, <1>7, AmpleSizes DEF Writing, Held, Single, Padded
<1>11. ~b.buffers[b.cur_buf].in_flight => Cardinality(b.io) < PoolSize
  BY <1>1, <1>5, PoolHasRoom
<1>12. Packing(b, data) BY <1>5, PackingRests DEF Tally
<1>13. n \in Nat /\ b.bdev_io_wait = NoBuf /\ b.cur_buf \in Buffers
  BY <1>1, <1>5, <1>7
<1>14. Settled(FinalFlush(b, b.cur_buf, {}), data)
  BY <1>6, <1>8, <1>9, <1>11, <1>12, <1>13, FinalFlushSettles
<1>15. Settled(f, data) BY <1>5, <1>14
<1>16. /\ Good(f) /\ Writing(f, n) /\ f.stopping
  BY <1>5, <1>6, <1>8, <1>10, <1>13, FinalFlushWrites
<1> HIDE DEF f
<1>17. CASE f.pending_writes = 0
  <2>1. n = 0 BY <1>16, <1>17, PendingBound
  <2>2. Settled(FinalizeSegment(f, {}), data)
    BY <1>15, <1>16, <1>17, <2>1, FinalizeSegmentSettles
  <2>3. QED BY <1>3, <1>17, <2>2 DEF t
<1>18. CASE f.pending_writes # 0 BY <1>3, <1>15, <1>18 DEF t
<1>19. QED BY <1>17, <1>18

-----------------------------------------------------------------------------
(* The capture path *)

Capturing(s, data) ==
    Good(s) /\ Writing(s, 0) /\ ~s.stopping /\ Packing(s, data)

LEMMA CapturingIntact ==
    ASSUME NEW s, NEW data, Capturing(s, data)
    PROVE  Intact(s, data)
  BY DEF Capturing, Intact

LEMMA StopIntact ==
    ASSUME Ample, NEW s, NEW data, Capturing(s, data)
    PROVE  Intact(StopRecording(s, {}), data)
<1> DEFINE t == StopRecording(s, {})
<1>1. /\ Good(s) /\ Writing(s, 0) /\ ~s.stopping /\ Packing(s, data)
      /\ 0 \in {0, 1}
  BY DEF Capturing
<1>2. t.stopping BY <1>1, StopRecordingRuns
<1>3. Settled(t, data) BY <1>1, StopRecordingSettles
<1> HIDE DEF t
<1>4. QED BY <1>2, <1>3 DEF Intact, t

LEMMA DroppedCaptures ==
    ASSUME NEW s, NEW data, Capturing(s, data)
    PROVE  Capturing(Dropped(s), data)
<1> DEFINE t == Dropped(s)
<1>1. /\ Good(s) /\ Writing(s, 0) /\ ~s.stopping /\ Packing(s, data)
      /\ s \in Context
  BY DEF Capturing, Good
<1>2. /\ Good(t) /\ Same(s, t) /\ t.buffers = s.buffers
      /\ t.cur_buf = s.cur_buf
  BY <1>1, DroppedSame
<1>3. t.segment_id = s.segment_id /\ t.record_count = s.record_count
  BY <1>1 DEF Dropped, Context
<1> HIDE DEF t
<1>4. Writing(t, 0) /\ ~t.stopping BY <1>1, <1>2, SameWrites DEF Same
<1>5. Packing(t, data) BY <1>1, <1>2, <1>3, PackingRests DEF Same, Tally
<1>6. QED BY <1>2, <1>4, <1>5 DEF Capturing, t

LEMMA ReasonCaptures ==
    ASSUME NEW s, NEW data, Capturing(s, data),
           NEW w \in {"NONE", "USER", "DISK_FULL", "COUNT_LIMIT",
                      "WRITE_FAILURES"}
    PROVE  Capturing([s EXCEPT !.last_stop_reason = w], data)
<1> DEFINE t == [s EXCEPT !.last_stop_reason = w]
<1>1. /\ Good(s) /\ Writing(s, 0) /\ ~s.stopping /\ Packing(s, data)
      /\ s \in Context
  BY DEF Capturing, Good
<1>2. Good(t) /\ Same(s, t) /\ t.buffers = s.buffers BY <1>1, ReasonSame
<1>3. /\ t.segment_id = s.segment_id /\ t.record_count = s.record_count
      /\ t.cur_buf = s.cur_buf
  BY <1>1 DEF Context
<1> HIDE DEF t
<1>4. Writing(t, 0) /\ ~t.stopping BY <1>1, <1>2, SameWrites DEF Same
<1>5. Packing(t, data) BY <1>1, <1>2, <1>3, PackingRests DEF Same, Tally
<1>6. QED BY <1>2, <1>4, <1>5 DEF Capturing, t

\* The record is the next of the segment and lies behind the others.
LEMMA AppendedCaptures ==
    ASSUME Ample, NEW s, NEW data, Capturing(s, data), NEW size \in Nat \ {0},
           ~s.buffers[s.cur_buf].in_flight,
           s.buffers[s.cur_buf].used + size <= BufSize
    PROVE  Capturing(Appended(s, size), data)
<1> DEFINE c == s.cur_buf
           b == s.buffers[c]
           t == Appended(s, size)
           g == s.segment_id
           n == s.record_count
<1>1. /\ Good(s) /\ Writing(s, 0) /\ ~s.stopping /\ Packing(s, data)
      /\ s \in Context /\ c \in Buffers /\ s.io \subseteq Request
      /\ b \in WriteBuf /\ g \in Nat /\ n \in Nat /\ size \in Nat
  BY DEF Capturing, Good, Context
<1>2. b.used \in Nat /\ b.data \in Chunk BY <1>1 DEF WriteBuf
<1>3. /\ Good(t) /\ Writing(t, 0) /\ ~t.stopping BY <1>1, AppendedWrites
<1>4. /\ t.io = s.io /\ t.segment_id = g /\ t.record_count = n + 1
      /\ t.segment_start_block = s.segment_start_block
      /\ t.next_write_block = s.next_write_block /\ t.cur_buf = c
      /\ t.buffers[c].used = b.used + size
      /\ t.buffers[c].data =
           PutRecord(b.data, b.used, [seg |-> g, seq |-> n, len |-> size])
      /\ ~t.buffers[c].in_flight
      /\ \A j \in Buffers : j # c => t.buffers[j] = s.buffers[j]
  BY <1>1 DEF Appended, Context, WriteBuf
<1>5. PICK img, z : Laid(s, data, img, s.next_write_block, z) /\ Loose(s, z)
  BY <1>1 DEF Packing
<1>6. z \in Nat /\ Holds(b.data, b.used, g, z, n)
  BY <1>5 DEF Laid, Loose
<1> HIDE DEF t
<1>7. Holds(t.buffers[c].data, t.buffers[c].used, g, z, n + 1)
  BY <1>1, <1>2, <1>4, <1>6, PutHolds
<1>8. Loose(t, z) BY <1>4, <1>7 DEF Loose
<1>9. ASSUME NEW r \in Datas(s)
      PROVE  t.buffers[r.id].data = s.buffers[r.id].data
  <2>1. r \in s.io /\ r.id \in Buffers BY <1>1 DEF Datas, Request
  <2>2. s.buffers[r.id].in_flight BY <1>1, <2>1 DEF Writing, Single
  <2>3. QED BY <1>4, <2>1, <2>2
<1>10. Datas(t) = Datas(s) BY <1>4 DEF Datas
<1>11. Laid(t, data, img, t.next_write_block, z)
  BY <1>4, <1>5, <1>9, <1>10, LaidRests
<1>12. QED BY <1>3, <1>8, <1>11 DEF Packing, Capturing, t

LEMMA RecordedIntact ==
    ASSUME Ample, NEW s, NEW data, Capturing(s, data), NEW size \in Nat \ {0},
           ~s.buffers[s.cur_buf].in_flight,
           s.buffers[s.cur_buf].used + size <= BufSize
    PROVE  Intact(Recorded(s, size, {}), data)
<1> DEFINE t == Appended(s, size)
           u == [t EXCEPT !.last_stop_reason = "COUNT_LIMIT"]
           v == StopRecording(u, {})
<1>1. Recorded(s, size, {}) \in {t, v} BY DEF Recorded
<1>2. Capturing(t, data) BY AppendedCaptures
<1> HIDE DEF t
<1>3. Capturing(u, data) BY <1>2, ReasonCaptures
<1> HIDE DEF u
<1>4. Intact(v, data) BY <1>3, StopIntact
<1>5. Intact(t, data) BY <1>2, CapturingIntact
<1>6. QED BY <1>1, <1>4, <1>5

\* After a flush all records counted are with the device, and any buffer may be
\* the current one.
LEMMA FlushBufferCaptures ==
    ASSUME Ample, NEW s, NEW data, Capturing(s, data), HasRoom(s),
           ~s.buffers[s.cur_buf].in_flight, NEW j \in Buffers
    PROVE  Capturing([FlushBuffer(s, s.cur_buf, {}) EXCEPT !.cur_buf = j],
                     data)
<1> DEFINE i == s.cur_buf
           b == s.buffers[i]
           L == s.next_write_block
           c == s.record_count
           g == s.segment_id
           f == FlushBuffer(s, i, {})
           t == [f EXCEPT !.cur_buf = j]
           u == Flushed(s, i)
<1>1. /\ Good(s) /\ Writing(s, 0) /\ ~s.stopping /\ Packing(s, data)
      /\ s \in Context /\ i \in Buffers /\ b \in WriteBuf /\ L \in Nat
      /\ c \in Nat /\ s.segment_start_block \in Nat
  BY DEF Capturing, Good, Context
<1>2. b.used \in 0 .. BufSize /\ b.used \in Nat /\ b.data \in Chunk
  BY <1>1 DEF WriteBuf
<1>3. PICK img, z : Laid(s, data, img, L, z) /\ Loose(s, z)
  BY <1>1 DEF Packing
<1>4. z \in Nat /\ Holds(b.data, b.used, g, z, c)
  BY <1>3 DEF Laid, Loose
<1>5. /\ Good(f) /\ Quiet(f) /\ Writing(f, 0) /\ ~f.stopping
  BY <1>1, FlushBufferWrites
<1>6. f.record_count = c /\ \E m : Laid(f, data, m, f.next_write_block, c)
  <2>1. CASE b.used = 0
    <3>1. f = s BY <2>1 DEF FlushBuffer
    <3>2. z = c BY <1>4, <2>1 DEF Holds
    <3> HIDE DEF f
    <3>3. QED BY <1>3, <3>1, <3>2
  <2>2. CASE b.used # 0
    <3>1. ~Refused(HandedOff(s, i), i, "data", {}) BY <1>1, FlushedFields
    <3>2. f = u BY <2>2, <3>1 DEF FlushBuffer, RetryFlush, Flushed
    <3>3. /\ u.next_write_block = L + 1
          /\ u.segment_start_block = s.segment_start_block
      BY <1>1, FlushedFields
    <3>4. u.segment_id = g /\ u.record_count = c BY <1>1, FlushedTally
    <3> DEFINE new == WithBlock(s, i, img)
    <3>5. L <= s.next_write_block BY <1>1
    <3>6. \A r \in s.io : Padded(s, r.id) BY <1>1 DEF Writing, Single
    <3>7. Cardinality(s.io) < PoolSize BY <1>1, PoolHasRoom
    <3>8. Cardinality(s.io) \in Nat /\ PoolSize \in Nat
      BY <1>1, FS_CardinalityType, AmpleSizes DEF Writing, Counted
    <3>9. ~(Cardinality(s.io) >= PoolSize) BY <3>7, <3>8
    <3>10. /\ Laid(u, data, new, L, z) /\ new \in Images
           /\ new[L] = Handed(s, i).data
      BY <1>1, <1>3, <3>5, <3>6, <3>9, FlushedLays
    <3> HIDE DEF u, new, f
    <3>11. b.used \in 1 .. BufSize BY <1>2, <2>2, AmpleSizes
    <3>12. Sealed(new[L], g, z, c)
      BY <1>2, <1>4, <3>10, <3>11, PaddedIsSealed DEF Handed
    <3>13. Chain(new, g, s.segment_start_block, L, z)
      BY <3>3, <3>4, <3>10 DEF Laid
    <3>14. L + 1 <= NumBlocks BY AmpleSizes DEF HasRoom
    <3>15. Chain(new, g, s.segment_start_block, L + 1, c)
      BY <1>1, <3>10, <3>12, <3>13, <3>14, ChainGrows
    <3>16. Laid(u, data, new, L + 1, c)
      BY <1>1, <3>3, <3>4, <3>10, <3>15 DEF Laid
    <3>17. QED BY <3>2, <3>3, <3>4, <3>16
  <2>3. QED BY <2>1, <2>2
<1> HIDE DEF f
<1>7. PICK m : Laid(f, data, m, f.next_write_block, c) BY <1>6
<1>8. f \in Context BY <1>5 DEF Good
<1>9. t \in Context BY <1>8 DEF Context
<1>10. /\ Same(f, t) /\ t.buffers = f.buffers /\ t.cur_buf = j
       /\ t.segment_id = f.segment_id /\ t.record_count = f.record_count
  BY <1>8 DEF Context, Same
<1> HIDE DEF t
<1>11. Good(t) BY <1>5, <1>9, <1>10 DEF Good, Spare, Quiet
<1>12. Writing(t, 0) /\ ~t.stopping BY <1>5, <1>10, SameWrites DEF Same
<1>13. Datas(t) = Datas(f) BY <1>10 DEF Datas, Same
<1>14. Laid(t, data, m, t.next_write_block, c)
  BY <1>7, <1>10, <1>13, LaidRests DEF Same
<1>15. Loose(t, c)
  <2>1. CASE t.buffers[j].in_flight BY <1>6, <1>10, <2>1 DEF Loose
  <2>2. CASE ~t.buffers[j].in_flight
    <3>1. t.buffers[j].used \in Nat BY <1>9 DEF Context, WriteBuf
    <3>2. t.buffers[j].used = 0 BY <1>5, <1>10, <2>2, <3>1 DEF Quiet
    <3>3. Holds(t.buffers[j].data, 0, t.segment_id, c, c)
      BY <1>1 DEF Holds
    <3>4. QED BY <1>6, <1>10, <2>2, <3>2, <3>3 DEF Loose
  <2>3. QED BY <2>1, <2>2
<1>16. Packing(t, data) BY <1>14, <1>15 DEF Packing
<1>17. QED BY <1>11, <1>12, <1>16 DEF Capturing, t, f

LEMMA NextBufferIntact ==
    ASSUME Ample, NEW s, NEW data, Capturing(s, data), HasRoom(s),
           ~s.buffers[s.cur_buf].in_flight, NEW size \in Nat \ {0}
    PROVE  Intact(NextBuffer(s, size, {}), data)
<1> DEFINE f == FlushBuffer(s, s.cur_buf, {})
           c == (s.cur_buf + 1) % WriteBufCount
           t == [f EXCEPT !.cur_buf = c]
           y == NextBuffer(s, size, {})
<1>1. Good(s) /\ Writing(s, 0) /\ ~s.stopping BY DEF Capturing
<1>2. s.cur_buf \in Buffers BY <1>1 DEF Good, Context
<1>3. c \in Buffers BY <1>2, Sizes DEF Buffers
<1>4. y = IF t.buffers[t.cur_buf].in_flight \/ size > BufSize
          THEN Dropped(t) ELSE Recorded(t, size, {})
  BY DEF NextBuffer
<1> HIDE DEF c, y
<1>5. Capturing(t, data) BY <1>3, FlushBufferCaptures
<1>6. Quiet(f) /\ f \in Context BY <1>1, FlushBufferWrites DEF Good
<1> HIDE DEF f
<1>7. t.buffers = f.buffers /\ t.cur_buf = c BY <1>6 DEF Context
<1> HIDE DEF t
<1>8. f.buffers[c].used \in 0 .. BufSize
  BY <1>3, <1>6 DEF Context, WriteBuf
<1>9. CASE t.buffers[t.cur_buf].in_flight \/ size > BufSize
  <2>1. y = Dropped(t) BY <1>4, <1>9
  <2>2. QED BY <1>5, <2>1, DroppedCaptures, CapturingIntact DEF y
<1>10. CASE ~(t.buffers[t.cur_buf].in_flight \/ size > BufSize)
  <2>1. y = Recorded(t, size, {}) BY <1>4, <1>10
  <2>2. ~(t.buffers[t.cur_buf].used > 0)
    BY <1>3, <1>6, <1>7, <1>10 DEF Quiet
  <2>3. t.buffers[t.cur_buf].used + size <= BufSize
    BY <1>7, <1>8, <1>10, <2>2, Sizes
  <2>4. QED BY <1>5, <1>10, <2>1, <2>3, RecordedIntact DEF y
<1>11. QED BY <1>9, <1>10

LEMMA CapturePollIntact ==
    ASSUME Ample, NEW s, NEW data, Capturing(s, data), NEW size \in Nat \ {0}
    PROVE  Intact(CapturePoll(s, size, {}), data)
<1> DEFINE b == s.buffers[s.cur_buf]
           d == Dropped(s)
           u == [d EXCEPT !.last_stop_reason = "DISK_FULL"]
           t == CapturePoll(s, size, {})
<1>1. Capturing(d, data) BY DroppedCaptures
<1>2. CASE b.in_flight
  <2>1. t = d BY <1>2 DEF CapturePoll
  <2> HIDE DEF t, d
  <2>2. QED BY <1>1, <2>1, CapturingIntact DEF t
<1>3. CASE ~b.in_flight /\ Fits(b, size)
  <2>1. t = Recorded(s, size, {}) BY <1>3 DEF CapturePoll
  <2>2. QED BY <1>3, <2>1, RecordedIntact DEF Fits
<1>4. CASE ~b.in_flight /\ ~Fits(b, size) /\ HasRoom(s)
  <2>1. t = NextBuffer(s, size, {}) BY <1>4 DEF CapturePoll
  <2>2. QED BY <1>4, <2>1, NextBufferIntact
<1>5. CASE ~b.in_flight /\ ~Fits(b, size) /\ ~HasRoom(s)
  <2>1. t = StopRecording(u, {}) BY <1>5 DEF CapturePoll
  <2> HIDE DEF t, d
  <2>2. Capturing(u, data) BY <1>1, ReasonCaptures
  <2> HIDE DEF u
  <2>3. QED BY <2>1, <2>2, StopIntact DEF t
<1>6. QED BY <1>2, <1>3, <1>4, <1>5

-----------------------------------------------------------------------------
(* A write that is done *)

\* The data blocks once request r is performed.
Wrote1(s, data, r) ==
    [b \in 0 .. NumBlocks - 1 |->
       IF b = r.at THEN s.buffers[r.id].data ELSE data[b]]

LEMMA ReturnedTally ==
    ASSUME Ample, NEW s, Good(s), Writing(s, 0), NEW r \in s.io
    PROVE  LET t == Released(FreeIo(s, r, {}), r.id)
           IN  Tally(s, t) /\ t.cur_buf = s.cur_buf
<1> DEFINE w == s.bdev_io_wait
           p == [s EXCEPT !.io = @ \ {r}, !.bdev_io_wait = NoBuf]
           f == FreeIo(s, r, {})
<1>1. s \in Context /\ s.io \subseteq Request BY DEF Good, Context
<1>2. Tally(s, f) /\ f.cur_buf = s.cur_buf /\ f \in Context
  <2>1. Good(f) BY FreeIoFields
  <2>2. CASE w = NoBuf
    <3>1. f = [s EXCEPT !.io = @ \ {r}] BY <2>2 DEF FreeIo
    <3> HIDE DEF f
    <3>2. QED BY <1>1, <2>1, <3>1 DEF Context, Tally, Good
  <2>3. CASE w # NoBuf
    <3>1. ~s.wait_requeued BY DEF Writing, Counted
    <3>2. f = RetryFlush(p, w, "retry", {})
      BY <1>1, <2>3, <3>1 DEF FreeIo, Context
    <3>3. /\ p \in Context /\ p.buffers = s.buffers /\ Tally(s, p)
          /\ p.cur_buf = s.cur_buf
      <4>1. s.io \ {r} \in SUBSET Request BY <1>1
      <4>2. QED BY <1>1, <4>1 DEF Context, Tally
    <3>4. s.buffers[w].target_block < s.next_write_block
          /\ s.next_write_block <= NumBlocks
      BY <2>3 DEF Writing, Queued, Charted, Inside
    <3>5. s.buffers[w].target_block \in Nat /\ s.next_write_block \in Nat
          /\ w \in Buffers
      BY <1>1, <2>3 DEF Context, WriteBuf
    <3> HIDE DEF f, p
    <3>6. ~Refused(p, w, "retry", {})
      BY <3>3, <3>4, <3>5, AmpleSizes DEF Refused
    <3>7. f = Issued(p, w, "retry", {}) BY <3>2, <3>6 DEF RetryFlush
    <3>8. CASE Cardinality(p.io) >= PoolSize
      <4>1. f = WaitForIo(p, w) BY <3>6, <3>7, <3>8 DEF Issued
      <4>2. QED BY <2>1, <3>3, <4>1 DEF WaitForIo, Context, Good, Tally
    <3>9. CASE ~(Cardinality(p.io) >= PoolSize)
      <4>1. f = Submitted(p, "data", w, p.buffers[w].target_block)
        BY <3>6, <3>7, <3>9 DEF Issued
      <4>2. QED BY <2>1, <3>3, <4>1 DEF Submitted, Context, Good, Tally
    <3>10. QED BY <3>8, <3>9
  <2>4. QED BY <2>2, <2>3
<1> HIDE DEF f
<1>3. Tally(f, Released(f, r.id)) /\ Released(f, r.id).cur_buf = f.cur_buf
  BY <1>2 DEF Released, Context, Tally
<1>4. QED BY <1>2, <1>3 DEF Tally, f

\* A write that waited goes out in the place of the one that is done; it lies
\* behind the chain.
LEMMA ReturnedLays ==
    ASSUME Ample, NEW s, Good(s), Writing(s, 0), NEW r \in s.io,
           NEW data, NEW img, NEW L, NEW z, Laid(s, data, img, L, z),
           s.bdev_io_wait # NoBuf =>
              L <= s.buffers[s.bdev_io_wait].target_block
    PROVE  \E m : Laid(Released(FreeIo(s, r, {}), r.id),
                       Wrote1(s, data, r), m, L, z)
<1> DEFINE f == FreeIo(s, r, {})
           t == Released(f, r.id)
           w == s.bdev_io_wait
           a == s.buffers[w].target_block
           q == [op |-> "data", id |-> w, at |-> a]
           new == Wrote1(s, data, r)
           m == IF w = NoBuf THEN img
                ELSE [img EXCEPT ![a] = s.buffers[w].data]
<1>1. /\ s \in Context /\ s.io \subseteq Request
      /\ s.buffers \in [Buffers -> WriteBuf] /\ w \in Buffers \cup {NoBuf}
      /\ s.segment_start_block \in Nat /\ s.next_write_block \in Nat
  BY DEF Good, Context
<1>2. /\ \A x \in s.io : x.op = "data" /\ x.id \in Buffers
      /\ \A x \in s.io : x.at \in 0 .. NumBlocks - 1
      /\ \A x, y \in s.io : x.at = y.at => x = y
      /\ s.next_write_block <= NumBlocks
  BY <1>1, AmpleSizes DEF Writing, Charted, Inside, Request
<1>3. w # NoBuf => /\ a \in 0 .. NumBlocks - 1 /\ w \in Buffers
                   /\ \A x \in s.io : x.at # a
  <2>1. SUFFICES ASSUME w # NoBuf
                 PROVE  /\ a \in 0 .. NumBlocks - 1 /\ w \in Buffers
                        /\ \A x \in s.io : x.at # a
    OBVIOUS
  <2>2. Inside(s, a) /\ \A x \in s.io : x.at # a
    BY <2>1 DEF Writing, Queued
  <2>3. a \in Nat /\ w \in Buffers BY <1>1, <2>1 DEF WriteBuf
  <2>4. QED BY <1>1, <1>2, <2>2, <2>3, AmpleSizes DEF Inside
<1>4. f.io = IF w = NoBuf THEN s.io \ {r} ELSE (s.io \ {r}) \cup {q}
  BY FreeIoFields
<1>5. Good(f) BY FreeIoFields
<1>6. /\ t.io = f.io BY <1>2, <1>5, ReleasedFields
<1>7. SameData(s, t) BY ReturnedWrites
<1>8. Tally(s, t) BY ReturnedTally
<1> HIDE DEF f, t
<1>9. q.op = "data" /\ q.id = w /\ q.at = a OBVIOUS
<1> HIDE DEF q
<1>10. Datas(s) = s.io BY <1>2 DEF Datas
<1>11. /\ L \in Nat /\ z \in Nat /\ img \in Images
       /\ \A x \in s.io : img[x.at] = s.buffers[x.id].data
       /\ \A b \in 0 .. NumBlocks - 1 :
             (\A x \in s.io : x.at # b) => img[b] = data[b]
       /\ Chain(img, s.segment_id, s.segment_start_block, L, z)
  BY <1>10 DEF Laid, Shows
<1>12. \A b \in 0 .. NumBlocks - 1 :
          new[b] = IF b = r.at THEN s.buffers[r.id].data ELSE data[b]
  BY DEF Wrote1
<1> HIDE DEF new
<1>13. /\ m \in Images
       /\ w # NoBuf => m[a] = s.buffers[w].data
       /\ \A b \in 0 .. NumBlocks - 1 :
             (w # NoBuf => b # a) => m[b] = img[b]
  <2>1. CASE w = NoBuf BY <1>11, <2>1
  <2>2. CASE w # NoBuf
    <3>1. s.buffers[w].data \in Chunk BY <1>1, <1>3, <2>2 DEF WriteBuf
    <3>2. m = [img EXCEPT ![a] = s.buffers[w].data] BY <2>2
    <3> HIDE DEF m, a
    <3>3. QED BY <1>3, <1>11, <2>2, <3>1, <3>2 DEF Images
  <2>3. QED BY <2>1, <2>2
<1> HIDE DEF m
<1>14. Datas(t) = IF w = NoBuf THEN s.io \ {r} ELSE (s.io \ {r}) \cup {q}
  BY <1>2, <1>4, <1>6, <1>9 DEF Datas
<1>15. ASSUME NEW x \in Datas(t) PROVE m[x.at] = t.buffers[x.id].data
  <2>1. CASE x \in s.io
    <3>1. m[x.at] = img[x.at] BY <1>2, <1>3, <1>13, <2>1
    <3>2. QED BY <1>2, <1>7, <1>11, <2>1, <3>1 DEF SameData
  <2>2. CASE x \notin s.io
    <3>1. w # NoBuf /\ x = q BY <1>14, <2>2
    <3>2. QED BY <1>3, <1>7, <1>9, <1>13, <3>1 DEF SameData
  <2>3. QED BY <2>1, <2>2
<1>16. ASSUME NEW b \in 0 .. NumBlocks - 1, \A x \in Datas(t) : x.at # b
       PROVE  m[b] = new[b]
  <2>1. w # NoBuf => b # a BY <1>9, <1>14, <1>16
  <2>2. m[b] = img[b] BY <1>13, <2>1
  <2>3. CASE b = r.at BY <1>11, <1>12, <2>2, <2>3
  <2>4. CASE b # r.at
    <3>1. \A x \in s.io : x.at # b BY <1>14, <1>16, <2>4
    <3>2. QED BY <1>11, <1>12, <2>2, <2>4, <3>1
  <2>5. QED BY <2>3, <2>4
<1>17. Shows(t, new, m) BY <1>13, <1>15, <1>16 DEF Shows
<1>18. \A b \in s.segment_start_block .. L - 1 : m[b] = img[b]
  <2>1. L <= NumBlocks BY <1>11 DEF Chain
  <2>2. ASSUME NEW b \in s.segment_start_block .. L - 1
        PROVE  b \in 0 .. NumBlocks - 1 /\ (w # NoBuf => b # a)
    BY <1>1, <1>3, <1>11, <2>1, AmpleSizes
  <2>3. QED BY <1>13, <2>2
<1>19. Chain(m, s.segment_id, s.segment_start_block, L, z)
  BY <1>1, <1>11, <1>18, ChainRests
<1>20. Laid(t, new, m, L, z) BY <1>8, <1>11, <1>17, <1>19 DEF Laid, Tally
<1>21. QED BY <1>20 DEF t, f, new

LEMMA ReturnedIntact ==
    ASSUME Ample, NEW s, Good(s), Writing(s, 0), NEW r \in s.io,
           NEW data, Intact(s, data)
    PROVE  Intact(Released(FreeIo(s, r, {}), r.id), Wrote1(s, data, r))
<1> DEFINE t == Released(FreeIo(s, r, {}), r.id)
           new == Wrote1(s, data, r)
           i == r.id
<1>1. /\ Good(t) /\ Writing(t, 1) /\ t.stopping = s.stopping
      /\ t.buffers[i].used = 0
      /\ \A j \in Buffers : j # i => t.buffers[j] = s.buffers[j]
  BY ReturnedWrites
<1>2. Tally(s, t) /\ t.cur_buf = s.cur_buf BY ReturnedTally
<1>3. s.recording BY DEF Writing
<1>4. /\ s \in Context /\ s.io \subseteq Request /\ s.cur_buf \in Buffers
      /\ s.record_count \in Nat
  BY DEF Good, Context
<1>5. i \in Buffers
  <2>1. r \in Request /\ r.op = "data" BY <1>4 DEF Writing, Charted
  <2>2. QED BY <2>1 DEF Request
<1>6. t.bdev_io_wait = NoBuf /\ ~t.buffers[i].in_flight
  <2> DEFINE f == FreeIo(s, r, {})
  <2>1. Good(f) /\ f.bdev_io_wait = NoBuf BY FreeIoFields
  <2> HIDE DEF f, i
  <2>2. /\ Released(f, i).bdev_io_wait = f.bdev_io_wait
        /\ ~Released(f, i).buffers[i].in_flight
    BY <1>5, <2>1, ReleasedFields
  <2>3. QED BY <2>1, <2>2 DEF f, i
<1>7. CASE s.stopping
  <2>1. PICK img, L, z : Laid(s, data, img, L, z) /\ Closed(s, L, z)
    BY <1>3, <1>7 DEF Intact, Settled
  <2>2. PICK m : Laid(t, new, m, L, z) BY <2>1, ReturnedLays DEF Closed
  <2> HIDE DEF t, new
  <2>3. Closed(t, L, z) BY <1>2, <1>6, <2>1 DEF Closed, Tally
  <2>4. Settled(t, new) BY <2>2, <2>3 DEF Settled
  <2>5. QED BY <1>1, <1>7, <2>4 DEF Intact, t, new
<1>8. CASE ~s.stopping
  <2>1. PICK img, z : Laid(s, data, img, s.next_write_block, z) /\ Loose(s, z)
    BY <1>3, <1>8 DEF Intact, Packing
  <2>2. s.bdev_io_wait = NoBuf BY <1>8 DEF Writing, Queued
  <2>3. PICK m : Laid(t, new, m, s.next_write_block, z)
    BY <2>1, <2>2, ReturnedLays
  <2>4. s.buffers[i].in_flight BY <1>8 DEF Writing, Single
  <2> HIDE DEF t, new, i
  <2>5. Loose(t, z)
    <3>1. CASE s.cur_buf = i
      <4>1. z = s.record_count BY <2>1, <2>4, <3>1 DEF Loose
      <4>2. Holds(t.buffers[i].data, 0, t.segment_id, z, z)
        BY <1>4, <4>1 DEF Holds
      <4>3. QED BY <1>1, <1>2, <1>6, <3>1, <4>1, <4>2 DEF Loose, Tally
    <3>2. CASE s.cur_buf # i
      BY <1>1, <1>2, <1>4, <2>1, <3>2 DEF Loose, Tally
    <3>3. QED BY <3>1, <3>2
  <2>6. Packing(t, new) BY <1>2, <2>3, <2>5 DEF Packing, Tally
  <2>7. QED BY <1>1, <1>8, <2>6 DEF Intact, t, new, i
<1>9. QED BY <1>7, <1>8

LEMMA WriteCompleteIntact ==
    ASSUME Ample, NEW s, Good(s), Writing(s, 0), NEW r \in s.io,
           NEW data, Intact(s, data)
    PROVE  Intact(WriteComplete(s, r, TRUE, {}), Wrote1(s, data, r))
<1> DEFINE t == Released(FreeIo(s, r, {}), r.id)
           z == [t EXCEPT !.consecutive_write_failures = 0]
           n == z.pending_writes - 1
           v == [z EXCEPT !.pending_writes = n]
           y == WriteComplete(s, r, TRUE, {})
           new == Wrote1(s, data, r)
<1>1. y = FinalizeIfDrained(v, {}) BY DEF WriteComplete
<1>2. Good(t) /\ Writing(t, 1) BY ReturnedWrites
<1>3. Intact(t, new) BY ReturnedIntact
<1> HIDE DEF t, y, new
<1>4. t \in Context BY <1>2 DEF Good
<1>5. z \in Context BY <1>4, Sizes DEF Context
<1>6. /\ z.up = t.up /\ z.recording = t.recording /\ z.stopping = t.stopping
      /\ z.wait_requeued = t.wait_requeued /\ z.io = t.io
      /\ z.bdev_io_wait = t.bdev_io_wait /\ z.vol = t.vol
      /\ z.pending_writes = t.pending_writes /\ z.buffers = t.buffers
      /\ z.next_write_block = t.next_write_block
      /\ z.segment_start_block = t.segment_start_block
      /\ z.cur_buf = t.cur_buf /\ z.segment_id = t.segment_id
      /\ z.record_count = t.record_count
  BY <1>4 DEF Context
<1> HIDE DEF z
<1>7. z.pending_writes \in Int /\ n \in Int /\ z.pending_writes = n + 1
  BY <1>5 DEF Context
<1> HIDE DEF n
<1>8. v \in Context BY <1>5, <1>7 DEF Context
<1>9. /\ v.up = t.up /\ v.recording = t.recording /\ v.stopping = t.stopping
      /\ v.wait_requeued = t.wait_requeued /\ v.io = t.io
      /\ v.bdev_io_wait = t.bdev_io_wait /\ v.vol = t.vol
      /\ v.pending_writes = n /\ v.buffers = t.buffers
      /\ v.next_write_block = t.next_write_block
      /\ v.segment_start_block = t.segment_start_block
      /\ v.cur_buf = t.cur_buf /\ v.segment_id = t.segment_id
      /\ v.record_count = t.record_count
  BY <1>5, <1>6 DEF Context
<1> HIDE DEF v
<1>10. Good(v) BY <1>2, <1>8, <1>9 DEF Good, Spare
<1>11. Writing(v, 0)
  <2>1. Waiters(v) = Waiters(t) /\ Waiters(t) \in Nat
    BY <1>9 DEF Waiters
  <2>2. Cardinality(t.io) \in Nat
    BY <1>2, FS_CardinalityType DEF Writing, Counted
  <2>3. t.pending_writes = n + 1 BY <1>6, <1>7
  <2>4. Counted(v, 0)
    BY <1>2, <1>7, <1>9, <2>1, <2>2, <2>3 DEF Writing, Counted
  <2>5. \A b : Inside(v, b) <=> Inside(t, b) BY <1>9 DEF Inside
  <2>6. \A i : Padded(v, i) <=> Padded(t, i) BY <1>9 DEF Padded
  <2>7. Charted(v) BY <1>2, <1>9, <2>5 DEF Writing, Charted
  <2>8. Held(v) BY <1>2, <1>9 DEF Writing, Held
  <2>9. Queued(v) BY <1>2, <1>9, <2>5 DEF Writing, Queued
  <2>10. Single(v) BY <1>2, <1>9, <2>6 DEF Writing, Single
  <2>11. QED BY <1>2, <1>9, <2>4, <2>7, <2>8, <2>9, <2>10 DEF Writing
<1>12. Tally(t, v) /\ v.io = t.io BY <1>9 DEF Tally
<1>13. Datas(v) = Datas(t) BY <1>12 DEF Datas
<1>14. t.recording BY <1>2 DEF Writing
<1>15. CASE ~t.stopping
  <2>1. Packing(t, new) BY <1>3, <1>14, <1>15 DEF Intact
  <2>2. Packing(v, new) BY <1>9, <1>12, <2>1, PackingRests
  <2>3. y = v BY <1>1, <1>9, <1>15 DEF FinalizeIfDrained
  <2>4. QED BY <1>9, <1>15, <2>2, <2>3 DEF Intact, y, new
<1>16. CASE t.stopping
  <2>1. Settled(t, new) BY <1>3, <1>14, <1>16 DEF Intact
  <2>2. t.io \subseteq Request BY <1>4 DEF Context
  <2>3. Settled(v, new) BY <1>9, <1>12, <1>13, <2>1, <2>2, SettledRests
  <2>4. CASE v.pending_writes # 0
    <3>1. y = v BY <1>1, <2>4 DEF FinalizeIfDrained
    <3>2. QED BY <1>9, <1>16, <2>3, <3>1 DEF Intact, y, new
  <2>5. CASE v.pending_writes = 0
    <3>1. y = FinalizeSegment(v, {})
      BY <1>1, <1>9, <1>16, <2>5 DEF FinalizeIfDrained
    <3>2. Settled(y, new)
      BY <1>9, <1>10, <1>11, <1>16, <2>3, <2>5, <3>1, FinalizeSegmentSettles
    <3>3. y.stopping
      BY <1>9, <1>10, <1>11, <1>16, <2>5, <3>1, FinalizeSegmentRuns
      DEF FinalizingHeader, Finalizing
    <3>4. QED BY <3>2, <3>3 DEF Intact, y, new
  <2>6. QED BY <2>4, <2>5
<1>17. QED BY <1>15, <1>16

-----------------------------------------------------------------------------
(* The inductive invariant *)

Readable ==
    /\ \A g \in Finalized(disk) : Stored(disk.data, g, disk.toc[g])
    /\ ctx.up => Intact(ctx, disk.data)

\* A stop asked for in a recording, of the context as it is or with a field
\* changed that the phases say nothing of.
LEMMA StopAskedIntact ==
    ASSUME Ample, NEW s, Good(s), Line(s), s.recording, NEW data,
           Intact(s, data), NEW z, Good(z), Same(s, z),
           z.buffers = s.buffers, z.cur_buf = s.cur_buf,
           z.segment_id = s.segment_id, z.record_count = s.record_count
    PROVE  Intact(StopRecording(z, {}), data)
<1>1. Tally(s, z) /\ z.io = s.io /\ z.stopping = s.stopping
  BY DEF Tally, Same
<1>2. CASE s.stopping
  <2>1. StopRecording(z, {}) = z BY <1>1, <1>2 DEF StopRecording
  <2>2. Settled(s, data) BY <1>2 DEF Intact
  <2>3. s.io \subseteq Request BY DEF Good, Context
  <2>4. Datas(z) = Datas(s) BY <1>1 DEF Datas
  <2>5. z.bdev_io_wait = s.bdev_io_wait BY DEF Same
  <2>6. Settled(z, data) BY <1>1, <2>2, <2>3, <2>4, <2>5, SettledRests
  <2>7. QED BY <1>1, <1>2, <2>1, <2>6 DEF Intact
<1>3. CASE ~s.stopping
  <2>1. Writing(s, 0)
    BY <1>3 DEF Line, Idle, Claiming, Running, FinalizingHeader,
      FinalizingToc, Finalizing
  <2>2. Writing(z, 0) BY <2>1, SameWrites
  <2>3. Packing(s, data) BY <1>3 DEF Intact
  <2>4. Packing(z, data) BY <1>1, <2>3, PackingRests
  <2>5. Capturing(z, data) BY <1>1, <1>3, <2>2, <2>4 DEF Capturing
  <2>6. QED BY <2>5, StopIntact
<1>4. QED BY <1>2, <1>3

\* The data blocks after the device has performed one data write.
LEMMA PerformedData ==
    ASSUME NEW r \in Request, r.op = "data"
    PROVE  Performed({r}).data = Wrote1(ctx, disk.data, r)
<1> DEFINE Q(i, b) == [op |-> "data", id |-> i, at |-> b]
           V(b) == IF \E i \in Buffers : Q(i, b) \in {r}
                   THEN ctx.buffers[CHOOSE i \in Buffers :
                                      Q(i, b) \in {r}].data
                   ELSE disk.data[b]
<1>1. Performed({r}).data = [b \in 0 .. NumBlocks - 1 |-> V(b)]
  BY DEF Performed
<1>2. \A i, b : Q(i, b) \in {r} <=> i = r.id /\ b = r.at
  BY DEF Request
<1>3. r.id \in Buffers BY DEF Request
<1>4. ASSUME NEW b \in 0 .. NumBlocks - 1
      PROVE  V(b) = IF b = r.at THEN ctx.buffers[r.id].data
                    ELSE disk.data[b]
  <2>1. CASE b = r.at
    <3>1. \E i \in Buffers : Q(i, b) \in {r} BY <1>2, <1>3, <2>1
    <3> DEFINE c == CHOOSE i \in Buffers : Q(i, b) \in {r}
    <3>2. Q(c, b) \in {r} BY <3>1
    <3>3. c = r.id BY <1>2, <3>2
    <3>4. V(b) = ctx.buffers[c].data BY <3>1
    <3>5. QED BY <2>1, <3>3, <3>4
  <2>2. CASE b # r.at
    <3>1. ~\E i \in Buffers : Q(i, b) \in {r} BY <1>2, <2>2
    <3>2. QED BY <2>2, <3>1
  <2>3. QED BY <2>1, <2>2
<1> HIDE DEF V
<1>5. QED BY <1>1, <1>4 DEF Wrote1

LEMMA PerformedNoData ==
    ASSUME NEW W, \A r \in W : r.op # "data", disk.data \in Images
    PROVE  Performed(W).data = disk.data
<1>1. \A i, b : [op |-> "data", id |-> i, at |-> b] \notin W OBVIOUS
<1>2. Performed(W).data = [b \in 0 .. NumBlocks - 1 |-> disk.data[b]]
  BY <1>1 DEF Performed
<1>3. QED BY <1>2 DEF Images

\* A block that no write asked for goes to stays as it is.
LEMMA PerformedElsewhere ==
    ASSUME NEW W, NEW b \in 0 .. NumBlocks - 1,
           \A r \in W : r.op = "data" => r.at # b
    PROVE  Performed(W).data[b] = disk.data[b]
<1>1. \A i : [op |-> "data", id |-> i, at |-> b] \notin W OBVIOUS
<1>2. QED BY <1>1 DEF Performed

\* A claimed segment begins empty, with nothing asked of the device.
LEMMA ClaimHeaderDoneIntact ==
    ASSUME Ample, NEW s, Good(s), s.io = {},
           s.segment_start_block <= NumBlocks, NEW data \in Images
    PROVE  Intact(ClaimHeaderDone(s, TRUE), data)
<1> DEFINE t == ClaimHeaderDone(s, TRUE)
<1>1. s \in Context /\ s.segment_start_block \in Nat BY DEF Good, Context
<1>2. /\ t.stopping = FALSE /\ t.io = {} /\ t.cur_buf = 0
      /\ t.next_write_block = s.segment_start_block
      /\ t.segment_start_block = s.segment_start_block
      /\ t.record_count = 0 /\ t.buffers[0].used = 0
      /\ ~t.buffers[0].in_flight
  <2> DEFINE B == [i \in Buffers |->
                     [s.buffers[i] EXCEPT !.used = 0, !.in_flight = FALSE]]
  <2>1. 0 \in Buffers /\ s.buffers[0] \in WriteBuf /\ ServeMode
    BY <1>1, AmpleSizes, Sizes DEF Context
  <2>2. B[0].used = 0 /\ ~B[0].in_flight BY <2>1 DEF WriteBuf
  <2>3. t.buffers = B BY <1>1, <2>1 DEF ClaimHeaderDone, Context
  <2>4. /\ t.stopping = FALSE /\ t.io = {} /\ t.cur_buf = 0
        /\ t.next_write_block = s.segment_start_block
        /\ t.segment_start_block = s.segment_start_block
        /\ t.record_count = 0
    BY <1>1, <2>1 DEF ClaimHeaderDone, Context
  <2> HIDE DEF B, t
  <2>5. QED BY <2>2, <2>3, <2>4
<1> HIDE DEF t
<1>3. Datas(t) = {} BY <1>2 DEF Datas
<1>4. Shows(t, data, data) BY <1>3 DEF Shows
<1>5. Chain(data, t.segment_id, t.segment_start_block, t.next_write_block, 0)
  BY <1>1, <1>2 DEF Chain, StartOf
<1>6. Laid(t, data, data, t.next_write_block, 0)
  BY <1>1, <1>2, <1>4, <1>5 DEF Laid
<1>7. Holds(t.buffers[0].data, 0, t.segment_id, 0, 0) BY DEF Holds
<1>8. Loose(t, 0) BY <1>2, <1>7 DEF Loose
<1>9. Packing(t, data) BY <1>6, <1>8 DEF Packing
<1>10. QED BY <1>2, <1>9 DEF Intact, t

LEMMA FinalizeHeaderDoneTally ==
    ASSUME Ample, NEW s, Good(s), s.io = {}
    PROVE  Tally(s, FinalizeHeaderDone(s, s.chains, {}))
<1> DEFINE e == FinalizedEntry(s)
           t == [s EXCEPT !.io_buf = e]
           u == FinalizeHeaderDone(s, s.chains, {})
<1>1. s \in Context /\ e \in Entry BY FinalizedEntryType DEF Good
<1> HIDE DEF e
<1>2. t \in Context /\ t.io = {} /\ Tally(s, t) BY <1>1 DEF Context, Tally
<1>3. u = IF Accepts(t, "toc", {})
          THEN Submitted(t, "finToc", s.chains, s.segment_id)
          ELSE FinalizeTocDone(t)
  BY DEF FinalizeHeaderDone, e
<1> HIDE DEF t
<1>4. u = Submitted(t, "finToc", s.chains, s.segment_id)
  BY <1>2, <1>3, NothingOutstanding
<1>5. QED BY <1>2, <1>4 DEF Submitted, Context, Tally

\* Every action keeps what the open segment will hold.
LEMMA NextIntact ==
    ASSUME Ample, MaxIoErrors = 0, IInv, ctx.up, Line(ctx),
           Intact(ctx, disk.data), [Next]_vars, ctx'.up
    PROVE  Intact(ctx', disk'.data)
<1> DEFINE D == disk.data
<1>1. /\ Good(ctx) /\ ctx \in Context /\ load \in Load /\ D \in Images
      /\ ctx.io \subseteq Request
  BY DEF IInv, TypeOK, Good, Images, Context
<1>2. ASSUME NEW r \in ctx.io, NEW ok \in BOOLEAN, NEW refuse,
             Answered(r, ok, refuse)
      PROVE  ok = TRUE /\ refuse = {} /\ disk' = Performed({r})
  <2>1. refuse = {} BY <1>1, <1>2, NoRefusal DEF Answered, Charge
  <2>2. ok
    BY <1>1, <1>2, RecorderAssumption DEF Answered, Charge, Load
  <2>3. QED BY <1>2, <2>1, <2>2 DEF Answered
<1>3. ASSUME Idle(ctx') \/ Claiming(ctx') PROVE Intact(ctx', disk'.data)
  BY <1>3 DEF Idle, Claiming, Intact
<1>4. CASE Packet
  <2>1. PICK size \in RecSizes, refuse \in SUBSET {"data", "hdr", "toc"} :
          /\ ctx' = CapturePoll(ctx, size, refuse)
          /\ ctx.recording /\ ~ctx.stopping
          /\ refuse # {} => load.refusals < MaxRefusals
          /\ UNCHANGED disk
    BY <1>4, AmpleSizes DEF Packet
  <2>2. size \in Nat \ {0} /\ refuse = {}
    BY <1>1, <2>1, RecorderAssumption, NoRefusal
  <2>3. Writing(ctx, 0)
    BY <2>1 DEF Line, Idle, Claiming, Running, FinalizingHeader,
      FinalizingToc, Finalizing
  <2>4. Capturing(ctx, D) BY <1>1, <2>1, <2>3 DEF Capturing, Intact
  <2> HIDE DEF D
  <2>5. Intact(ctx', D) BY <2>1, <2>2, <2>4, CapturePollIntact
  <2>6. QED BY <2>1, <2>5 DEF D
<1>5. CASE RecordingStart
  <2> DEFINE s == [ctx EXCEPT !.admin_req = "start"]
  <2>1. PICK refuse \in SUBSET {"toc"} :
          /\ Charge(refuse, TRUE) /\ ctx' = ClaimSegmentStart(s, refuse)
          /\ ~ctx.recording /\ ctx.admin_req = "none" /\ UNCHANGED disk
    BY <1>5 DEF RecordingStart
  <2>2. refuse = {} BY <1>1, <2>1, NoRefusal DEF Charge
  <2>3. Idle(ctx)
    BY <2>1 DEF Line, Claiming, Running, Writing, FinalizingHeader,
      FinalizingToc, Finalizing
  <2>4. s \in Context BY <1>1 DEF Context
  <2>5. /\ Same(ctx, s) /\ s.buffers = ctx.buffers /\ s.admin_req = "start"
        /\ s.cur_buf = ctx.cur_buf
    BY <1>1 DEF Context, Same
  <2> HIDE DEF s
  <2>6. Good(s) /\ Idle(s)
    BY <1>1, <2>3, <2>4, <2>5 DEF Good, Spare, Idle, Rest, Same
  <2>7. Idle(ctx') \/ Claiming(ctx')
    BY <2>1, <2>2, <2>5, <2>6, ClaimSegmentStartClaims
  <2>8. QED BY <1>3, <2>7
<1>6. CASE RecordingStop
  <2> DEFINE z == [ctx EXCEPT !.admin_req = "stop",
                              !.last_stop_reason = "USER"]
  <2>1. PICK refuse \in SUBSET {"data", "hdr", "toc"} :
          /\ Charge(refuse, TRUE) /\ ctx' = StopRecording(z, refuse)
          /\ ctx.recording /\ UNCHANGED disk
    BY <1>6 DEF RecordingStop
  <2>2. refuse = {} BY <1>1, <2>1, NoRefusal DEF Charge
  <2>3. z \in Context BY <1>1 DEF Context
  <2>4. /\ Same(ctx, z) /\ z.buffers = ctx.buffers
        /\ z.cur_buf = ctx.cur_buf /\ z.segment_id = ctx.segment_id
        /\ z.record_count = ctx.record_count
    BY <1>1 DEF Context, Same
  <2> HIDE DEF z
  <2>5. Good(z) BY <1>1, <2>3, <2>4 DEF Good, Spare
  <2>6. Intact(StopRecording(z, {}), D)
    BY <1>1, <2>1, <2>4, <2>5, StopAskedIntact
  <2>7. QED BY <2>1, <2>2, <2>6
<1>7. CASE Shutdown
  <2> DEFINE z == [ctx EXCEPT !.shutting_down = TRUE]
  <2>1. PICK refuse \in SUBSET {"data", "hdr", "toc"} :
          /\ Charge(refuse, TRUE) /\ UNCHANGED disk
          /\ ctx' = IF ServeMode /\ ~z.recording THEN Teardown(z)
                    ELSE StopRecording(z, refuse)
    BY <1>7 DEF Shutdown
  <2>2. refuse = {} BY <1>1, <2>1, NoRefusal DEF Charge
  <2>3. z \in Context BY <1>1 DEF Context
  <2>4. /\ Same(ctx, z) /\ z.buffers = ctx.buffers
        /\ z.cur_buf = ctx.cur_buf /\ z.segment_id = ctx.segment_id
        /\ z.record_count = ctx.record_count
    BY <1>1 DEF Context, Same
  <2> HIDE DEF z
  <2>5. Good(z) BY <1>1, <2>3, <2>4 DEF Good, Spare
  <2>6. ctx.recording
    <3>1. SUFFICES ASSUME ~ctx.recording PROVE FALSE OBVIOUS
    <3>2. ctx' = Teardown(z) BY <2>1, <2>4, <3>1, AmpleSizes DEF Same
    <3>3. QED BY <2>3, <3>2 DEF Teardown, Context
  <2>7. ctx' = StopRecording(z, {}) BY <2>1, <2>2, <2>4, <2>6 DEF Same
  <2>8. Intact(StopRecording(z, {}), D)
    BY <1>1, <2>4, <2>5, <2>6, StopAskedIntact
  <2>9. QED BY <2>1, <2>7, <2>8
<1>8. CASE DataWritten
  <2>1. PICK r \in ctx.io, ok \in BOOLEAN, refuse \in SUBSET Refusable :
          /\ Answered(r, ok, refuse) /\ r.op = "data"
          /\ ctx' = WriteComplete(ctx, r, ok, refuse)
    BY <1>8 DEF DataWritten
  <2>2. ok = TRUE /\ refuse = {} /\ disk' = Performed({r}) BY <1>2, <2>1
  <2>3. Writing(ctx, 0) BY <2>1, PhaseOf
  <2>4. Intact(WriteComplete(ctx, r, TRUE, {}), Wrote1(ctx, D, r))
    BY <1>1, <2>3, WriteCompleteIntact
  <2>5. r \in Request BY <1>1
  <2>6. disk'.data = Wrote1(ctx, D, r) BY <2>1, <2>2, <2>5, PerformedData
  <2>7. ctx' = WriteComplete(ctx, r, TRUE, {}) BY <2>1, <2>2
  <2>8. QED BY <2>4, <2>6, <2>7
<1>9. CASE ClaimTocWritten
  <2>1. PICK r \in ctx.io, ok \in BOOLEAN, refuse \in SUBSET Refusable :
          /\ Answered(r, ok, refuse) /\ r.op = "claimToc"
          /\ ctx' = ClaimTocDone(FreeIo(ctx, r, refuse), ok, refuse)
    BY <1>9 DEF ClaimTocWritten
  <2>2. refuse = {} BY <1>2, <2>1
  <2>3. Claiming(ctx) /\ ctx.io = {r} BY <2>1, PhaseOf
  <2> DEFINE u == FreeIo(ctx, r, {})
  <2>4. /\ Good(u) /\ Chained(ctx, u) /\ u.io = {} /\ u.up = ctx.up
        /\ u.recording = ctx.recording /\ u.admin_req = ctx.admin_req
        /\ u.vol = ctx.vol
        /\ u.segment_start_block = ctx.segment_start_block
    BY <1>1, <2>3, FreeIoAlone DEF Claiming, Rest
  <2>5. ctx' = ClaimTocDone(u, ok, {}) BY <2>1, <2>2
  <2> HIDE DEF u
  <2>6. Rest(u) BY <2>3, <2>4, RestChained DEF Claiming
  <2>7. Idle(ctx') \/ Claiming(ctx')
    BY <2>3, <2>4, <2>5, <2>6, ClaimTocDoneClaims DEF Claiming
  <2>8. QED BY <1>3, <2>7
<1>10. CASE ClaimHeaderWritten
  <2>1. PICK r \in ctx.io, ok \in BOOLEAN, refuse \in SUBSET Refusable :
          /\ Answered(r, ok, refuse) /\ r.op = "claimHdr"
          /\ ctx' = ClaimHeaderDone(FreeIo(ctx, r, refuse), ok)
    BY <1>10 DEF ClaimHeaderWritten
  <2>2. ok = TRUE /\ refuse = {} BY <1>2, <2>1
  <2>3. Claiming(ctx) /\ ctx.io = {r} BY <2>1, PhaseOf
  <2> DEFINE u == FreeIo(ctx, r, {})
  <2>4. /\ Good(u) /\ u.io = {}
        /\ u.segment_start_block = ctx.segment_start_block
    BY <1>1, <2>3, FreeIoAlone DEF Claiming, Rest
  <2>5. ctx' = ClaimHeaderDone(u, TRUE) BY <2>1, <2>2
  <2> HIDE DEF u
  <2>6. u.segment_start_block <= NumBlocks
    BY <2>3, <2>4 DEF Claiming, Line
  <2>7. disk'.data \in Images BY NextIInv DEF IInv, TypeOK, Images
  <2>8. QED BY <2>4, <2>5, <2>6, <2>7, ClaimHeaderDoneIntact
<1>11. CASE FinalizeHeaderWritten
  <2>1. PICK r \in ctx.io, ok \in BOOLEAN, refuse \in SUBSET Refusable :
          /\ Answered(r, ok, refuse) /\ r.op = "finHdr"
          /\ ctx' = FinalizeHeaderDone(FreeIo(ctx, r, refuse), r.id, refuse)
    BY <1>11 DEF FinalizeHeaderWritten
  <2>2. refuse = {} /\ disk' = Performed({r}) BY <1>2, <2>1
  <2>3. FinalizingHeader(ctx) /\ ctx.io = {r} BY <2>1, PhaseOf
  <2>4. r.id = ctx.chains BY <2>3 DEF FinalizingHeader
  <2>5. disk'.data = D BY <1>1, <2>1, <2>2, PerformedNoData
  <2> DEFINE u == FreeIo(ctx, r, {})
  <2>6. /\ Good(u) /\ Chained(ctx, u) /\ u.io = {}
        /\ u.recording = ctx.recording /\ u.vol = ctx.vol
        /\ u.segment_start_block = ctx.segment_start_block
        /\ u.segment_id = ctx.segment_id
        /\ u.record_count = ctx.record_count
        /\ u.chains = ctx.chains
    BY <1>1, <2>3, FreeIoAlone DEF FinalizingHeader, Finalizing, Rest
  <2>7. ctx' = FinalizeHeaderDone(u, u.chains, {}) BY <2>1, <2>2, <2>4, <2>6
  <2> HIDE DEF u, D
  <2>8. Finalizing(u)
    BY <2>3, <2>6, RestChained DEF FinalizingHeader, Finalizing, Chained
  <2>9. FinalizingToc(ctx') /\ ctx'.buffers = u.buffers
    BY <2>6, <2>7, <2>8, FinalizeHeaderDoneFinalizes
  <2>10. Tally(u, ctx') BY <2>6, <2>7, FinalizeHeaderDoneTally
  <2>11. Tally(ctx, ctx') BY <2>6, <2>10 DEF Tally, Chained
  <2>12. Datas(ctx) = {} /\ Datas(ctx') = {}
    BY <2>3, <2>9 DEF FinalizingHeader, FinalizingToc, Datas
  <2>13. ctx.recording /\ ctx.stopping /\ ctx'.stopping
         /\ ctx.bdev_io_wait = NoBuf /\ ctx'.bdev_io_wait = NoBuf
    BY <2>3, <2>9 DEF FinalizingHeader, FinalizingToc, Finalizing, Rest
  <2>14. Settled(ctx, D) BY <2>13 DEF Intact, D
  <2>15. ctx'.buffers = ctx.buffers BY <2>6, <2>9 DEF Chained
  <2>16. Settled(ctx', D)
    BY <1>1, <2>11, <2>12, <2>13, <2>14, <2>15, SettledRests
  <2>17. QED BY <2>5, <2>13, <2>16 DEF Intact
<1>12. CASE FinalizeTocWritten
  <2>1. PICK r \in ctx.io, ok \in BOOLEAN, refuse \in SUBSET Refusable :
          /\ Answered(r, ok, refuse) /\ r.op = "finToc"
          /\ ctx' = FinalizeTocDone(FreeIo(ctx, r, refuse))
    BY <1>12 DEF FinalizeTocWritten
  <2>2. refuse = {} BY <1>2, <2>1
  <2>3. FinalizingToc(ctx) /\ ctx.io = {r} BY <2>1, PhaseOf
  <2> DEFINE u == FreeIo(ctx, r, {})
  <2>4. /\ Good(u) /\ Chained(ctx, u) /\ u.io = {}
        /\ u.recording = ctx.recording /\ u.vol = ctx.vol
        /\ u.segment_start_block = ctx.segment_start_block
    BY <1>1, <2>3, FreeIoAlone DEF FinalizingToc, Finalizing, Rest
  <2>5. ctx' = FinalizeTocDone(u) BY <2>1, <2>2
  <2> HIDE DEF u
  <2>6. Finalizing(u)
    BY <2>3, <2>4, RestChained DEF FinalizingToc, Finalizing, Chained
  <2>7. Idle(ctx') BY <2>4, <2>5, <2>6, FinalizeTocDoneEnds
  <2>8. QED BY <1>3, <2>7
<1>13. CASE Crash
  <2>1. ~ctx'.up BY <1>1, <1>13 DEF Crash, Teardown, Context
  <2>2. QED BY <2>1
<1>14. CASE Boot BY <1>14 DEF Boot
<1>15. CASE UNCHANGED vars
  <2>1. ctx' = ctx /\ disk' = disk BY <1>15 DEF vars
  <2>2. QED BY <2>1
<1>16. QED
  BY <1>4, <1>5, <1>6, <1>7, <1>8, <1>9, <1>10, <1>11, <1>12, <1>13, <1>14,
     <1>15 DEF Next

\* What a step may write: nothing, or some of what was asked for.
LEMMA DiskSteps ==
    ASSUME [Next]_vars
    PROVE  disk' = disk \/ \E W \in SUBSET ctx.io : disk' = Performed(W)
  BY DEF Next, vars, Packet, RecordingStart, RecordingStop, Shutdown,
    DataWritten, ClaimTocWritten, ClaimHeaderWritten, FinalizeHeaderWritten,
    FinalizeTocWritten, Answered, Crash, Boot

\* A stored segment does not depend on what lies behind it.
LEMMA StoredRests ==
    ASSUME NEW data, NEW new, NEW g, NEW e \in Entry, Stored(data, g, e),
           \A b \in 0 .. NumBlocks - 1 : b < End(e) => new[b] = data[b]
    PROVE  Stored(new, g, e)
<1>1. PICK L \in Nat, z \in Nat :
        /\ Chain(data, g, e.start_block, L, z)
        /\ Ends(L, z, End(e), e.record_count)
  BY DEF Stored
<1>2. e.start_block \in Nat /\ End(e) \in Int /\ NumBlocks \in Nat
  BY RecorderAssumption DEF Entry, End
<1>3. L <= NumBlocks /\ L <= End(e) BY <1>1 DEF Chain, Ends
<1>4. \A b \in e.start_block .. L - 1 : new[b] = data[b]
  <2>1. ASSUME NEW b \in e.start_block .. L - 1
        PROVE  b \in 0 .. NumBlocks - 1 /\ b < End(e)
    BY <1>2, <1>3
  <2>2. QED BY <2>1
<1>5. Chain(new, g, e.start_block, L, z) BY <1>1, <1>2, <1>4, ChainRests
<1>6. QED BY <1>1, <1>5 DEF Stored

\* No step changes a block of a finalized segment.
LEMMA OldBlocksRest ==
    ASSUME Ample, IInv, Session, Apart, [Next]_vars,
           NEW g \in Finalized(disk), NEW b \in 0 .. NumBlocks - 1,
           b < End(disk.toc[g])
    PROVE  disk'.data[b] = disk.data[b]
<1>1. SUFFICES ASSUME NEW W \in SUBSET ctx.io, disk' = Performed(W),
                      disk' # disk
               PROVE  disk'.data[b] = disk.data[b]
  BY DiskSteps
<1>2. ctx.up
  <2>1. SUFFICES ASSUME ~ctx.up PROVE FALSE OBVIOUS
  <2>2. Boot \/ UNCHANGED vars BY <2>1, DownSteps
  <2>3. QED BY <1>1, <2>2 DEF Boot, vars
<1>3. Line(ctx) BY <1>2 DEF Session
<1>4. \A r \in W : r.op = "data" => r.at # b
  <2>1. SUFFICES ASSUME NEW r \in W, r.op = "data" PROVE r.at # b
    OBVIOUS
  <2>2. Writing(ctx, 0) BY <1>3, <2>1, PhaseOf
  <2>3. ctx.segment_start_block <= r.at BY <2>2 DEF Writing, Charted, Inside
  <2>4. End(disk.toc[g]) <= ctx.segment_start_block
    BY <1>2, <2>2 DEF Apart, Below, Writing
  <2>5. /\ ctx.segment_start_block \in Nat /\ End(disk.toc[g]) \in Int
    BY BlockTypes DEF Finalized
  <2>6. r.at \in Nat BY DEF IInv, TypeOK, Context, Request
  <2>7. QED BY <2>3, <2>4, <2>5, <2>6
<1>5. QED BY <1>1, <1>4, PerformedElsewhere

\* What a finalize chain enters in the TOC is on the device.
LEMMA NewStored ==
    ASSUME Ample, IInv, ctx.up, FinalizingToc(ctx), Intact(ctx, disk.data)
    PROVE  Stored(disk.data, ctx.segment_id, FinalizedEntry(ctx))
<1> DEFINE e == FinalizedEntry(ctx)
<1>1. ctx.recording /\ ctx.stopping BY DEF FinalizingToc, Finalizing
<1>2. PICK img, L, z : Laid(ctx, disk.data, img, L, z) /\ Closed(ctx, L, z)
  BY <1>1 DEF Intact, Settled
<1>3. Datas(ctx) = {} BY DEF FinalizingToc, Datas
<1>4. \A b \in 0 .. NumBlocks - 1 : disk.data[b] = img[b]
  BY <1>2, <1>3 DEF Laid, Shows
<1>5. /\ ctx.segment_start_block \in Nat /\ ctx.next_write_block \in Nat
      /\ L \in Nat /\ z \in Nat
  BY <1>2, BlockTypes DEF Laid
<1>6. Chain(img, ctx.segment_id, ctx.segment_start_block, L, z)
  BY <1>2 DEF Laid
<1>7. \A b \in ctx.segment_start_block .. L - 1 : disk.data[b] = img[b]
  <2>1. L <= NumBlocks BY <1>6 DEF Chain
  <2>2. ctx.segment_start_block .. L - 1 \subseteq 0 .. NumBlocks - 1
    BY <1>5, <2>1, AmpleSizes
  <2>3. QED BY <1>4, <2>2
<1>8. Chain(disk.data, ctx.segment_id, ctx.segment_start_block, L, z)
  BY <1>5, <1>6, <1>7, ChainRests
<1>9. /\ e.start_block = ctx.segment_start_block
      /\ e.block_count = ctx.next_write_block - ctx.segment_start_block
      /\ e.record_count = ctx.record_count
  BY DEF FinalizedEntry
<1> HIDE DEF e
<1>10. End(e) = ctx.next_write_block BY <1>5, <1>9 DEF End
<1>11. Ends(L, z, End(e), e.record_count) BY <1>2, <1>9, <1>10 DEF Closed
<1>12. QED BY <1>5, <1>8, <1>9, <1>11 DEF Stored, e

\* The data blocks while the TOC entry of a finalize chain is written.
LEMMA TocWriteKeepsData ==
    ASSUME IInv, FinalizingToc(ctx), [Next]_vars
    PROVE  disk'.data = disk.data
<1>1. disk.data \in Images BY DEF IInv, TypeOK, Images
<1>2. CASE disk' = disk BY <1>2
<1>3. ASSUME NEW W \in SUBSET ctx.io, disk' = Performed(W)
      PROVE  disk'.data = disk.data
  <2>1. \A r \in W : r.op # "data" BY DEF FinalizingToc
  <2>2. QED BY <1>1, <1>3, <2>1, PerformedNoData
<1>4. QED BY <1>2, <1>3, DiskSteps

LEMMA NextReadable ==
    ASSUME Ample, MaxIoErrors = 0, IInv, Session, Apart, Readable,
           [Next]_vars
    PROVE  Readable'
<1>1. disk.toc \in [Slots -> Entry] BY DEF IInv, TypeOK
<1>2. ASSUME NEW g \in Finalized(disk), disk'.toc[g] = disk.toc[g]
      PROVE  Stored(disk'.data, g, disk'.toc[g])
  <2>1. disk.toc[g] \in Entry BY <1>1 DEF Finalized
  <2>2. Stored(disk.data, g, disk.toc[g]) BY DEF Readable
  <2>3. \A b \in 0 .. NumBlocks - 1 :
           b < End(disk.toc[g]) => disk'.data[b] = disk.data[b]
    BY OldBlocksRest
  <2>4. QED BY <1>2, <2>1, <2>2, <2>3, StoredRests
<1>3. CASE ctx.up
  <2>1. Line(ctx) /\ Intact(ctx, disk.data) BY <1>3 DEF Session, Readable
  <2>2. Wrote BY <1>3, <2>1, NextLeads
  <2>3. ASSUME NEW g \in Finalized(disk')
        PROVE  Stored(disk'.data, g, disk'.toc[g])
    <3>1. CASE g \in Finalized(disk) /\ disk'.toc[g] = disk.toc[g]
      BY <1>2, <3>1
    <3>2. CASE /\ FinalizingToc(ctx) /\ g = ctx.segment_id
               /\ disk'.toc[g] = FinalizedEntry(ctx)
      BY <1>3, <2>1, <3>2, NewStored, TocWriteKeepsData
    <3>3. QED BY <2>2, <3>1, <3>2 DEF Wrote
  <2>4. ctx'.up => Intact(ctx', disk'.data) BY <1>3, <2>1, NextIntact
  <2>5. QED BY <2>3, <2>4 DEF Readable
<1>4. CASE ~ctx.up
  <2>1. CASE Boot
    <3>1. Idle(ctx') /\ UNCHANGED disk BY <2>1, BootStarts
    <3>2. Intact(ctx', disk'.data) BY <3>1 DEF Idle, Intact
    <3>3. Finalized(disk') = Finalized(disk) BY <3>1
    <3>4. QED BY <1>2, <3>1, <3>2, <3>3 DEF Readable
  <2>2. CASE UNCHANGED vars
    <3>1. ctx' = ctx /\ disk' = disk BY <2>2 DEF vars
    <3>2. QED BY <3>1 DEF Readable
  <2>3. QED BY <1>4, <2>1, <2>2, DownSteps
<1>5. QED BY <1>3, <1>4

LEMMA InitReadable == ASSUME Ample PROVE Init => Readable
<1> SUFFICES ASSUME Init PROVE Readable OBVIOUS
<1>1. FormattedHeader \in Header
  BY DEF FormattedHeader, DataStart, Header
<1>2. Idle(ctx) BY <1>1, FreshIdles DEF Init
<1>3. Finalized(disk) = {}
  BY DEF Init, Finalized, FreeEntry, EmptyEntry
<1>4. QED BY <1>2, <1>3 DEF Readable, Intact, Idle

Steadfast == IInv /\ Session /\ Apart /\ Readable

LEMMA ReadableAlways ==
    ASSUME Ample, MaxIoErrors = 0 PROVE Spec => []Steadfast
<1>1. Calm BY DEF Calm
<1>2. Init => Steadfast
  BY InitIInv, InitSession, InitApart, InitReadable DEF Steadfast
<1>3. Steadfast /\ [Next]_vars => Steadfast'
  <2>1. ASSUME Steadfast, [Next]_vars PROVE Steadfast'
    <3>1. IInv /\ Session /\ Apart /\ Readable BY <2>1 DEF Steadfast
    <3>2. IInv' BY <2>1, <3>1, NextIInv
    <3>3. Session' BY <2>1, <3>1, NextSession
    <3>4. Apart' BY <1>1, <2>1, <3>1, NextApart
    <3>5. Readable' BY <2>1, <3>1, NextReadable
    <3>6. QED BY <3>2, <3>3, <3>4, <3>5 DEF Steadfast
  <2>2. QED BY <2>1
<1>4. QED BY <1>2, <1>3, PTL DEF Spec

\* Where no write fails and none is refused, a finalized segment reads back as
\* its own records, each once and in order from the first, whatever packets,
\* stops, crashes and restarts there were; and record_count is the number of
\* them, unless the segment fills the device, where no more than one buffer of
\* records is missing.
THEOREM FinalizedReadsBack ==
    ASSUME Ample, MaxIoErrors = 0
    PROVE  Spec => []FinalizedIsAuthoritative
<1>1. ASSUME Steadfast PROVE FinalizedIsAuthoritative
  <2>1. /\ disk.data \in Images /\ disk.toc \in [Slots -> Entry]
        /\ Readable
    BY <1>1 DEF Steadfast, IInv, TypeOK, Images
  <2>2. SUFFICES ASSUME NEW g \in Finalized(disk)
        PROVE  LET e    == disk.toc[g]
                   recs == Dump(disk, e)
                   lost == e.record_count - Len(recs)
               IN  /\ \A k \in DOMAIN recs :
                         recs[k].seg = g /\ recs[k].seq = k - 1
                   /\ lost # 0 =>
                         /\ e.start_block + e.block_count = NumBlocks
                         /\ lost <= BufSize
    BY DEF FinalizedIsAuthoritative
  <2> DEFINE e == disk.toc[g]
             recs == Dump(disk, e)
             n == e.record_count
  <2>3. e \in Entry /\ n \in Nat BY <2>1 DEF Finalized, Entry
  <2>4. PICK L \in Nat, z \in Nat :
          Chain(disk.data, g, e.start_block, L, z) /\ Ends(L, z, End(e), n)
    BY <2>1 DEF Readable, Stored
  <2> HIDE DEF e
  <2>5. PICK P : Runs(P, g, 0, z) /\ Dump(disk, e) = P
    BY <2>1, <2>3, <2>4, DumpReads
  <2> HIDE DEF recs, n
  <2>6. Runs(recs, g, 0, z) BY <2>5 DEF recs
  <2>7. \A k \in DOMAIN recs : recs[k].seg = g /\ recs[k].seq = k - 1
    BY <2>6 DEF Runs
  <2>8. Len(recs) = z BY <2>4, <2>6 DEF Runs
  <2>9. n - Len(recs) # 0 =>
          /\ e.start_block + e.block_count = NumBlocks
          /\ n - Len(recs) <= BufSize
    BY <2>3, <2>4, <2>8 DEF Ends, End
  <2>10. QED BY <2>7, <2>9 DEF e, recs, n
<1>2. Steadfast => FinalizedIsAuthoritative BY <1>1
<1>3. QED BY <1>2, ReadableAlways, PTL

-----------------------------------------------------------------------------
(* The slots *)

\* The next slot to claim, as the device has it.
NextSlot(d) == d.hdr.next_segment_id

\* Slots are claimed in order; a crash may leave the next one claimed and the
\* header behind it.
Ordered(d) == \A g \in Slots :
    /\ g < NextSlot(d) => d.toc[g].state # "FREE"
    /\ g = NextSlot(d) => d.toc[g].state # "FINALIZED"
    /\ g > NextSlot(d) => d.toc[g].state = "FREE"

\* The claim of s has its TOC entry, or its header, at the device.
Entering(s) == \E r \in s.io : r.op = "claimToc"
Naming(s) == \E r \in s.io : r.op = "claimHdr"

\* The segment of s is the open one of slot g, and the newest.
Opens(s, d, g) ==
    /\ s.segment_id = g /\ g \in Slots /\ d.toc[g].state = "OPEN"
    /\ g + 1 \in Slots => d.toc[g + 1].state = "FREE"

\* What the process has in memory of the slots.
Tracks(s, d) ==
    LET n == NextSlot(d)
    IN  /\ s.vol.next_segment_id = IF Naming(s) THEN n + 1 ELSE n
        /\ Entering(s) => s.segment_id = n /\ n \in Slots
        /\ Naming(s) => Opens(s, d, n)
        /\ s.recording => Opens(s, d, n - 1)

InOrder == Ordered(disk) /\ (ctx.up => Tracks(ctx, disk))

\* The four things a step may do to the header and the TOC.
Leaves(d) == d.toc = disk.toc /\ NextSlot(d) = NextSlot(disk)

OnlySlot(d, g) ==
    /\ g \in Slots
    /\ \A h \in Slots \ {g} : d.toc[h] = disk.toc[h]
    /\ NextSlot(d) = NextSlot(disk)

Enters(d) ==
    OnlySlot(d, NextSlot(disk)) /\ d.toc[NextSlot(disk)].state = "OPEN"

Names(d) ==
    /\ d.toc = disk.toc /\ NextSlot(d) = NextSlot(disk) + 1
    /\ NextSlot(disk) \in Slots
    /\ disk.toc[NextSlot(disk)].state = "OPEN"

Closes(d) ==
    LET g == NextSlot(disk) - 1
    IN  /\ OnlySlot(d, g) /\ FinalizingToc(ctx) /\ ctx.segment_id = g
        /\ disk.toc[g].state = "OPEN" /\ d.toc[g] = FinalizedEntry(ctx)
        /\ NextSlot(disk) \in Slots => disk.toc[NextSlot(disk)].state = "FREE"

LEMMA SlotTypes ==
    ASSUME IInv
    PROVE  /\ NextSlot(disk) \in Nat /\ ctx.segment_id \in Nat
           /\ Slots \subseteq Nat
           /\ disk.toc \in [Slots -> Entry]
           /\ ctx.vol.next_segment_id \in Nat
<1>1. ctx \in Context /\ disk.hdr \in Header /\ disk.toc \in [Slots -> Entry]
  BY DEF IInv, TypeOK
<1>2. ctx.segment_id \in Nat /\ ctx.vol \in Header BY <1>1 DEF Context
<1>3. Slots \subseteq Nat BY RecorderAssumption DEF Slots
<1>4. QED BY <1>1, <1>2, <1>3 DEF Header, NextSlot

\* The device after it has performed some of what it was asked.
LEMMA PerformedMoves ==
    ASSUME IInv, Line(ctx), Tracks(ctx, disk), NEW W \in SUBSET ctx.io
    PROVE  LET d == Performed(W)
           IN  /\ (\A r \in W : r.op \in {"data", "finHdr"}) => Leaves(d)
               /\ (\E r \in W : r.op = "claimToc") => Enters(d)
               /\ (\E r \in W : r.op = "claimHdr") => Names(d)
               /\ (\E r \in W : r.op = "finToc") => Closes(d)
<1> DEFINE d == Performed(W)
           n == NextSlot(disk)
<1>1. /\ n \in Nat /\ Slots \subseteq Nat /\ disk.toc \in [Slots -> Entry]
      /\ ctx.segment_id \in Nat
  BY SlotTypes
<1>2. NextSlot(d) = IF \E r \in W : r.op \in {"claimHdr", "finHdr"}
                    THEN ctx.vol_buf.next_segment_id ELSE n
  BY DEF Performed, NextSlot
<1>3. d.toc = [g \in Slots |->
                 IF \E r \in W : r.op \in {"claimToc", "finToc"} /\ r.at = g
                 THEN ctx.io_buf ELSE disk.toc[g]]
  BY DEF Performed
<1> HIDE DEF d
<1>4. ASSUME \A r \in W : r.op \notin {"claimToc", "finToc"}
      PROVE  d.toc = disk.toc
  BY <1>1, <1>3, <1>4
<1>5. ASSUME NEW r \in ctx.io, W = {r}, r.op \in {"claimToc", "finToc"},
             r.at \in Slots
      PROVE  OnlySlot(d, r.at) /\ d.toc[r.at] = ctx.io_buf
  <2>1. NextSlot(d) = n BY <1>2, <1>5
  <2>2. \A h \in Slots \ {r.at} : d.toc[h] = disk.toc[h] BY <1>3, <1>5
  <2>3. d.toc[r.at] = ctx.io_buf BY <1>3, <1>5
  <2>4. QED BY <1>5, <2>1, <2>2, <2>3 DEF OnlySlot
<1>6. ASSUME \A r \in W : r.op \in {"data", "finHdr"} PROVE Leaves(d)
  <2>1. d.toc = disk.toc BY <1>4, <1>6
  <2>2. CASE \E r \in W : r.op = "finHdr"
    <3>1. FinalizingHeader(ctx) BY <2>2, PhaseOf
    <3>2. ctx.vol_buf = ctx.vol /\ ~Naming(ctx)
      BY <3>1 DEF FinalizingHeader, Naming
    <3>3. ctx.vol.next_segment_id = n BY <3>2 DEF Tracks
    <3>4. QED BY <1>2, <2>1, <2>2, <3>2, <3>3 DEF Leaves
  <2>3. CASE ~\E r \in W : r.op = "finHdr"
    <3>1. NextSlot(d) = n BY <1>2, <1>6, <2>3
    <3>2. QED BY <2>1, <3>1 DEF Leaves
  <2>4. QED BY <2>2, <2>3
<1>7. ASSUME NEW r \in W, r.op = "claimToc" PROVE Enters(d)
  <2>1. Claiming(ctx) /\ ctx.io = {r} BY <1>7, PhaseOf
  <2>2. r.at = ctx.segment_id /\ ctx.io_buf.state = "OPEN"
    BY <1>7, <2>1 DEF Claiming, EmptyEntry
  <2>3. ctx.segment_id = n /\ n \in Slots BY <1>7 DEF Tracks, Entering
  <2>4. W = {r} BY <2>1
  <2>5. OnlySlot(d, n) /\ d.toc[n] = ctx.io_buf
    BY <1>5, <1>7, <2>2, <2>3, <2>4
  <2>6. QED BY <2>2, <2>5 DEF Enters
<1>8. ASSUME NEW r \in W, r.op = "claimHdr" PROVE Names(d)
  <2>1. Claiming(ctx) /\ ctx.io = {r} /\ ctx.vol_buf = ctx.vol
    BY <1>8, PhaseOf
  <2>2. Naming(ctx) BY <1>8 DEF Naming
  <2>3. ctx.vol.next_segment_id = n + 1 /\ Opens(ctx, disk, n)
    BY <2>2 DEF Tracks
  <2>4. NextSlot(d) = n + 1 BY <1>2, <1>8, <2>1, <2>3
  <2>5. d.toc = disk.toc BY <1>4, <1>8, <2>1
  <2>6. QED BY <2>3, <2>4, <2>5 DEF Names, Opens
<1>9. ASSUME NEW r \in W, r.op = "finToc" PROVE Closes(d)
  <2>1. FinalizingToc(ctx) /\ ctx.io = {r} BY <1>9, PhaseOf
  <2>2. ctx.recording /\ r.at = ctx.segment_id
        /\ ctx.io_buf = FinalizedEntry(ctx)
    BY <1>9, <2>1 DEF FinalizingToc, Finalizing
  <2>3. Opens(ctx, disk, n - 1) BY <2>2 DEF Tracks
  <2>4. W = {r} BY <2>1
  <2>5. OnlySlot(d, n - 1) /\ d.toc[n - 1] = ctx.io_buf
    BY <1>5, <1>9, <2>2, <2>3, <2>4 DEF Opens
  <2>6. (n - 1) + 1 = n BY <1>1
  <2>7. n \in Slots => disk.toc[n].state = "FREE" BY <2>3, <2>6 DEF Opens
  <2>8. QED BY <2>1, <2>2, <2>3, <2>5, <2>7 DEF Closes, Opens
<1>10. QED BY <1>6, <1>7, <1>8, <1>9 DEF d

\* A step does one of the four.
LEMMA NextMoves ==
    ASSUME IInv, Line(ctx), Tracks(ctx, disk), [Next]_vars
    PROVE  Leaves(disk') \/ Enters(disk') \/ Names(disk') \/ Closes(disk')
<1>1. CASE disk' = disk BY <1>1 DEF Leaves
<1>2. ASSUME NEW W \in SUBSET ctx.io, disk' = Performed(W)
      PROVE  Leaves(disk') \/ Enters(disk') \/ Names(disk') \/ Closes(disk')
  <2>1. \A r \in W :
           r.op \in {"data", "claimToc", "claimHdr", "finHdr", "finToc"}
    BY DEF IInv, TypeOK, Context, Request, Ops
  <2> DEFINE d == Performed(W)
  <2>2. Leaves(d) \/ Enters(d) \/ Names(d) \/ Closes(d)
    BY <2>1, PerformedMoves
  <2> HIDE DEF d
  <2>3. disk' = d BY <1>2 DEF d
  <2>4. QED BY <2>2, <2>3
<1>3. QED BY <1>1, <1>2, DiskSteps

LEMMA MovesOrdered ==
    ASSUME IInv, Ordered(disk), NEW d,
           Leaves(d) \/ Enters(d) \/ Names(d) \/ Closes(d)
    PROVE  Ordered(d)
<1> DEFINE n == NextSlot(disk)
<1>1. n \in Nat /\ Slots \subseteq Nat BY SlotTypes
<1>2. CASE Leaves(d) BY <1>2 DEF Leaves, Ordered
<1>3. CASE Enters(d)
  <2>1. \A g \in Slots : d.toc[g].state =
           IF g = n THEN "OPEN" ELSE disk.toc[g].state
    BY <1>3 DEF Enters, OnlySlot
  <2>2. NextSlot(d) = n BY <1>3 DEF Enters, OnlySlot
  <2> HIDE DEF n
  <2>3. QED BY <1>1, <2>1, <2>2 DEF Ordered, n
<1>4. CASE Names(d)
  <2>1. d.toc = disk.toc /\ NextSlot(d) = n + 1 /\ n \in Slots
        /\ disk.toc[n].state = "OPEN"
    BY <1>4 DEF Names
  <2>2. SUFFICES ASSUME NEW g \in Slots
        PROVE  /\ g < n + 1 => disk.toc[g].state # "FREE"
               /\ g = n + 1 => disk.toc[g].state # "FINALIZED"
               /\ g > n + 1 => disk.toc[g].state = "FREE"
    BY <2>1 DEF Ordered
  <2>3. g \in Nat BY <1>1
  <2>4. /\ g < n => disk.toc[g].state # "FREE"
        /\ g > n => disk.toc[g].state = "FREE"
    BY DEF Ordered
  <2> HIDE DEF n
  <2>5. CASE g < n + 1
    <3>1. g < n \/ g = n BY <1>1, <2>3, <2>5
    <3>2. QED BY <1>1, <2>1, <2>3, <2>4, <2>5, <3>1
  <2>6. CASE ~(g < n + 1)
    <3>1. g > n BY <1>1, <2>3, <2>6
    <3>2. QED BY <2>4, <2>6, <3>1
  <2>7. QED BY <2>5, <2>6
<1>5. CASE Closes(d)
  <2>1. \A g \in Slots : d.toc[g].state =
           IF g = n - 1 THEN "FINALIZED" ELSE disk.toc[g].state
    BY <1>5 DEF Closes, OnlySlot, FinalizedEntry
  <2>2. NextSlot(d) = n BY <1>5 DEF Closes, OnlySlot
  <2> HIDE DEF n
  <2>3. QED BY <1>1, <2>1, <2>2 DEF Ordered, n
<1>6. QED BY <1>2, <1>3, <1>4, <1>5

\* No claim is under way in a recording, and none when the daemon is idle.
LEMMA NoClaim ==
    ASSUME NEW s, Running(s, 0) \/ FinalizingToc(s) \/ Idle(s)
    PROVE  ~Naming(s) /\ ~Entering(s)
  BY DEF Running, Writing, Charted, FinalizingHeader, FinalizingToc, Idle,
    Naming, Entering

\* A step that takes no slot.
LEMMA TracksRests ==
    ASSUME NEW s, Tracks(s, disk), NEW t, Placed(s, t), NEW d, Leaves(d),
           ~Naming(s), ~Naming(t), ~Entering(t), t.recording => s.recording
    PROVE  Tracks(t, d)
  BY DEF Tracks, Placed, Leaves, Opens

LEMMA StopTracks ==
    ASSUME Ample, IInv, Line(ctx), ctx.recording, Tracks(ctx, disk),
           NEW z, Good(z), Same(ctx, z), z.buffers = ctx.buffers,
           Placed(ctx, z)
    PROVE  Tracks(StopRecording(z, {}), disk)
<1> DEFINE t == StopRecording(z, {})
<1>1. Good(ctx) BY DEF IInv, TypeOK, Good
<1>2. Placed(ctx, t)
  <2>1. Placed(z, t) BY StopRecordingKeeps DEF Keeps
  <2>2. QED BY <2>1 DEF Placed
<1>3. ~Naming(ctx) /\ ~Entering(ctx)
  BY PhaseOf DEF Naming, Entering, Claiming
<1>4. ~Naming(t) /\ ~Entering(t)
  <2>1. CASE ctx.stopping
    <3>1. t = z /\ z.io = ctx.io BY <2>1 DEF StopRecording, Same
    <3>2. QED BY <1>3, <3>1 DEF Naming, Entering
  <2>2. CASE ~ctx.stopping
    <3>1. Writing(ctx, 0)
      BY <2>2 DEF Line, Idle, Claiming, Running, FinalizingHeader,
        FinalizingToc, Finalizing
    <3>2. Writing(z, 0) /\ ~z.stopping
      BY <1>1, <2>2, <3>1, SameWrites DEF Same
    <3>3. 0 \in {0, 1} OBVIOUS
    <3>4. Running(t, 0) BY <3>2, <3>3, StopRecordingRuns
    <3>5. QED BY <3>4, NoClaim
  <2>3. QED BY <2>1, <2>2
<1>5. Leaves(disk) BY DEF Leaves
<1>6. QED BY <1>2, <1>3, <1>4, <1>5, TracksRests

LEMMA ClaimSegmentStartTracks ==
    ASSUME Ample, NEW s, Good(s), Idle(s), NEW d, NextSlot(d) \in Nat,
           Tracks(s, d)
    PROVE  Tracks(ClaimSegmentStart(s, {}), d)
<1> DEFINE e == EmptyEntry("OPEN", s.vol.next_data_block)
           g == s.vol.next_segment_id
           t == [s EXCEPT !.segment_id = g,
                          !.segment_start_block = s.vol.next_data_block,
                          !.io_buf = e]
           r == [op |-> "claimToc", id |-> 0, at |-> t.segment_id]
           y == ClaimSegmentStart(s, {})
<1>1. s \in Context /\ s.io = {} /\ ~s.recording /\ ServeMode
  BY DEF Good, Idle, Ample
<1>2. g = NextSlot(d) BY NoClaim DEF Tracks
<1>3. y = IF s.vol.next_segment_id >= SegmentSlots THEN ClaimFailed(s)
          ELSE IF Accepts(t, "toc", {})
          THEN Submitted(t, "claimToc", 0, t.segment_id)
          ELSE ClaimFailed(t)
  BY <1>1 DEF ClaimSegmentStart, Context
<1> HIDE DEF e, y
<1>4. /\ t.segment_id = g /\ t.io = {} /\ ~t.recording /\ t.vol = s.vol
  BY <1>1 DEF Context
<1>6. CASE g >= SegmentSlots
  <2>1. y = [s EXCEPT !.admin_req = "none"] BY <1>1, <1>3, <1>6 DEF ClaimFailed
  <2>2. y.io = {} /\ ~y.recording /\ y.vol = s.vol
    BY <1>1, <2>1 DEF Context
  <2>3. QED BY <1>2, <2>2 DEF Tracks, Naming, Entering, y
<1>7. CASE ~(g >= SegmentSlots)
  <2>1. y = Submitted(t, "claimToc", 0, t.segment_id)
    BY <1>3, <1>4, <1>7, NothingOutstanding
  <2>2. y = [t EXCEPT !.io = t.io \cup {r}] BY <1>1, <2>1 DEF Submitted, Context
  <2>3. /\ y.io = {r} /\ ~y.recording /\ y.vol = s.vol /\ y.segment_id = g
    BY <1>1, <1>4, <2>2 DEF Context
  <2>4. r.op = "claimToc" OBVIOUS
  <2> HIDE DEF r
  <2>5. g \in Slots BY <1>2, <1>7, RecorderAssumption DEF Slots
  <2>6. QED BY <1>2, <2>3, <2>4, <2>5 DEF Tracks, Naming, Entering, y
<1>8. QED BY <1>6, <1>7

\* The TOC entry is written; the next slot is counted up in memory.
LEMMA ClaimTocDoneTracks ==
    ASSUME Ample, NEW s, Good(s), s.io = {}, ~s.recording, NEW d,
           NEW n \in Nat, NextSlot(d) = n, s.vol.next_segment_id = n,
           Opens(s, d, n)
    PROVE  Tracks(ClaimTocDone(s, TRUE, {}), d)
<1> DEFINE v == [s.vol EXCEPT !.next_segment_id = n + 1]
           t == [s EXCEPT !.vol = v, !.vol_buf = v]
           r == [op |-> "claimHdr", id |-> 0, at |-> 0]
           y == ClaimTocDone(s, TRUE, {})
<1>1. s \in Context /\ s.vol \in Header BY DEF Good, Context
<1>2. v.next_segment_id = n + 1 BY <1>1 DEF Header
<1>3. y = IF Accepts(t, "hdr", {}) THEN Submitted(t, "claimHdr", 0, 0)
                                   ELSE ClaimFailed(t)
  BY <1>1 DEF ClaimTocDone, Header
<1> HIDE DEF v, y
<1>4. /\ t.io = {} /\ t.vol = v /\ ~t.recording
      /\ t.segment_id = s.segment_id
  BY <1>1 DEF Context
<1>5. y = [t EXCEPT !.io = t.io \cup {r}]
  <2>1. y = Submitted(t, "claimHdr", 0, 0)
    BY <1>3, <1>4, NothingOutstanding
  <2>2. QED BY <1>1, <2>1 DEF Submitted, Context
<1>6. /\ y.io = {r} /\ y.vol = v /\ ~y.recording
      /\ y.segment_id = s.segment_id
  BY <1>1, <1>4, <1>5 DEF Context
<1>7. r.op = "claimHdr" OBVIOUS
<1> HIDE DEF r
<1>8. Naming(y) /\ ~Entering(y) BY <1>6, <1>7 DEF Naming, Entering
<1>9. QED BY <1>2, <1>6, <1>8 DEF Tracks, Opens, y

LEMMA ClaimHeaderDoneTracks ==
    ASSUME Ample, NEW s, Good(s), s.io = {}, NEW d, NEW n \in Nat,
           NextSlot(d) = n + 1, s.vol.next_segment_id = n + 1, Opens(s, d, n)
    PROVE  Tracks(ClaimHeaderDone(s, TRUE), d)
<1> DEFINE y == ClaimHeaderDone(s, TRUE)
<1>1. s \in Context /\ ServeMode BY DEF Good, Ample
<1>2. y.io = {} /\ y.vol = s.vol /\ y.segment_id = s.segment_id
  BY <1>1 DEF ClaimHeaderDone, Context
<1> HIDE DEF y
<1>3. ~Naming(y) /\ ~Entering(y) BY <1>2 DEF Naming, Entering
<1>4. (n + 1) - 1 = n OBVIOUS
<1>5. Opens(y, d, n) BY <1>2 DEF Opens
<1>6. QED BY <1>2, <1>3, <1>4, <1>5 DEF Tracks, y

\* Every action keeps what the process has in memory of the slots.
LEMMA NextTracks ==
    ASSUME Ample, MaxIoErrors = 0, IInv, ctx.up, Line(ctx), Ordered(disk),
           Tracks(ctx, disk), [Next]_vars, ctx'.up
    PROVE  Tracks(ctx', disk')
<1>1. /\ Good(ctx) /\ ctx \in Context /\ load \in Load
      /\ NextSlot(disk) \in Nat
  BY SlotTypes DEF IInv, TypeOK, Good
<1>2. ASSUME NEW r \in ctx.io, NEW ok \in BOOLEAN, NEW refuse,
             Answered(r, ok, refuse)
      PROVE  ok = TRUE /\ refuse = {} /\ disk' = Performed({r})
             /\ {r} \in SUBSET ctx.io
  <2>1. refuse = {} BY <1>1, <1>2, NoRefusal DEF Answered, Charge
  <2>2. ok
    BY <1>1, <1>2, RecorderAssumption DEF Answered, Charge, Load
  <2>3. QED BY <1>2, <2>1, <2>2 DEF Answered
<1>3. Leaves(disk) BY DEF Leaves
<1>4. CASE Packet
  <2>1. PICK size \in RecSizes, refuse \in SUBSET {"data", "hdr", "toc"} :
          /\ ctx' = CapturePoll(ctx, size, refuse)
          /\ ctx.recording /\ ~ctx.stopping
          /\ refuse # {} => load.refusals < MaxRefusals
          /\ UNCHANGED disk
    BY <1>4, AmpleSizes DEF Packet
  <2>2. size \in Nat /\ refuse = {}
    BY <1>1, <2>1, RecorderAssumption, NoRefusal
  <2>3. Writing(ctx, 0)
    BY <2>1 DEF Line, Idle, Claiming, Running, FinalizingHeader,
      FinalizingToc, Finalizing
  <2>4. Running(ctx', 0) BY <1>1, <2>1, <2>2, <2>3, CapturePollRuns
  <2>5. Placed(ctx, ctx') BY <1>1, <2>1, <2>2, CapturePollFollows
  <2>6. ~Naming(ctx) BY <2>3 DEF Writing, Charted, Naming
  <2>7. ~Naming(ctx') /\ ~Entering(ctx') BY <2>4, NoClaim
  <2>8. QED BY <1>3, <2>1, <2>5, <2>6, <2>7, TracksRests
<1>5. CASE RecordingStart
  <2> DEFINE s == [ctx EXCEPT !.admin_req = "start"]
  <2>1. PICK refuse \in SUBSET {"toc"} :
          /\ Charge(refuse, TRUE) /\ ctx' = ClaimSegmentStart(s, refuse)
          /\ ~ctx.recording /\ ctx.admin_req = "none" /\ UNCHANGED disk
    BY <1>5 DEF RecordingStart
  <2>2. refuse = {} BY <1>1, <2>1, NoRefusal DEF Charge
  <2>3. Idle(ctx)
    BY <2>1 DEF Line, Claiming, Running, Writing, FinalizingHeader,
      FinalizingToc, Finalizing
  <2>4. s \in Context BY <1>1 DEF Context
  <2>5. /\ Same(ctx, s) /\ s.buffers = ctx.buffers
        /\ s.cur_buf = ctx.cur_buf /\ Placed(ctx, s)
    BY <1>1 DEF Context, Same, Placed
  <2> HIDE DEF s
  <2>6. Good(s) /\ Idle(s)
    BY <1>1, <2>3, <2>4, <2>5 DEF Good, Spare, Idle, Rest, Same
  <2>7. ~Naming(ctx) /\ ~Naming(s) /\ ~Entering(s)
    BY <2>3, <2>6, NoClaim
  <2>8. Tracks(s, disk)
    BY <1>3, <2>5, <2>7, TracksRests DEF Same
  <2>9. Tracks(ClaimSegmentStart(s, {}), disk)
    BY <1>1, <2>6, <2>8, ClaimSegmentStartTracks
  <2>10. QED BY <2>1, <2>2, <2>9
<1>6. CASE RecordingStop
  <2> DEFINE z == [ctx EXCEPT !.admin_req = "stop",
                              !.last_stop_reason = "USER"]
  <2>1. PICK refuse \in SUBSET {"data", "hdr", "toc"} :
          /\ Charge(refuse, TRUE) /\ ctx' = StopRecording(z, refuse)
          /\ ctx.recording /\ UNCHANGED disk
    BY <1>6 DEF RecordingStop
  <2>2. refuse = {} BY <1>1, <2>1, NoRefusal DEF Charge
  <2>3. z \in Context BY <1>1 DEF Context
  <2>4. /\ Same(ctx, z) /\ z.buffers = ctx.buffers
        /\ z.cur_buf = ctx.cur_buf /\ Placed(ctx, z)
    BY <1>1 DEF Context, Same, Placed
  <2> HIDE DEF z
  <2>5. Good(z) BY <1>1, <2>3, <2>4 DEF Good, Spare
  <2>6. Tracks(StopRecording(z, {}), disk)
    BY <2>1, <2>4, <2>5, StopTracks
  <2>7. QED BY <2>1, <2>2, <2>6
<1>7. CASE Shutdown
  <2> DEFINE z == [ctx EXCEPT !.shutting_down = TRUE]
  <2>1. PICK refuse \in SUBSET {"data", "hdr", "toc"} :
          /\ Charge(refuse, TRUE) /\ UNCHANGED disk
          /\ ctx' = IF ServeMode /\ ~z.recording THEN Teardown(z)
                    ELSE StopRecording(z, refuse)
    BY <1>7 DEF Shutdown
  <2>2. refuse = {} BY <1>1, <2>1, NoRefusal DEF Charge
  <2>3. z \in Context BY <1>1 DEF Context
  <2>4. /\ Same(ctx, z) /\ z.buffers = ctx.buffers
        /\ z.cur_buf = ctx.cur_buf /\ Placed(ctx, z)
    BY <1>1 DEF Context, Same, Placed
  <2> HIDE DEF z
  <2>5. Good(z) BY <1>1, <2>3, <2>4 DEF Good, Spare
  <2>6. ctx.recording
    <3>1. SUFFICES ASSUME ~ctx.recording PROVE FALSE OBVIOUS
    <3>2. ctx' = Teardown(z) BY <2>1, <2>4, <3>1, AmpleSizes DEF Same
    <3>3. QED BY <2>3, <3>2 DEF Teardown, Context
  <2>7. ctx' = StopRecording(z, {}) BY <2>1, <2>2, <2>4, <2>6 DEF Same
  <2>8. Tracks(StopRecording(z, {}), disk)
    BY <2>4, <2>5, <2>6, StopTracks
  <2>9. QED BY <2>1, <2>7, <2>8
<1>8. CASE DataWritten
  <2>1. PICK r \in ctx.io, ok \in BOOLEAN, refuse \in SUBSET Refusable :
          /\ Answered(r, ok, refuse) /\ r.op = "data"
          /\ ctx' = WriteComplete(ctx, r, ok, refuse)
    BY <1>8 DEF DataWritten
  <2>2. /\ ok = TRUE /\ refuse = {} /\ disk' = Performed({r})
        /\ {r} \in SUBSET ctx.io
    BY <1>2, <2>1
  <2>3. Writing(ctx, 0) BY <2>1, PhaseOf
  <2>4. ctx' = WriteComplete(ctx, r, TRUE, {}) BY <2>1, <2>2
  <2>5. Running(ctx', 0) BY <1>1, <2>3, <2>4, WriteCompleteRuns
  <2>6. r.id \in Buffers BY <1>1, <2>1 DEF Context, Request
  <2>7. Placed(ctx, ctx') BY <1>1, <2>4, <2>6, WriteCompleteKeeps DEF Keeps
  <2>8. Leaves(Performed({r})) BY <2>1, <2>2, PerformedMoves
  <2>9. ctx.recording /\ ~Naming(ctx)
    BY <2>3 DEF Writing, Charted, Naming
  <2>10. ~Naming(ctx') /\ ~Entering(ctx') BY <2>5, NoClaim
  <2>11. Tracks(ctx', Performed({r}))
    BY <2>7, <2>8, <2>9, <2>10, TracksRests
  <2>12. QED BY <2>2, <2>11
<1>9. CASE ClaimTocWritten
  <2>1. PICK r \in ctx.io, ok \in BOOLEAN, refuse \in SUBSET Refusable :
          /\ Answered(r, ok, refuse) /\ r.op = "claimToc"
          /\ ctx' = ClaimTocDone(FreeIo(ctx, r, refuse), ok, refuse)
    BY <1>9 DEF ClaimTocWritten
  <2>2. /\ ok = TRUE /\ refuse = {} /\ disk' = Performed({r})
        /\ {r} \in SUBSET ctx.io
    BY <1>2, <2>1
  <2>3. Claiming(ctx) /\ ctx.io = {r} BY <2>1, PhaseOf
  <2>4. Enters(disk')
    <3>1. Enters(Performed({r})) BY <2>1, <2>2, PerformedMoves
    <3>2. QED BY <2>2, <3>1
  <2> DEFINE u == FreeIo(ctx, r, {})
             n == NextSlot(disk)
  <2>5. /\ Good(u) /\ u.io = {} /\ u.recording = ctx.recording
        /\ u.vol = ctx.vol /\ u.segment_id = ctx.segment_id
    BY <1>1, <2>3, FreeIoAlone DEF Claiming, Rest
  <2>6. ctx' = ClaimTocDone(u, TRUE, {}) BY <2>1, <2>2
  <2> HIDE DEF u
  <2>7. ~ctx.recording /\ ~Naming(ctx) /\ Entering(ctx)
    BY <2>1, <2>3 DEF Claiming, Naming, Entering
  <2>8. ctx.vol.next_segment_id = n /\ ctx.segment_id = n /\ n \in Slots
    BY <2>7 DEF Tracks
  <2>9. NextSlot(disk') = n /\ disk'.toc[n].state = "OPEN"
    BY <2>4 DEF Enters, OnlySlot
  <2>10. Opens(u, disk', n)
    <3>1. SUFFICES ASSUME n + 1 \in Slots PROVE disk'.toc[n + 1].state = "FREE"
      BY <2>5, <2>8, <2>9 DEF Opens
    <3>2. n + 1 > n BY <1>1
    <3>3. disk.toc[n + 1].state = "FREE" BY <3>1, <3>2 DEF Ordered
    <3>4. disk'.toc[n + 1] = disk.toc[n + 1]
      BY <1>1, <2>4, <3>1, <3>2 DEF Enters, OnlySlot
    <3>5. QED BY <3>3, <3>4
  <2>11. n \in Nat BY <1>1
  <2> HIDE DEF n
  <2> DEFINE d == disk'
  <2>12. Tracks(ClaimTocDone(u, TRUE, {}), d)
    PROOF
    <3>1. NextSlot(d) = n /\ Opens(u, d, n) BY <2>9, <2>10
    <3> HIDE DEF d
    <3>2. QED BY <2>5, <2>7, <2>8, <2>11, <3>1, ClaimTocDoneTracks
  <2>13. QED BY <2>6, <2>12
<1>10. CASE ClaimHeaderWritten
  <2>1. PICK r \in ctx.io, ok \in BOOLEAN, refuse \in SUBSET Refusable :
          /\ Answered(r, ok, refuse) /\ r.op = "claimHdr"
          /\ ctx' = ClaimHeaderDone(FreeIo(ctx, r, refuse), ok)
    BY <1>10 DEF ClaimHeaderWritten
  <2>2. /\ ok = TRUE /\ refuse = {} /\ disk' = Performed({r})
        /\ {r} \in SUBSET ctx.io
    BY <1>2, <2>1
  <2>3. Claiming(ctx) /\ ctx.io = {r} BY <2>1, PhaseOf
  <2>4. Names(disk')
    <3>1. Names(Performed({r})) BY <2>1, <2>2, PerformedMoves
    <3>2. QED BY <2>2, <3>1
  <2> DEFINE u == FreeIo(ctx, r, {})
             n == NextSlot(disk)
  <2>5. /\ Good(u) /\ u.io = {} /\ u.vol = ctx.vol
        /\ u.segment_id = ctx.segment_id
    BY <1>1, <2>3, FreeIoAlone DEF Claiming, Rest
  <2>6. ctx' = ClaimHeaderDone(u, TRUE) BY <2>1, <2>2
  <2> HIDE DEF u
  <2>7. Naming(ctx) BY <2>1 DEF Naming
  <2>8. ctx.vol.next_segment_id = n + 1 /\ Opens(ctx, disk, n)
    BY <2>7 DEF Tracks
  <2>9. NextSlot(disk') = n + 1 /\ disk'.toc = disk.toc
    BY <2>4 DEF Names
  <2>10. Opens(u, disk', n) BY <2>5, <2>8, <2>9 DEF Opens
  <2>11. n \in Nat BY <1>1
  <2> HIDE DEF n
  <2> DEFINE d == disk'
  <2>12. Tracks(ClaimHeaderDone(u, TRUE), d)
    PROOF
    <3>1. NextSlot(d) = n + 1 /\ Opens(u, d, n) BY <2>9, <2>10
    <3> HIDE DEF d
    <3>2. QED BY <2>5, <2>8, <2>11, <3>1, ClaimHeaderDoneTracks
  <2>13. QED BY <2>6, <2>12
<1>11. CASE FinalizeHeaderWritten
  <2>1. PICK r \in ctx.io, ok \in BOOLEAN, refuse \in SUBSET Refusable :
          /\ Answered(r, ok, refuse) /\ r.op = "finHdr"
          /\ ctx' = FinalizeHeaderDone(FreeIo(ctx, r, refuse), r.id, refuse)
    BY <1>11 DEF FinalizeHeaderWritten
  <2>2. /\ ok = TRUE /\ refuse = {} /\ disk' = Performed({r})
        /\ {r} \in SUBSET ctx.io
    BY <1>2, <2>1
  <2>3. FinalizingHeader(ctx) /\ ctx.io = {r} BY <2>1, PhaseOf
  <2>4. r.id = ctx.chains /\ ctx.chains \in Nat
    BY <1>1, <2>3 DEF FinalizingHeader, Context
  <2>5. Leaves(Performed({r})) BY <2>1, <2>2, PerformedMoves
  <2> DEFINE u == FreeIo(ctx, r, {})
  <2>6. /\ Good(u) /\ Chained(ctx, u) /\ u.io = {}
        /\ u.recording = ctx.recording /\ u.vol = ctx.vol
        /\ u.segment_id = ctx.segment_id
        /\ u.segment_start_block = ctx.segment_start_block
        /\ u.chains = ctx.chains
    BY <1>1, <2>3, FreeIoAlone DEF FinalizingHeader, Finalizing, Rest
  <2>7. ctx' = FinalizeHeaderDone(u, u.chains, {}) BY <2>1, <2>2, <2>4, <2>6
  <2> HIDE DEF u
  <2>8. Finalizing(u)
    BY <2>3, <2>6, RestChained DEF FinalizingHeader, Finalizing, Chained
  <2>9. FinalizingToc(ctx') BY <2>6, <2>7, <2>8, FinalizeHeaderDoneFinalizes
  <2>10. Placed(u, ctx')
    BY <2>4, <2>6, <2>7, FinalizeHeaderDoneKeeps DEF Keeps
  <2>11. Placed(ctx, ctx') BY <2>6, <2>10 DEF Placed
  <2>12. ctx.recording /\ ~Naming(ctx)
    BY <2>3 DEF FinalizingHeader, Finalizing, Naming
  <2>13. ~Naming(ctx') /\ ~Entering(ctx') BY <2>9, NoClaim
  <2>14. Tracks(ctx', Performed({r}))
    BY <2>5, <2>11, <2>12, <2>13, TracksRests
  <2>15. QED BY <2>2, <2>14
<1>12. CASE FinalizeTocWritten
  <2>1. PICK r \in ctx.io, ok \in BOOLEAN, refuse \in SUBSET Refusable :
          /\ Answered(r, ok, refuse) /\ r.op = "finToc"
          /\ ctx' = FinalizeTocDone(FreeIo(ctx, r, refuse))
    BY <1>12 DEF FinalizeTocWritten
  <2>2. /\ ok = TRUE /\ refuse = {} /\ disk' = Performed({r})
        /\ {r} \in SUBSET ctx.io
    BY <1>2, <2>1
  <2>3. FinalizingToc(ctx) /\ ctx.io = {r} BY <2>1, PhaseOf
  <2>4. Closes(Performed({r})) BY <2>1, <2>2, PerformedMoves
  <2> DEFINE u == FreeIo(ctx, r, {})
  <2>5. /\ Good(u) /\ Chained(ctx, u) /\ u.io = {}
        /\ u.recording = ctx.recording /\ u.vol = ctx.vol
        /\ u.segment_start_block = ctx.segment_start_block
    BY <1>1, <2>3, FreeIoAlone DEF FinalizingToc, Finalizing, Rest
  <2>6. ctx' = FinalizeTocDone(u) BY <2>1, <2>2
  <2> HIDE DEF u
  <2>7. Finalizing(u)
    BY <2>3, <2>5, RestChained DEF FinalizingToc, Finalizing, Chained
  <2>8. Idle(ctx') /\ ctx'.vol = u.vol
    BY <2>5, <2>6, <2>7, FinalizeTocDoneEnds
  <2>9. ~Naming(ctx') /\ ~Entering(ctx') /\ ~ctx'.recording
    BY <2>8, NoClaim DEF Idle
  <2>10. ~Naming(ctx) BY <2>3, NoClaim
  <2>11. NextSlot(disk') = NextSlot(disk)
    BY <2>2, <2>4 DEF Closes, OnlySlot
  <2>12. ctx'.vol = ctx.vol BY <2>5, <2>8
  <2>13. QED BY <2>9, <2>10, <2>11, <2>12 DEF Tracks
<1>13. CASE Crash
  <2>1. ~ctx'.up BY <1>1, <1>13 DEF Crash, Teardown, Context
  <2>2. QED BY <2>1
<1>14. CASE Boot BY <1>14 DEF Boot
<1>15. CASE UNCHANGED vars
  <2>1. ctx' = ctx /\ disk' = disk BY <1>15 DEF vars
  <2>2. QED BY <2>1
<1>16. QED
  BY <1>4, <1>5, <1>6, <1>7, <1>8, <1>9, <1>10, <1>11, <1>12, <1>13, <1>14,
     <1>15 DEF Next

LEMMA NextInOrder ==
    ASSUME Ample, MaxIoErrors = 0, IInv, Session, InOrder, [Next]_vars
    PROVE  InOrder'
<1>1. CASE ctx.up
  <2>1. Line(ctx) /\ Tracks(ctx, disk) /\ Ordered(disk)
    BY <1>1 DEF Session, InOrder
  <2>2. Leaves(disk') \/ Enters(disk') \/ Names(disk') \/ Closes(disk')
    BY <2>1, NextMoves
  <2>3. Ordered(disk') BY <2>1, <2>2, MovesOrdered
  <2>4. ctx'.up => Tracks(ctx', disk') BY <1>1, <2>1, NextTracks
  <2>5. QED BY <2>3, <2>4 DEF InOrder
<1>2. CASE ~ctx.up
  <2>1. CASE Boot
    <3>1. Idle(ctx') /\ ctx'.vol = disk.hdr /\ UNCHANGED disk
      BY <2>1, BootStarts
    <3>2. ~Naming(ctx') /\ ~Entering(ctx') /\ ~ctx'.recording
      BY <3>1, NoClaim DEF Idle
    <3>3. Tracks(ctx', disk') BY <3>1, <3>2 DEF Tracks, NextSlot
    <3>4. QED BY <3>1, <3>3 DEF InOrder
  <2>2. CASE UNCHANGED vars
    <3>1. ctx' = ctx /\ disk' = disk BY <2>2 DEF vars
    <3>2. QED BY <3>1 DEF InOrder
  <2>3. QED BY <1>2, <2>1, <2>2, DownSteps
<1>3. QED BY <1>1, <1>2

LEMMA InitInOrder == ASSUME Ample PROVE Init => InOrder
<1> SUFFICES ASSUME Init PROVE InOrder OBVIOUS
<1>1. FormattedHeader \in Header /\ FormattedHeader.next_segment_id = 0
  BY DEF FormattedHeader, DataStart, Header
<1>2. Idle(ctx) /\ ctx.vol = FormattedHeader
  BY <1>1, FreshIdles DEF Init
<1>3. NextSlot(disk) = 0 BY <1>1 DEF Init, NextSlot
<1>4. ~Naming(ctx) /\ ~Entering(ctx) /\ ~ctx.recording
  BY <1>2, NoClaim DEF Idle
<1>5. Tracks(ctx, disk) BY <1>1, <1>2, <1>3, <1>4 DEF Tracks
<1>6. \A g \in Slots : disk.toc[g].state = "FREE" /\ g \in Nat
  BY RecorderAssumption DEF Init, FreeEntry, EmptyEntry, Slots
<1>7. Ordered(disk) BY <1>3, <1>6 DEF Ordered
<1>8. QED BY <1>5, <1>7 DEF InOrder

-----------------------------------------------------------------------------
(* The recorder implements SegmentStore *)

\* What SegmentStore sees of a device.
State(d) == [g \in Slots |-> d.toc[g].state]
Records(d) == [g \in Slots |-> IF g \in Finalized(d)
                               THEN Dump(d, d.toc[g]) ELSE <<>>]

\* A slot whose entry a step leaves alone looks the same after it.
LEMMA SlotRests ==
    ASSUME Ample, Steadfast, IInv', [Next]_vars, NEW g \in Slots,
           disk'.toc[g] = disk.toc[g]
    PROVE  State(disk')[g] = State(disk)[g]
           /\ Records(disk')[g] = Records(disk)[g]
<1> DEFINE e == disk.toc[g]
           d == disk'
<1>1. IInv /\ Session /\ Apart /\ Readable BY DEF Steadfast
<1>2. State(d)[g] = State(disk)[g] BY DEF State
<1>3. g \in Finalized(d) <=> g \in Finalized(disk) BY DEF Finalized
<1>4. CASE g \notin Finalized(disk) BY <1>2, <1>3, <1>4 DEF Records
<1>5. CASE g \in Finalized(disk)
  <2>1. e \in Entry /\ disk.data \in Images /\ d.data \in Images
    BY <1>1 DEF IInv, TypeOK, Images
  <2>2. PICK L \in Nat, z \in Nat :
          /\ Chain(disk.data, g, e.start_block, L, z)
          /\ Ends(L, z, End(e), e.record_count)
    BY <1>1, <1>5 DEF Readable, Stored
  <2>3. e.start_block \in Nat /\ End(e) \in Int /\ NumBlocks \in Nat
    BY <2>1, RecorderAssumption DEF Entry, End
  <2>4. L <= NumBlocks /\ L <= End(e) BY <2>2 DEF Chain, Ends
  <2>5. \A b \in e.start_block .. L - 1 : d.data[b] = disk.data[b]
    <3>1. SUFFICES ASSUME NEW b \in e.start_block .. L - 1
                   PROVE  d.data[b] = disk.data[b]
      OBVIOUS
    <3>2. b \in 0 .. NumBlocks - 1 /\ b < End(e) BY <2>3, <2>4
    <3>3. QED BY <1>1, <1>5, <3>2, OldBlocksRest
  <2>6. Dump(d, e) = Dump(disk, e)
    <3> DEFINE f == disk
    <3>1. /\ f.data \in Images /\ d.data \in Images /\ e \in Entry
          /\ Chain(f.data, g, e.start_block, L, z)
          /\ Ends(L, z, End(e), e.record_count)
          /\ \A b \in e.start_block .. L - 1 : d.data[b] = f.data[b]
      BY <2>1, <2>2, <2>5
    <3> HIDE DEF d, e, f
    <3>2. \E P : Runs(P, g, 0, z) /\ Dump(f, e) = P /\ Dump(d, e) = P
      BY ONLY SMTT(60), <3>1, DumpReads, L \in Nat, z \in Nat
    <3>3. Dump(d, e) = Dump(f, e) BY ONLY <3>2
    <3>4. QED BY <3>3 DEF f
  <2>7. d.toc[g] = e OBVIOUS
  <2>8. QED BY <1>2, <1>3, <1>5, <2>6, <2>7 DEF Records
<1>6. QED BY <1>4, <1>5

\* Before the next slot all are taken, behind it all are free.
LEMMA OrderedNewest ==
    ASSUME IInv, Ordered(disk), NEW g \in Slots,
           \/ g = NextSlot(disk)
           \/ /\ g = NextSlot(disk) - 1
              /\ NextSlot(disk) \in Slots =>
                    disk.toc[NextSlot(disk)].state = "FREE"
    PROVE  Store!Newest(g)
<1> DEFINE n == NextSlot(disk)
<1>1. n \in Nat /\ Slots = 0 .. SegmentSlots - 1 /\ SegmentSlots \in Nat
      /\ g \in Nat
  BY SlotTypes, RecorderAssumption DEF Slots
<1>2. ASSUME NEW h \in 0 .. g - 1
      PROVE  h \in Slots /\ disk.toc[h].state # "FREE"
  <2>1. h \in Slots /\ h < n BY <1>1
  <2>2. QED BY <2>1 DEF Ordered
<1>3. ASSUME NEW h \in g + 1 .. SegmentSlots - 1
      PROVE  h \in Slots /\ disk.toc[h].state = "FREE"
  <2>1. h \in Slots /\ (h > n \/ (h = n /\ g = n - 1)) BY <1>1
  <2>2. QED BY <2>1 DEF Ordered
<1>4. QED BY <1>2, <1>3 DEF Store!Newest

\* Entering the next slot in the TOC claims it, or claims again one that a
\* crash left open.
LEMMA EntersClaims ==
    ASSUME Ample, Steadfast, IInv', InOrder, [Next]_vars, Enters(disk'),
           NEW n, n = NextSlot(disk)
    PROVE  \/ Store!Claim(n)
           \/ State(disk') = State(disk) /\ Records(disk') = Records(disk)
<1> DEFINE d == disk'
<1>1. IInv /\ Ordered(disk) BY DEF Steadfast, InOrder
<1>2. n \in Slots /\ d.toc[n].state = "OPEN" BY DEF Enters, OnlySlot
<1>3. \A h \in Slots \ {n} : State(d)[h] = State(disk)[h]
                             /\ Records(d)[h] = Records(disk)[h]
  BY SlotRests DEF Enters, OnlySlot
<1>4. disk.toc[n].state \in {"FREE", "OPEN"}
  BY <1>1, <1>2, SlotTypes DEF Ordered, Entry
<1>5. Records(d)[n] = <<>> /\ Records(disk)[n] = <<>>
  BY <1>2, <1>4 DEF Records, Finalized
<1>6. State(d)[n] = "OPEN" /\ State(disk)[n] = disk.toc[n].state
  BY <1>2 DEF State
<1>7. Records(d) = Records(disk)
  <2>1. \A h \in Slots : Records(d)[h] = Records(disk)[h] BY <1>3, <1>5
  <2>2. QED BY <2>1 DEF Records
<1>8. CASE disk.toc[n].state = "OPEN"
  <2>1. \A h \in Slots : State(d)[h] = State(disk)[h]
    BY <1>3, <1>6, <1>8
  <2>2. State(d) = State(disk) BY <2>1 DEF State
  <2>3. QED BY <1>7, <2>2
<1>9. CASE disk.toc[n].state = "FREE"
  <2>1. Store!Newest(n) BY <1>1, <1>2, OrderedNewest
  <2>2. State(d) = [State(disk) EXCEPT ![n] = "OPEN"]
    <3>1. \A h \in Slots : State(d)[h] =
             IF h = n THEN "OPEN" ELSE State(disk)[h]
      BY <1>3, <1>6
    <3>2. QED BY <1>2, <3>1 DEF State
  <2>3. QED BY <1>2, <1>7, <1>9, <2>1, <2>2 DEF Store!Claim, State, Records
<1>10. QED BY <1>4, <1>8, <1>9

\* The TOC entry of a finalize chain finalizes the newest slot, with its own
\* records.
LEMMA ClosesFinalizes ==
    ASSUME Ample, Steadfast, IInv', InOrder, FinalizedIsAuthoritative',
           [Next]_vars, Closes(disk'), NEW g, g = NextSlot(disk) - 1
    PROVE  Store!Finalize(g)
<1> DEFINE d == disk'
<1>1. IInv /\ Ordered(disk) BY DEF Steadfast, InOrder
<1>2. g \in Slots /\ disk.toc[g].state = "OPEN"
      /\ d.toc[g].state = "FINALIZED"
  BY DEF Closes, OnlySlot, FinalizedEntry
<1>3. \A h \in Slots \ {g} : State(d)[h] = State(disk)[h]
                             /\ Records(d)[h] = Records(disk)[h]
  BY SlotRests DEF Closes, OnlySlot
<1>4. Store!Newest(g) BY <1>1, <1>2, OrderedNewest DEF Closes
<1>5. g \in Finalized(d) BY <1>2 DEF Finalized
<1>6. Records(d)[g] = Dump(d, d.toc[g]) BY <1>2, <1>5 DEF Records
<1>7. \A k \in DOMAIN Dump(d, d.toc[g]) :
         /\ Dump(d, d.toc[g])[k].seg = g
         /\ Dump(d, d.toc[g])[k].seq = k - 1
  BY <1>5 DEF FinalizedIsAuthoritative
<1>8. Store!Own(g, Records(d)[g]) BY <1>6, <1>7 DEF Store!Own
<1>9. State(d) = [State(disk) EXCEPT ![g] = "FINALIZED"]
  <2>1. State(d)[g] = "FINALIZED" BY <1>2 DEF State
  <2>2. \A h \in Slots : State(d)[h] =
           IF h = g THEN "FINALIZED" ELSE State(disk)[h]
    BY <1>3, <2>1
  <2>3. QED BY <1>2, <2>2 DEF State
<1>10. Slots = Store!Slots BY DEF Slots, Store!Slots
<1>11. QED
  BY <1>2, <1>3, <1>4, <1>8, <1>9, <1>10 DEF Store!Finalize, State, Records

LEMMA NextStore ==
    ASSUME Ample, Steadfast, IInv', InOrder, FinalizedIsAuthoritative',
           [Next]_vars
    PROVE  \/ Store!Next
           \/ State(disk') = State(disk) /\ Records(disk') = Records(disk)
<1>1. IInv /\ Session /\ Ordered(disk) BY DEF Steadfast, InOrder
<1>2. NextSlot(disk) \in Nat BY <1>1, SlotTypes
<1>3. ASSUME disk'.toc = disk.toc
      PROVE  State(disk') = State(disk) /\ Records(disk') = Records(disk)
  <2>1. \A g \in Slots : State(disk')[g] = State(disk)[g]
                         /\ Records(disk')[g] = Records(disk)[g]
    BY <1>3, SlotRests
  <2>2. QED BY <2>1 DEF State, Records
<1>4. Leaves(disk') \/ Enters(disk') \/ Names(disk') \/ Closes(disk')
  <2>1. CASE ctx.up
    BY <1>1, <2>1, NextMoves DEF Session, InOrder
  <2>2. CASE ~ctx.up
    <3>1. Boot \/ UNCHANGED vars BY <2>2, DownSteps
    <3>2. disk' = disk BY <3>1 DEF Boot, vars
    <3>3. QED BY <3>2 DEF Leaves
  <2>3. QED BY <2>1, <2>2
<1>5. Slots = Store!Slots BY DEF Slots, Store!Slots
<1>6. CASE Leaves(disk') BY <1>3, <1>6 DEF Leaves
<1>7. CASE Names(disk') BY <1>3, <1>7 DEF Names
<1>8. CASE Enters(disk')
  <2>1. PICK n \in Store!Slots : n = NextSlot(disk)
    BY <1>5, <1>8 DEF Enters, OnlySlot
  <2>2. \/ Store!Claim(n)
        \/ State(disk') = State(disk) /\ Records(disk') = Records(disk)
    BY <1>8, <2>1, EntersClaims
  <2>3. QED BY <2>1, <2>2 DEF Store!Next
<1>9. CASE Closes(disk')
  <2>1. PICK g \in Store!Slots : g = NextSlot(disk) - 1
    BY <1>5, <1>9 DEF Closes, OnlySlot
  <2>2. Store!Finalize(g) BY <1>9, <2>1, ClosesFinalizes
  <2>3. QED BY <2>1, <2>2 DEF Store!Next
<1>10. QED BY <1>4, <1>6, <1>7, <1>8, <1>9

\* Where no write fails and none is refused, the device goes only through the
\* states of SegmentStore, whatever packets, stops, crashes and restarts there
\* are: slots are claimed in order, only the newest is finalized, with its own
\* records, and what is finalized never changes.
THEOREM StoreImplemented ==
    ASSUME Ample, MaxIoErrors = 0
    PROVE  Spec => ImplementsStore
<1>1. Init => Store!Init
  <2>1. SUFFICES ASSUME Init PROVE Store!Init OBVIOUS
  <2>2. \A g \in Slots : disk.toc[g].state = "FREE"
    BY <2>1 DEF Init, FreeEntry, EmptyEntry
  <2>3. Finalized(disk) = {} BY <2>2 DEF Finalized
  <2>4. QED BY <2>2, <2>3 DEF Store!Init, Slots, Store!Slots
<1>2. Steadfast /\ InOrder /\ [Next]_vars => InOrder'
  BY NextInOrder DEF Steadfast
<1>3. Spec => []InOrder
  BY <1>2, InitInOrder, ReadableAlways, PTL DEF Spec
<1>4. Steadfast => IInv BY DEF Steadfast
<1>5. /\ Steadfast /\ IInv' /\ InOrder /\ FinalizedIsAuthoritative'
      /\ [Next]_vars
      => [Store!Next]_<<State(disk), Records(disk)>>
  BY NextStore
<1>6. State(disk) = [g \in Slots |-> disk.toc[g].state]
      /\ Records(disk) = [g \in Slots |-> IF g \in Finalized(disk)
                                       THEN Dump(disk, disk.toc[g]) ELSE <<>>]
  BY DEF State, Records
<1>7. QED
  BY <1>1, <1>3, <1>4, <1>5, ReadableAlways, FinalizedReadsBack, PTL
  DEF ImplementsStore, Store!Spec, Spec, State, Records
==============================================================================
