------------------------- MODULE VolumeData_proofs --------------------------
(***************************************************************************)
(* What the readers of a volume show: every record of a finalized segment, *)
(* once and in order, by the dump and by the pages, for every chunk size,  *)
(* record length and device, across formats, repairs, failures and deaths. *)
(*                                                                         *)
(* To the invariant of Volume_proofs this adds what the data blocks hold:  *)
(* chunk after chunk of records below every finalized entry (Preserved)    *)
(* and below the segment being recorded (Filling), and which of them a     *)
(* reader has shown when it asks for its next chunk (Tracking).            *)
(***************************************************************************)
EXTENDS Volume_proofs

-----------------------------------------------------------------------------
(* The invariant over the data *)

Owner(era, seg) == [era |-> era, seg |-> seg]
Owners == [era : Nat, seg : Nat]
OwnerOf(e) == Owner(e.era, e.segment_id)

\* Record n of o.
Numbered(o, n) == [era |-> o.era, seg |-> o.seg, seq |-> n, len |-> RecLen]

\* Records a .. z - 1 of o.
Run(o, a, z) == [k \in 1 .. z - a |-> Numbered(o, a + k - 1)]

\* The chunk at block b holds records a .. z - 1 of o, then padding.
Holds(data, b, size, o, a, z) ==
    /\ a < z /\ (z - a) * RecLen <= size /\ b + size <= NumBlocks
    /\ \A i \in 0 .. z - a - 1 : data[b + i * RecLen] = Numbered(o, a + i)
    /\ (z - a) * RecLen < size => data[b + (z - a) * RecLen].len = 0

\* Chunk after chunk from block b to block L, at the blocks K: first says with
\* which record each begins.
Chunked(data, o, b, L, size, K, first) ==
    /\ K \subseteq b .. L /\ b \in K /\ L \in K
    /\ first \in [K -> Nat] /\ first[b] = 0
    /\ \A k \in K : k # L => /\ k + size \in K
                             /\ Holds(data, k, size, o, first[k], first[k + size])

\* The records after the n-th are dropped, on a device too full for them.
Short(L, size, n, count) ==
    n # count => n < count /\ L + size > NumBlocks /\ count - n <= size \div RecLen

\* The segment of entry e, as a reader needs it.
Row(data, e, K, first) ==
    /\ Chunked(data, OwnerOf(e), e.start_block, End(e), e.laid, K, first)
    /\ Short(End(e), e.laid, first[End(e)], e.record_count)
Complete(data, e) == e.laid > 0 /\ \E K, first : Row(data, e, K, first)

\* What a device holds for its readers.
Branded(d) == \A g \in Slots : d.toc[g].state = "FINALIZED" => d.toc[g].magic
Preserved(d, l) ==
    Accepted(d.hdr) /\ ~l.header_lost =>
       \A g \in Slots : Fin(d, g) => Complete(d.data, d.toc[g])

\* What is recorded so far is on the device, until a stop drops the last of it.
Filling(s, d) ==
    s.up /\ s.recording =>
       \E K, first :
          /\ Chunked(d.data, Owner(s.vol.era, s.segment_id),
                     s.segment_start_block, s.next_write_block, s.buf_size, K,
                     first)
          /\ Short(s.next_write_block, s.buf_size, first[s.next_write_block],
                   s.record_count)
          /\ ~s.stopping => first[s.next_write_block] = s.record_count

RightFor(s, e) == e.laid = IF e.chunk # 0 THEN e.chunk ELSE s.buf_size

\* A reader's cursor stands before a chunk of e, having shown what comes before.
Stands(c, e, data) ==
    /\ c.chunk = e.laid /\ c.target_count = e.record_count
    /\ c.records_seen < c.target_count
    /\ c.shown = Run(OwnerOf(e), c.req_offset, c.records_seen)
    /\ \E K, first : /\ Row(data, e, K, first) /\ c.cur_block \in K
                     /\ first[c.cur_block] = c.records_seen

\* The page is not full yet.
Roomy(c) == c.req_offset < c.target_count /\ Len(c.shown) < c.req_limit

Tracked(s, d, l, op) ==
    /\ \E g \in Slots : Fin(d, g) /\ s.target = d.toc[g]
    /\ RightFor(s, s.target) /\ ~l.header_lost =>
          /\ Stands(s.cursor, s.target, d.data)
          /\ op = "page" => Roomy(s.cursor)
    /\ op = "chunk" => s.cursor.req_offset = 0

Tracking(s, d, l) ==
    \A r \in s.io :
       /\ r.op \in {"header", "entry"} => s.target.state # "FINALIZED"
       /\ r.op = "pageEntry" => s.cursor.req_limit > 0
       /\ r.op \in {"chunk", "page"} => Tracked(s, d, l, r.op)

\* What a dump that has ended, and a page that has been answered, owe.
Dumped(s, l) ==
    LET e     == s.target
        count == Len(s.cursor.shown)
    IN  ~s.up /\ s.mode = "dump" /\ s.rc # "none" /\ ~s.faulted
          /\ e.state = "FINALIZED" /\ RightFor(s, e) /\ ~l.header_lost
        => /\ s.cursor.shown = Run(OwnerOf(e), 0, count)
           /\ (s.rc = "ok") = (count = e.record_count)
           /\ s.rc # "ok" => /\ EndsFull(e)
                             /\ e.record_count - count <= e.laid \div RecLen
Paged(s, l) ==
    LET last == Min({s.cursor.req_offset + s.cursor.req_limit,
                     s.target.record_count})
    IN  s.said = "page" /\ s.rc = "ok" /\ RightFor(s, s.target)
          /\ ~l.header_lost
        => /\ s.cursor.shown = Run(OwnerOf(s.target), s.cursor.req_offset, last)
           /\ s.cursor.has_more = (last < s.target.record_count)

Deep(s, d, l) ==
    Filling(s, d) /\ Tracking(s, d, l) /\ Dumped(s, l) /\ Paged(s, l)
Stocked(d, l) == Branded(d) /\ Preserved(d, l)
DataInv == VolumeInv /\ Stocked(disk, load) /\ Deep(p, disk, load)

-----------------------------------------------------------------------------
(* Runs of records *)

LEMMA NumberedTyped ==
    ASSUME NEW o \in Owners, NEW n \in Nat
    PROVE  Numbered(o, n) \in Cell /\ Numbered(o, n).len = RecLen
<1>1. o.era \in Nat /\ o.seg \in Nat BY DEF Owners
<1>2. RecLen \in Nat BY Geometry
<1>3. QED BY <1>1, <1>2 DEF Numbered, Cell

LEMMA RunTyped ==
    ASSUME NEW o \in Owners, NEW a \in Nat, NEW z \in Nat
    PROVE  /\ Run(o, a, z) \in Seq(Cell)
           /\ Len(Run(o, a, z)) = IF a <= z THEN z - a ELSE 0
           /\ z <= a => Run(o, a, z) = <<>>
<1> DEFINE n == IF a <= z THEN z - a ELSE 0
           f(k) == Numbered(o, a + k - 1)
           R == [k \in 1 .. n |-> f(k)]
<1>1. n \in Nat /\ 1 .. z - a = 1 .. n
  <2>1. CASE a <= z BY <2>1
  <2>2. CASE ~(a <= z)
    <3>1. n = 0 BY <2>2
    <3>2. \A k \in Int : ~(1 <= k /\ k <= z - a) BY <2>2
    <3>3. 1 .. z - a = {} BY <3>2
    <3>4. 1 .. 0 = {} OBVIOUS
    <3>5. QED BY <3>1, <3>3, <3>4
  <2>3. QED BY <2>1, <2>2
<1>2. Run(o, a, z) = R BY <1>1 DEF Run
<1>0. z <= a => n = 0 OBVIOUS
<1>7. n = IF a <= z THEN z - a ELSE 0 OBVIOUS
<1>3. \A k \in 1 .. n : f(k) \in Cell
  <2> TAKE k \in 1 .. n
  <2>1. a + k - 1 \in Nat BY <1>1
  <2>2. QED BY <2>1, NumberedTyped
<1> HIDE DEF n, f
<1>4. R \in Seq(Cell) /\ Len(R) = n
  <2>1. R \in [1 .. n -> Cell] BY <1>3
  <2>2. R \in Seq(Cell) BY <1>1, <2>1, SeqDef
  <2>3. Len(R) = n
    <3>1. DOMAIN R = 1 .. n OBVIOUS
    <3>2. QED BY <1>1, <2>2, <3>1, LenProperties
  <2>4. QED BY <2>2, <2>3
<1>5. n = 0 => R = <<>>
  <2>1. n = 0 => Len(R) = 0 BY <1>4
  <2>2. QED BY <1>4, <2>1, EmptySeq
<1>6. QED BY <1>0, <1>2, <1>4, <1>5, <1>7

\* A run that goes on where another ends.
LEMMA RunJoin ==
    ASSUME NEW o \in Owners, NEW a \in Nat, NEW b \in Nat, NEW z \in Nat,
           a <= b, b <= z
    PROVE  Run(o, a, b) \o Run(o, b, z) = Run(o, a, z)
<1> DEFINE s == Run(o, a, b)
           t == Run(o, b, z)
           u == Run(o, a, z)
<1>1. /\ s \in Seq(Cell) /\ t \in Seq(Cell) /\ u \in Seq(Cell)
      /\ Len(s) = b - a /\ Len(t) = z - b /\ Len(u) = z - a
  <2>1. a <= z OBVIOUS
  <2>2. QED BY <2>1, RunTyped
<1>2. /\ \A k \in 1 .. b - a : s[k] = Numbered(o, a + k - 1)
      /\ \A k \in 1 .. z - b : t[k] = Numbered(o, b + k - 1)
      /\ \A k \in 1 .. z - a : u[k] = Numbered(o, a + k - 1)
  BY DEF Run
<1> HIDE DEF s, t, u
<1>3. /\ s \o t \in Seq(Cell) /\ Len(s \o t) = Len(s) + Len(t)
      /\ \A k \in 1 .. Len(s) + Len(t) :
            (s \o t)[k] = IF k <= Len(s) THEN s[k] ELSE t[k - Len(s)]
  BY <1>1, ConcatProperties
<1>4. Len(s \o t) = z - a BY <1>1, <1>3
<1>5. ASSUME NEW k \in 1 .. z - a PROVE (s \o t)[k] = u[k]
  <2>1. k \in 1 .. Len(s) + Len(t) BY <1>1
  <2>2. CASE k <= b - a
    <3>1. k \in 1 .. b - a BY <2>2
    <3>2. QED BY <1>1, <1>2, <1>3, <2>1, <2>2, <3>1
  <2>3. CASE ~(k <= b - a)
    <3>1. k - (b - a) \in 1 .. z - b BY <2>3
    <3>2. b + (k - (b - a)) - 1 = a + k - 1 OBVIOUS
    <3>3. (s \o t)[k] = t[k - (b - a)] BY <1>1, <1>3, <2>1, <2>3
    <3>4. QED BY <1>2, <3>1, <3>2, <3>3
  <2>4. QED BY <2>2, <2>3
<1>6. QED BY <1>1, <1>3, <1>4, <1>5, SeqEqual DEF s, t, u

\* A run without its first m records.
LEMMA RunTail ==
    ASSUME NEW o \in Owners, NEW a \in Nat, NEW z \in Nat, NEW m \in Nat
    PROVE  LET s == Run(o, a, z)
           IN  SubSeq(s, m + 1, Len(s)) = Run(o, a + m, z)
<1> DEFINE s == Run(o, a, z)
           b == a + m
           t == SubSeq(s, m + 1, Len(s))
           u == Run(o, b, z)
<1>1. b \in Nat OBVIOUS
<1>2. /\ s \in Seq(Cell) /\ u \in Seq(Cell)
      /\ Len(s) = IF a <= z THEN z - a ELSE 0
      /\ Len(u) = IF b <= z THEN z - b ELSE 0
  BY <1>1, RunTyped
<1>3. /\ \A k \in 1 .. z - a : s[k] = Numbered(o, a + k - 1)
      /\ \A k \in 1 .. z - b : u[k] = Numbered(o, b + k - 1)
  BY DEF Run
<1> HIDE DEF s, u
<1>4. \A i \in m + 1 .. Len(s) : s[i] \in Cell
  <2>1. \A i \in 1 .. Len(s) : s[i] \in Cell BY <1>2, ElementOfSeq
  <2>2. QED BY <1>2, <2>1
<1>5. /\ t \in Seq(Cell)
      /\ Len(t) = IF m + 1 <= Len(s) THEN Len(s) - (m + 1) + 1 ELSE 0
      /\ \A i \in 1 .. Len(s) - (m + 1) + 1 : t[i] = s[m + 1 + i - 1]
  <2>1. m + 1 \in Int /\ Len(s) \in Int BY <1>2
  <2>2. QED BY <1>4, <2>1, SubSeqProperties
<1> HIDE DEF t
<1>6. Len(t) = Len(u) BY <1>2, <1>5
<1>7. ASSUME NEW i \in 1 .. Len(t) PROVE t[i] = u[i]
  <2>1. a <= z /\ Len(s) = z - a /\ m + 1 <= Len(s)
    BY <1>2, <1>5
  <2>2. i \in 1 .. z - b /\ i \in 1 .. Len(s) - (m + 1) + 1
        /\ m + i \in 1 .. z - a
    BY <1>5, <2>1
  <2>3. m + 1 + i - 1 = m + i /\ a + (m + i) - 1 = b + i - 1 OBVIOUS
  <2>4. t[i] = s[m + i] BY <1>5, <2>2, <2>3
  <2>5. s[m + i] = Numbered(o, a + (m + i) - 1) BY <1>3, <2>2
  <2>6. QED BY <1>3, <2>2, <2>3, <2>4, <2>5
<1>8. t = u BY <1>2, <1>5, <1>6, <1>7, SeqEqual
<1>9. QED BY <1>8 DEF s, t, u, b

\* One record more.
LEMMA RunNext ==
    ASSUME NEW o \in Owners, NEW a \in Nat, NEW z \in Nat, a <= z
    PROVE  Append(Run(o, a, z), Numbered(o, z)) = Run(o, a, z + 1)
<1> DEFINE s == Run(o, a, z)
           u == Run(o, a, z + 1)
           x == Numbered(o, z)
<1>1. /\ s \in Seq(Cell) /\ u \in Seq(Cell) /\ x \in Cell
      /\ Len(s) = z - a /\ Len(u) = z + 1 - a
  <2>1. a <= z + 1 /\ z + 1 \in Nat OBVIOUS
  <2>2. x \in Cell BY NumberedTyped
  <2>3. s \in Seq(Cell) /\ Len(s) = z - a BY RunTyped
  <2>4. u \in Seq(Cell) /\ Len(u) = z + 1 - a BY <2>1, RunTyped
  <2>5. QED BY <2>2, <2>3, <2>4
<1>2. /\ \A k \in 1 .. z - a : s[k] = Numbered(o, a + k - 1)
      /\ \A k \in 1 .. z + 1 - a : u[k] = Numbered(o, a + k - 1)
  BY DEF Run
<1>3. x = Numbered(o, a + (z - a + 1) - 1) OBVIOUS
<1> HIDE DEF s, u, x
<1>4. /\ Append(s, x) \in Seq(Cell) /\ Len(Append(s, x)) = Len(s) + 1
      /\ \A i \in 1 .. Len(s) : Append(s, x)[i] = s[i]
      /\ Append(s, x)[Len(s) + 1] = x
  BY <1>1, AppendProperties
<1>5. ASSUME NEW k \in 1 .. z + 1 - a PROVE Append(s, x)[k] = u[k]
  <2>1. CASE k <= z - a
    <3>1. k \in 1 .. z - a BY <2>1
    <3>2. QED BY <1>1, <1>2, <1>4, <3>1
  <2>2. CASE ~(k <= z - a)
    <3>1. k = z - a + 1 BY <2>2
    <3>2. QED BY <1>1, <1>2, <1>3, <1>4, <3>1
  <2>3. QED BY <2>1, <2>2
<1>6. Len(Append(s, x)) = Len(u) /\ Len(u) = z + 1 - a BY <1>1, <1>4
<1>7. Append(s, x) = u BY <1>1, <1>4, <1>5, <1>6, SeqEqual
<1>8. QED BY <1>7 DEF s, u, x

-----------------------------------------------------------------------------
(* What the loop over a chunk finds *)

LEMMA Multiples ==
    ASSUME NEW k \in Nat, NEW n \in Nat
    PROVE  /\ k * RecLen \in Nat /\ (k + 1) * RecLen = k * RecLen + RecLen
           /\ k < n => k * RecLen + RecLen <= n * RecLen
           /\ n > 0 => n * RecLen > 0
<1>1. RecLen \in Nat /\ RecLen > 0 BY Geometry
<1>2. k * RecLen \in Nat /\ (k + 1) * RecLen = k * RecLen + RecLen BY <1>1
<1>3. ASSUME k < n PROVE k * RecLen + RecLen <= n * RecLen
  <2>1. k + 1 <= n BY <1>3
  <2>2. (k + 1) * RecLen <= n * RecLen BY <1>1, <2>1
  <2>3. QED BY <1>2, <2>2
<1>4. ASSUME n > 0 PROVE n * RecLen > 0 BY <1>1, <1>4
<1>5. QED BY <1>2, <1>3, <1>4

\* A chunk of whole records, then padding.
Packed(cells, size, o, a, z) ==
    /\ a < z /\ (z - a) * RecLen <= size
    /\ \A i \in 0 .. z - a - 1 : cells[i * RecLen] = Numbered(o, a + i)
    /\ (z - a) * RecLen < size => cells[(z - a) * RecLen].len = 0

\* What the loop has after n turns.
Found(o, a, n) ==
    [recs |-> Run(o, a, a + n), end |-> n * RecLen, bad |-> FALSE]

LEMMA ParseStep ==
    ASSUME NEW size \in Nat, NEW cells, NEW o \in Owners,
           NEW a \in Nat, NEW z \in Nat, Packed(cells, size, o, a, z),
           NEW k \in 0 .. z - a
    PROVE  ParseOne(cells, size, Found(o, a, k)) =
              Found(o, a, IF k < z - a THEN k + 1 ELSE k)
<1> DEFINE n == z - a
           e == k * RecLen
           q == Found(o, a, k)
<1>1. n \in Nat /\ k \in Nat /\ k <= n /\ RecLen \in Nat /\ RecLen > 0
  BY Geometry DEF Packed
<1>2. q.end = e /\ ~q.bad /\ q.recs = Run(o, a, a + k) BY DEF Found
<1>3. /\ e \in Nat /\ (k + 1) * RecLen = e + RecLen
      /\ k < n => e + RecLen <= n * RecLen
  BY <1>1, Multiples
<1>4. n * RecLen <= size /\ n * RecLen \in Nat BY <1>1, Multiples DEF Packed
<1>5. CASE k < n
  <2>1. k \in 0 .. n - 1 BY <1>1, <1>5
  <2>2. cells[e] = Numbered(o, a + k) BY <2>1 DEF Packed
  <2>3. cells[e].len = RecLen BY <1>1, <2>2, NumberedTyped
  <2>4. e + RecLen <= size /\ e # size BY <1>1, <1>3, <1>4, <1>5
  <2> DEFINE x == Append(Run(o, a, a + k), Numbered(o, a + k))
             r == Run(o, a, a + (k + 1))
  <2>5. x = r
    <3>1. a + k \in Nat /\ a <= a + k /\ (a + k) + 1 = a + (k + 1) BY <1>1
    <3>2. QED BY <3>1, RunNext
  <2> HIDE DEF e, q
  <2>6. ParseOne(cells, size, q) =
          [recs |-> Append(q.recs, cells[q.end]),
           end |-> q.end + cells[q.end].len, bad |-> FALSE]
    <3>1. ~(q.bad \/ q.end = size \/ cells[q.end].len = 0)
          /\ ~(q.end + cells[q.end].len > size)
      BY <1>1, <1>2, <1>3, <1>4, <2>3, <2>4
    <3>2. QED BY <3>1 DEF ParseOne
  <2>7. Append(q.recs, cells[q.end]) = r /\ q.end + cells[q.end].len = e + RecLen
    BY <1>2, <2>2, <2>3, <2>5
  <2>8. ParseOne(cells, size, q) = Found(o, a, k + 1)
    BY <1>3, <2>6, <2>7 DEF Found
  <2>9. QED BY <1>5, <2>8 DEF q
<1>6. CASE ~(k < n)
  <2>1. k = n BY <1>1, <1>6
  <2>2. e = size \/ cells[e].len = 0 BY <1>4, <2>1 DEF Packed
  <2>3. ParseOne(cells, size, q) = q BY <1>2, <2>2 DEF ParseOne
  <2>4. QED BY <1>6, <2>3
<1>7. QED BY <1>5, <1>6

\* It finds every record of the chunk, or as many as were asked for.
LEMMA ParseReads ==
    ASSUME NEW size \in Nat, NEW cells \in [0 .. size - 1 -> Cell],
           NEW o \in Owners, NEW a \in Nat, NEW z \in Nat,
           Packed(cells, size, o, a, z), NEW max \in Nat
    PROVE  Parse(cells, size, max) =
              Found(o, a, IF max <= z - a THEN max ELSE z - a)
<1> DEFINE n == z - a
           at(k) == IF k <= n THEN k ELSE n
<1>1. n \in Nat BY DEF Packed
<1>2. PICK f : Parse(cells, size, max) = f[max] /\ Loop(f, cells, size, max)
  BY ParseLoop
<1> DEFINE S == {k \in 0 .. max : f[k] = Found(o, a, at(k))}
<1>3. 0 \in S
  <2>1. 0 \in 0 .. max /\ f[0] = Nothing BY <1>2 DEF Loop
  <2>2. at(0) = 0 BY <1>1
  <2>3. Run(o, a, a + 0) = <<>> BY RunTyped
  <2>4. 0 * RecLen = 0 BY Geometry
  <2>5. Found(o, a, 0) = Nothing BY <2>3, <2>4 DEF Found, Nothing
  <2>6. QED BY <2>1, <2>2, <2>5
<1>4. ASSUME NEW i \in 0 .. max, i < max, i \in S PROVE i + 1 \in S
  <2> DEFINE m == i + 1
  <2>1. m \in 0 .. max /\ m # 0 /\ m - 1 = i /\ i \in Nat BY <1>4
  <2> DEFINE k == at(i)
  <2>2. k \in 0 .. n /\ at(m) = IF k < n THEN k + 1 ELSE k
    <3>1. CASE i < n BY <1>1, <2>1, <3>1
    <3>2. CASE ~(i < n) BY <1>1, <2>1, <3>2
    <3>3. QED BY <3>1, <3>2
  <2>3. f[i] = Found(o, a, k) BY <1>4
  <2> HIDE DEF m, k
  <2>4. f[m] = ParseOne(cells, size, f[i]) BY <1>2, <2>1 DEF Loop
  <2> HIDE DEF at
  <2>5. ParseOne(cells, size, Found(o, a, k)) =
           Found(o, a, IF k < n THEN k + 1 ELSE k)
    BY <2>2, ParseStep
  <2>6. f[m] = Found(o, a, at(m)) BY <2>2, <2>3, <2>4, <2>5
  <2>7. m \in S BY <2>1, <2>6
  <2>8. QED BY <2>7 DEF m
<1> HIDE DEF S
<1>5. \A i \in 0 .. max : i \in S BY <1>3, <1>4, Climb
<1>6. max \in S BY <1>5
<1>7. QED BY <1>2, <1>6 DEF S

-----------------------------------------------------------------------------
(* What a reader finds in the next chunk *)

Area == DataStart .. NumBlocks - 1
From(data, b, size) == [k \in 0 .. size - 1 |-> data[b + k]]

LEMMA OwnerTyped ==
    ASSUME NEW e \in Entry
    PROVE  OwnerOf(e) \in Owners
  BY DEF OwnerOf, Owner, Owners, Entry

\* Where the device has room for the chunk a reader stands before, the chunk
\* holds the records that follow those shown.
LEMMA StandsOn ==
    ASSUME NEW e \in Entry, NEW c \in Cursor, NEW data \in [Area -> Cell],
           Stands(c, e, data), c.cur_block >= DataStart, c.chunk > 0,
           c.cur_block + c.chunk <= NumBlocks
    PROVE  LET cells == From(data, c.cur_block, c.chunk)
           IN  /\ cells \in [0 .. c.chunk - 1 -> Cell]
               /\ \E z \in Nat :
                    /\ Packed(cells, c.chunk, OwnerOf(e), c.records_seen, z)
                    /\ \E K, first : /\ Row(data, e, K, first)
                                     /\ c.cur_block + c.chunk \in K
                                     /\ first[c.cur_block + c.chunk] = z
<1> DEFINE b == c.cur_block
           size == c.chunk
           a == c.records_seen
           o == OwnerOf(e)
           L == End(e)
           cells == From(data, b, size)
<1>1. b \in Nat /\ size \in Nat /\ a \in Nat /\ c.target_count \in Nat
  BY CursorTyped
<1>2. \A k \in 0 .. size - 1 : b + k \in Area
  BY <1>1, Geometry DEF Area
<1>3. cells \in [0 .. size - 1 -> Cell] BY <1>2 DEF From
<1>4. PICK K, first : Row(data, e, K, first) /\ b \in K /\ first[b] = a
  BY DEF Stands
<1>5. /\ e.laid = size /\ e.record_count = c.target_count /\ a < e.record_count
  BY DEF Stands
<1>6. /\ Chunked(data, o, e.start_block, L, size, K, first)
      /\ Short(L, size, first[L], e.record_count)
  BY <1>4, <1>5 DEF Row
<1>7. b # L
  <2>1. SUFFICES ASSUME b = L PROVE FALSE OBVIOUS
  <2>2. first[L] # e.record_count BY <1>1, <1>4, <1>5, <2>1
  <2>3. L + size > NumBlocks BY <1>6, <2>2 DEF Short
  <2>4. QED BY <1>1, <2>1, <2>3, Geometry
<1> DEFINE z == first[b + size]
<1>8. b + size \in K /\ Holds(data, b, size, o, a, z) /\ z \in Nat
  BY <1>4, <1>6, <1>7 DEF Chunked
<1> HIDE DEF z, o, b, size, a
<1>9. Packed(cells, size, o, a, z)
  <2>1. a < z /\ (z - a) * RecLen <= size BY <1>8 DEF Holds
  <2> DEFINE n == z - a
  <2>2. n \in Nat BY <1>1, <1>8, <2>1
  <2>3. ASSUME NEW i \in 0 .. n - 1 PROVE cells[i * RecLen] = Numbered(o, a + i)
    <3>1. i \in Nat /\ i < n BY <2>2
    <3>2. i * RecLen \in Nat /\ i * RecLen + RecLen <= n * RecLen
          /\ n * RecLen \in Nat
      BY <2>2, <3>1, Multiples
    <3>3. i * RecLen \in 0 .. size - 1
      BY <1>1, <2>1, <3>2, Geometry
    <3>4. cells[i * RecLen] = data[b + i * RecLen] BY <3>3 DEF From
    <3>5. data[b + i * RecLen] = Numbered(o, a + i) BY <1>8 DEF Holds
    <3>6. QED BY <3>4, <3>5
  <2>4. ASSUME n * RecLen < size PROVE cells[n * RecLen].len = 0
    <3>1. n * RecLen \in Nat BY <2>2, Multiples
    <3>2. n * RecLen \in 0 .. size - 1 BY <1>1, <2>4, <3>1
    <3>3. cells[n * RecLen] = data[b + n * RecLen] BY <3>2 DEF From
    <3>4. data[b + n * RecLen].len = 0 BY <1>8, <2>4 DEF Holds
    <3>5. QED BY <3>3, <3>4
  <2> HIDE DEF cells
  <2>5. QED BY <2>1, <2>3, <2>4 DEF Packed
<1>10. QED BY <1>3, <1>4, <1>8, <1>9 DEF b, size, a, o, z

\* Where the device has no room for it, the reader stands at the end of a
\* segment whose last buffer was dropped.
LEMMA StandsLast ==
    ASSUME NEW e \in Entry, NEW c \in Cursor, NEW data,
           Stands(c, e, data), c.cur_block + c.chunk > NumBlocks
    PROVE  /\ EndsFull(e)
           /\ e.record_count - c.records_seen <= e.laid \div RecLen
<1> DEFINE b == c.cur_block
           size == c.chunk
           a == c.records_seen
           L == End(e)
<1>1. b \in Nat /\ size \in Nat /\ a \in Nat BY CursorTyped
<1>2. PICK K, first : Row(data, e, K, first) /\ b \in K /\ first[b] = a
  BY DEF Stands
<1>3. e.laid = size /\ a < e.record_count /\ e.record_count \in Nat
  BY DEF Stands, Entry
<1>4. /\ Chunked(data, OwnerOf(e), e.start_block, L, size, K, first)
      /\ Short(L, size, first[L], e.record_count)
  BY <1>2, <1>3 DEF Row
<1>5. b = L
  <2>1. SUFFICES ASSUME b # L PROVE FALSE OBVIOUS
  <2>2. b + size <= NumBlocks BY <1>2, <1>4, <2>1 DEF Chunked, Holds
  <2>3. QED BY <1>1, <2>2, Geometry
<1>6. first[L] = a /\ a # e.record_count BY <1>1, <1>2, <1>3, <1>5
<1>7. L + size > NumBlocks /\ e.record_count - a <= size \div RecLen
  BY <1>4, <1>6 DEF Short
<1>8. QED BY <1>3, <1>7 DEF EndsFull, End

\* A dump shows all records of the chunk and ends at the segment's last.
LEMMA DumpReads ==
    ASSUME NEW e \in Entry, NEW c \in Cursor, NEW data \in [Area -> Cell],
           Stands(c, e, data), c.cur_block >= DataStart, c.chunk > 0,
           c.cur_block + c.chunk <= NumBlocks, c.req_offset = 0
    PROVE  LET u == DumpChunkRead(c, From(data, c.cur_block, c.chunk))
           IN  /\ u.end \in {"", "ok"} /\ u.req_offset = 0
               /\ u.shown = Run(OwnerOf(e), 0, u.records_seen)
               /\ u.end = "ok" => u.records_seen = e.record_count
               /\ u.end = "" => Stands(u, e, data)
<1> DEFINE size == c.chunk
           a == c.records_seen
           o == OwnerOf(e)
           next == c.cur_block + size
           cells == From(data, c.cur_block, size)
           max == c.target_count - a
           q == Parse(cells, size, max)
           seen == a + Len(q.recs)
           shown == c.shown \o q.recs
           x == IF q.bad THEN "fail" ELSE IF seen >= c.target_count THEN "ok"
                ELSE IF q.end = 0 THEN "fail" ELSE ""
           u == DumpChunkRead(c, cells)
<1>1. /\ c.cur_block \in Nat /\ size \in Nat /\ a \in Nat
      /\ c.target_count \in Nat
  BY CursorTyped
<1>2. o \in Owners BY OwnerTyped
<1>3. cells \in [0 .. size - 1 -> Cell] BY StandsOn
<1>4. PICK z \in Nat :
        /\ Packed(cells, size, o, a, z)
        /\ \E K, first : /\ Row(data, e, K, first)
                         /\ next \in K /\ first[next] = z
  BY StandsOn
<1>5. /\ size = e.laid /\ c.target_count = e.record_count /\ a < c.target_count
      /\ c.shown = Run(o, 0, a)
  BY DEF Stands
<1>6. u = [c EXCEPT !.shown = shown, !.records_seen = seen,
                    !.cur_block = next, !.end = x]
  BY DEF DumpChunkRead
<1>7. max \in Nat /\ max > 0 BY <1>1, <1>5
<1> DEFINE n == IF max <= z - a THEN max ELSE z - a
           y == a + n
<1>8. a < z BY <1>4 DEF Packed
<1>9. n \in Nat /\ n > 0 /\ y \in Nat /\ a <= y
      /\ y = IF c.target_count <= z THEN c.target_count ELSE z
  BY <1>1, <1>7, <1>8
<1> HIDE DEF cells, o
<1> HIDE DEF max, size
<1>10. q = Found(o, a, n)
  <2> HIDE DEF a
  <2>1. size \in Nat BY <1>1
  <2>2. Packed(cells, size, o, a, z) BY <1>4
  <2>3. a \in Nat BY <1>1
  <2>4. max \in Nat BY <1>7
  <2>5. QED BY <1>2, <1>3, <2>1, <2>2, <2>3, <2>4, ParseReads
<1> HIDE DEF n, q
<1>11. q.recs = Run(o, a, y) /\ ~q.bad /\ q.end # 0
  <2>1. n * RecLen > 0 /\ n * RecLen \in Nat BY <1>9, Multiples
  <2>2. QED BY <1>9, <1>10, <2>1 DEF Found
<1>12. Len(q.recs) = y - a BY <1>1, <1>2, <1>9, <1>11, RunTyped
<1>13. seen = y BY <1>1, <1>9, <1>12
<1>14. shown = Run(o, 0, y)
  <2> HIDE DEF a, y
  <2>1. 0 \in Nat /\ a \in Nat /\ y \in Nat /\ 0 <= a /\ a <= y BY <1>1, <1>9
  <2>2. Run(o, 0, a) \o Run(o, a, y) = Run(o, 0, y) BY <1>2, <2>1, RunJoin
  <2>3. QED BY <1>5, <1>11, <2>2
<1>15. x = IF y >= c.target_count THEN "ok" ELSE ""
  <2> HIDE DEF seen
  <2>1. QED BY <1>11, <1>13
<1> HIDE DEF seen, shown, next, x, y, u, size
<1>16. /\ u.shown = shown /\ u.records_seen = y /\ u.cur_block = next
       /\ u.end = x /\ u.chunk = c.chunk /\ u.target_count = c.target_count
       /\ u.req_offset = 0
  BY <1>6, <1>13 DEF Cursor
<1>17. y = IF c.target_count <= z THEN c.target_count ELSE z BY <1>9
<1>18. u.end = "ok" => y = e.record_count
  BY <1>1, <1>5, <1>15, <1>16, <1>17
<1>19. ASSUME u.end = "" PROVE Stands(u, e, data)
  <2>0. x # "ok" BY <1>16, <1>19
  <2>4. ~(y >= c.target_count) BY <1>15, <2>0
  <2>5. y \in Nat /\ c.target_count \in Nat BY <1>1, <1>9 DEF y
  <2>6. y < c.target_count BY <2>4, <2>5
  <2>1. y = z /\ y < c.target_count BY <1>17, <2>5, <2>6
  <2>2. \E K, first : Row(data, e, K, first) /\ next \in K /\ first[next] = y
    BY <1>4, <2>1
  <2>3. QED BY <1>5, <1>14, <1>16, <2>1, <2>2 DEF Stands, size, o
<1>20. QED BY <1>14, <1>15, <1>16, <1>18, <1>19 DEF u, cells, o, size


\* What is left of a page once y records are passed over.
LEMMA PageCut ==
    ASSUME NEW o \in Owners, NEW f \in Nat, NEW a \in Nat, NEW y \in Nat, a <= y
    PROVE  LET skip == Max({f - a, 0})
               s == Run(o, a, y)
           IN  Run(o, f, a) \o SubSeq(s, skip + 1, Len(s)) = Run(o, f, y)
<1> DEFINE skip == Max({f - a, 0})
           s == Run(o, a, y)
<1>1. skip \in Nat /\ skip = IF f >= a THEN f - a ELSE 0
  BY MaxOfTwo
<1> HIDE DEF skip
<1>2. SubSeq(s, skip + 1, Len(s)) = Run(o, a + skip, y)
  <2>1. skip \in Nat BY <1>1
  <2>2. QED BY <2>1, RunTail, Zenon
<1>3. CASE f <= a
  <2>1. a + skip = a BY <1>1, <1>3
  <2>2. Run(o, f, a) \o Run(o, a, y) = Run(o, f, y) BY <1>3, RunJoin
  <2>3. QED BY <1>2, <2>1, <2>2 DEF skip
<1>4. CASE a < f
  <2>1. a + skip = f BY <1>1, <1>4
  <2>2. Run(o, f, a) = <<>> BY <1>4, RunTyped
  <2>3. Run(o, f, y) \in Seq(Cell) BY RunTyped
  <2>4. <<>> \o Run(o, f, y) = Run(o, f, y) BY <2>3, ConcatEmptySeq
  <2>5. QED BY <1>2, <2>1, <2>2, <2>4 DEF skip
<1>5. f <= a \/ a < f OBVIOUS
<1>6. QED BY <1>3, <1>4, <1>5, Zenon DEF skip

\* A page takes the records it still wants, and is full with its last one.
LEMMA PageReads ==
    ASSUME NEW e \in Entry, NEW c \in Cursor, NEW data \in [Area -> Cell],
           Stands(c, e, data), c.cur_block >= DataStart, c.chunk > 0,
           c.cur_block + c.chunk <= NumBlocks, Roomy(c)
    PROVE  LET u == PageChunkRead(c, From(data, c.cur_block, c.chunk))
               last == Min({c.req_offset + c.req_limit, e.record_count})
           IN  /\ u.end \in {"", "ok"}
               /\ u.req_offset = c.req_offset /\ u.req_limit = c.req_limit
               /\ u.end = "ok" => /\ u.shown = Run(OwnerOf(e), u.req_offset, last)
                                  /\ u.has_more = (last < e.record_count)
               /\ u.end = "" => Stands(u, e, data) /\ Roomy(u)
<1> DEFINE size == c.chunk
           a == c.records_seen
           f == c.req_offset
           lim == c.req_limit
           T == c.target_count
           o == OwnerOf(e)
           next == c.cur_block + size
           cells == From(data, c.cur_block, size)
           skip == Max({f - a, 0})
           h == Len(c.shown)
           last == Min({f + lim, T})
           max == Wanted(c)
           q == Parse(cells, size, max)
           seen == a + Len(q.recs)
           shown == c.shown \o SubSeq(q.recs, skip + 1, Len(q.recs))
           full == seen >= T \/ Len(shown) >= lim
           more == full /\ seen < T
           x == IF q.bad \/ (q.end = 0 /\ ~full) THEN "fail"
                ELSE IF full THEN "ok" ELSE ""
           u == PageChunkRead(c, cells)
<1>1. /\ c.cur_block \in Nat /\ size \in Nat /\ a \in Nat /\ T \in Nat
      /\ f \in Nat /\ lim \in Nat
  BY CursorTyped
<1>2. o \in Owners BY OwnerTyped
<1>3. cells \in [0 .. size - 1 -> Cell] BY StandsOn
<1>4. PICK z \in Nat :
        /\ Packed(cells, size, o, a, z)
        /\ \E K, first : /\ Row(data, e, K, first)
                         /\ next \in K /\ first[next] = z
  BY StandsOn
<1>5. /\ size = e.laid /\ T = e.record_count /\ a < T
      /\ c.shown = Run(o, f, a)
  BY DEF Stands
<1>6. u = [c EXCEPT !.shown = shown, !.records_seen = seen,
                    !.cur_block = next, !.has_more = more, !.end = x]
  BY DEF PageChunkRead
<1>7. h = (IF f <= a THEN a - f ELSE 0) /\ h < lim /\ f < T
  <2>1. h < lim /\ f < T BY DEF Roomy
  <2>2. Len(Run(o, f, a)) = IF f <= a THEN a - f ELSE 0
    <3> HIDE DEF o, f, a
    <3>1. QED BY <1>1, <1>2, RunTyped
  <2>3. QED BY <1>5, <2>1, <2>2
<1>8. skip = (IF f >= a THEN f - a ELSE 0)
  <2>1. f - a \in Int /\ 0 \in Int BY <1>1
  <2>2. skip = IF f - a >= 0 THEN f - a ELSE 0
    <3> HIDE DEF f, a
    <3>1. QED BY <2>1, MaxOfTwo
  <2>3. QED BY <1>1, <2>2
<1>9. last = (IF f + lim <= T THEN f + lim ELSE T) /\ last \in Nat
  <2>1. f + lim \in Int /\ T \in Int BY <1>1
  <2>2. last = IF f + lim <= T THEN f + lim ELSE T
    <3> HIDE DEF f, lim, T
    <3>1. QED BY <2>1, MinOfTwo
  <2> HIDE DEF last
  <2>3. QED BY <1>1, <2>2
<1>10. max = last - a /\ max \in Nat /\ max > 0
  <2> DEFINE m == skip + lim - h
  <2>1. m = f + lim - a
    <3> HIDE DEF skip, h
    <3>1. CASE f <= a BY <1>1, <1>7, <1>8, <3>1
    <3>2. CASE f > a BY <1>1, <1>7, <1>8, <3>2
    <3>3. QED BY <1>1, <3>1, <3>2
  <2>2. max = Min({T - a, m}) BY DEF Wanted
  <2>3. T - a \in Int /\ m \in Int
    <3> HIDE DEF m
    <3>1. QED BY <1>1, <2>1
  <2> HIDE DEF m, max, last
  <2>4. Min({T - a, m}) = IF T - a <= m THEN T - a ELSE m
    <3> HIDE DEF T, a
    <3>1. QED BY <2>3, MinOfTwo
  <2>5. a < f + lim
    <3> HIDE DEF h
    <3>1. CASE f <= a BY <1>1, <1>7, <3>1
    <3>2. CASE f > a BY <1>1, <1>7, <3>2
    <3>3. QED BY <1>1, <3>1, <3>2
  <2>6. QED BY <1>1, <1>5, <1>9, <2>1, <2>2, <2>4, <2>5
<1> DEFINE n == IF max <= z - a THEN max ELSE z - a
           y == a + n
<1>11. a < z BY <1>4 DEF Packed
<1> HIDE DEF last, max, cells, o
<1>12. n \in Nat /\ n > 0 /\ y \in Nat /\ a <= y
       /\ y = IF last <= z THEN last ELSE z
  BY <1>1, <1>9, <1>10, <1>11
<1> HIDE DEF size
<1>13. q = Found(o, a, n)
  <2> HIDE DEF a
  <2>1. size \in Nat BY <1>1
  <2>2. Packed(cells, size, o, a, z) BY <1>4
  <2>3. a \in Nat BY <1>1
  <2>4. max \in Nat BY <1>10
  <2>5. QED BY <1>2, <1>3, <2>1, <2>2, <2>3, <2>4, ParseReads
<1> HIDE DEF n, q
<1>14. q.recs = Run(o, a, y) /\ ~q.bad /\ q.end # 0
  <2>1. n * RecLen > 0 /\ n * RecLen \in Nat BY <1>12, Multiples
  <2>2. QED BY <1>12, <1>13, <2>1 DEF Found
<1>15. seen = y
  <2>1. Len(q.recs) = y - a BY <1>1, <1>2, <1>12, <1>14, RunTyped
  <2>2. QED BY <1>1, <1>12, <2>1
<1>16. shown = Run(o, f, y)
  <2> HIDE DEF a, y, f
  <2>1. /\ f \in Nat /\ a \in Nat /\ y \in Nat /\ a <= y BY <1>1, <1>12
  <2> DEFINE s == Run(o, a, y)
  <2>2. Run(o, f, a) \o SubSeq(s, skip + 1, Len(s)) = Run(o, f, y)
    BY <1>2, <2>1, PageCut
  <2> HIDE DEF skip
  <2>3. QED BY <1>5, <1>14, <2>2
<1>17. Len(shown) = IF f <= y THEN y - f ELSE 0
  <2> HIDE DEF shown, y, f
  <2>1. QED BY <1>1, <1>2, <1>12, <1>16, RunTyped
<1> HIDE DEF seen, shown, y
<1>18. full = (y = last)
  <2>1. CASE last <= z
    <3>1. y = last BY <1>12, <2>1
    <3>2. CASE f + lim <= T
      <4>1. y = f + lim BY <1>9, <3>1, <3>2
      <4>2. Len(shown) = lim BY <1>1, <1>17, <4>1
      <4>3. QED BY <1>1, <3>1, <4>2
    <3>3. CASE ~(f + lim <= T)
      <4>1. y = T BY <1>9, <3>1, <3>3
      <4>2. QED BY <1>1, <1>15, <3>1, <4>1
    <3>4. QED BY <3>2, <3>3
  <2>2. CASE ~(last <= z)
    <3>1. y = z /\ z < last BY <1>9, <1>12, <2>2
    <3>2. y < T /\ y < f + lim BY <1>1, <1>9, <3>1
    <3>3. Len(shown) < lim
      <4>0. h \in Nat BY CursorTyped
      <4>1. lim > 0
        <5> HIDE DEF h
        <5>1. QED BY <1>1, <1>7, <4>0
      <4>2. CASE f <= y BY <1>1, <1>12, <1>17, <3>2, <4>2
      <4>3. CASE ~(f <= y) BY <1>17, <4>1, <4>3
      <4>4. QED BY <4>2, <4>3
    <3>4. ~(seen >= T) BY <1>1, <1>12, <1>15, <3>2
    <3>5. ~(Len(shown) >= lim)
      <4>1. Len(shown) \in Nat BY <1>1, <1>12, <1>17
      <4>2. QED BY <1>1, <3>3, <4>1
    <3>6. y # last BY <1>9, <1>12, <3>1
    <3>7. QED BY <3>4, <3>5, <3>6
  <2>3. QED BY <2>1, <2>2
<1>19. full \in BOOLEAN OBVIOUS
<1> HIDE DEF full
<1>20. x = IF y = last THEN "ok" ELSE "" BY <1>14, <1>18
<1>21. ASSUME y = last PROVE more = (last < T)
  <2>1. full BY <1>18, <1>21
  <2>2. (seen < T) \in BOOLEAN BY <1>1, <1>12, <1>15
  <2>3. more = (seen < T) BY <2>1, <2>2
  <2>4. QED BY <1>15, <1>21, <2>3
<1> HIDE DEF next, x, more, u, size, f, lim, a
<1>22. /\ u.shown = shown /\ u.records_seen = y /\ u.cur_block = next
       /\ u.end = x /\ u.has_more = more /\ u.chunk = c.chunk
       /\ u.target_count = c.target_count
       /\ u.req_offset = f /\ u.req_limit = lim
  BY <1>6, <1>15 DEF Cursor, f, lim
<1>23. last = Min({c.req_offset + c.req_limit, e.record_count})
  BY <1>5 DEF last, f, lim
<1>24. u.end \in {"", "ok"} BY <1>20, <1>22
<1>25. ASSUME u.end = "ok"
       PROVE  u.shown = Run(o, u.req_offset, last)
              /\ u.has_more = (last < e.record_count)
  <2>1. y = last BY <1>20, <1>22, <1>25
  <2>2. QED BY <1>5, <1>16, <1>21, <1>22, <2>1
<1>26. ASSUME u.end = "" PROVE Stands(u, e, data) /\ Roomy(u)
  <2>1. y # last BY <1>20, <1>22, <1>26
  <2>2. y = z /\ z < last BY <1>9, <1>12, <2>1
  <2>3. y < T BY <1>1, <1>9, <2>2 DEF f, lim
  <2>4. \E K, first : Row(data, e, K, first) /\ next \in K /\ first[next] = y
    BY <1>4, <2>2 DEF next
  <2>5. Stands(u, e, data)
    BY <1>5, <1>16, <1>22, <2>3, <2>4 DEF Stands, size, o
  <2>6. ~full BY <1>18, <2>1
  <2>7. Len(shown) < lim
    <3>1. Len(shown) \in Nat BY <1>1, <1>12, <1>17 DEF f
    <3>2. QED BY <1>1, <2>6, <3>1 DEF full, lim
  <2>8. Roomy(u) BY <1>7, <1>22, <2>7 DEF Roomy
  <2>9. QED BY <2>5, <2>8
<1>27. QED BY <1>22, <1>23, <1>24, <1>25, <1>26 DEF u, cells, o, size, f, lim

-----------------------------------------------------------------------------
(* Readers from chunk to chunk *)

\* Nothing begins to be recorded, and what is being recorded goes on alike.
Carries(s, t) ==
    t.up /\ t.recording =>
       /\ s.up /\ s.recording /\ t.vol.era = s.vol.era
       /\ t.segment_id = s.segment_id
       /\ t.segment_start_block = s.segment_start_block
       /\ t.next_write_block = s.next_write_block /\ t.buf_size = s.buf_size
       /\ t.record_count = s.record_count /\ t.stopping = s.stopping

LEMMA FillingCarried ==
    ASSUME NEW s, NEW t, NEW d, NEW D, Filling(s, d), Carries(s, t),
           D.data = d.data
    PROVE  Filling(t, D)
<1>1. SUFFICES ASSUME t.up, t.recording PROVE Filling(t, D)
  BY DEF Filling
<1>2. s.up /\ s.recording BY <1>1 DEF Carries
<1> DEFINE Kept(x, data, K, first) ==
             /\ Chunked(data, Owner(x.vol.era, x.segment_id),
                        x.segment_start_block, x.next_write_block, x.buf_size, K,
                        first)
             /\ Short(x.next_write_block, x.buf_size, first[x.next_write_block],
                      x.record_count)
             /\ ~x.stopping => first[x.next_write_block] = x.record_count
<1>3. PICK K, first : Kept(s, d.data, K, first) BY <1>2 DEF Filling
<1>4. Kept(t, D.data, K, first) BY <1>1, <1>3 DEF Carries
<1>5. \E L, f : Kept(t, D.data, L, f) BY <1>4
<1>6. QED BY <1>5 DEF Filling

LEMMA EndsCarry ==
    ASSUME NEW s \in Process
    PROVE  /\ \A rc : Carries(s, Exit(s, rc)) /\ Carries(s, Fulfill(s, rc))
           /\ \A op, at, n : Carries(s, Submit(s, op, at, n))
           /\ \A c : Carries(s, [s EXCEPT !.cursor = c])
<1>1. \A rc : ~Exit(s, rc).up BY DEF Exit, Process
<1>2. \A rc : Carries(s, Exit(s, rc)) BY <1>1 DEF Carries
<1>3. \A rc : Carries(s, Fulfill(s, rc)) BY DEF Fulfill, Process, Carries
<1>4. \A op, at, n : Carries(s, Submit(s, op, at, n))
  BY DEF Submit, Process, Carries
<1>5. \A c : Carries(s, [s EXCEPT !.cursor = c]) BY DEF Process, Carries
<1>6. QED BY <1>2, <1>3, <1>4, <1>5

LEMMA FulfillIs ==
    ASSUME NEW s \in Process, NEW rc
    PROVE  LET t == Fulfill(s, rc)
           IN  /\ t.up = s.up /\ t.mode = s.mode /\ t.cursor = s.cursor
               /\ t.target = s.target /\ t.buf_size = s.buf_size
               /\ t.io = s.io /\ t.rc = rc /\ t.said = s.request
  BY DEF Fulfill, Process

\* What a dump's cursor has shown, and where it goes on.
DumpShows(c, e, data) ==
    /\ c.end \in {"", "ok"}
    /\ c.shown = Run(OwnerOf(e), 0, c.records_seen)
    /\ c.end = "ok" => c.records_seen = e.record_count
    /\ c.end = "" => Stands(c, e, data)

\* What a page's cursor has shown, and where it goes on.
PageShows(c, e, data) ==
    LET last == Min({c.req_offset + c.req_limit, e.record_count})
    IN  /\ c.end \in {"", "ok"}
        /\ c.end = "ok" => /\ c.shown = Run(OwnerOf(e), c.req_offset, last)
                           /\ c.has_more = (last < e.record_count)
        /\ c.end = "" => Stands(c, e, data) /\ Roomy(c)

LEMMA GoesDumpDeep ==
    ASSUME NEW s \in Process, NEW d \in Disks, NEW l, NEW c \in Cursor,
           s.up, s.io = {}, s.said = "none", s.mode = "dump", ~s.recording,
           NEW g \in Slots, Fin(d, g), s.target = d.toc[g], c.req_offset = 0,
           RightFor(s, s.target) /\ ~l.header_lost =>
              DumpShows(c, s.target, d.data)
    PROVE  Deep(Goes(s, "chunk", c), d, l)
<1> DEFINE e == s.target
           t == [s EXCEPT !.cursor = c]
           u == Goes(s, "chunk", c)
<1>1. e \in Entry BY DEF Disks
<1>2. /\ t.cursor = c /\ t.target = e /\ t.up /\ t.mode = "dump"
      /\ ~t.recording /\ t.buf_size = s.buf_size /\ t.said = "none"
      /\ t.io = {} /\ t \in Process
  BY DEF Process
<1>3. u = IF c.end # "" THEN Exit(t, c.end)
          ELSE IF c.cur_block + c.chunk > NumBlocks THEN Exit(t, "fail")
          ELSE Submit(t, "chunk", c.cur_block, c.chunk)
  BY <1>2 DEF Goes, Report
<1> HIDE DEF t, u
<1>4. /\ u.cursor = c /\ u.target = e /\ u.mode = "dump" /\ ~u.recording
      /\ u.buf_size = s.buf_size /\ u.said = "none"
  BY <1>2, <1>3 DEF Exit, Submit, Process
<1>5. Filling(u, d) /\ Paged(u, l) BY <1>4 DEF Filling, Paged
<1>6. RightFor(u, e) = RightFor(s, e) BY <1>4 DEF RightFor
<1>7. Tracking(u, d, l)
  <2>1. SUFFICES ASSUME NEW r \in u.io
                 PROVE  r.op = "chunk" /\ Tracked(u, d, l, "chunk")
    BY DEF Tracking
  <2>2. c.end = "" /\ r = Rq("chunk", c.cur_block, c.chunk)
    BY <1>2, <1>3, <2>1 DEF Exit, Submit, Process, Rq
  <2>3. r.op = "chunk" BY <2>2 DEF Rq
  <2>4. RightFor(u, e) /\ ~l.header_lost => Stands(u.cursor, e, d.data)
    BY <1>4, <1>6, <2>2 DEF DumpShows
  <2>5. QED BY <1>4, <2>3, <2>4 DEF Tracked
<1>8. Dumped(u, l)
  <2> DEFINE count == Len(c.shown)
             a == c.records_seen
  <2>1. SUFFICES ASSUME ~u.up, RightFor(u, e), ~l.header_lost
                 PROVE  /\ c.shown = Run(OwnerOf(e), 0, count)
                        /\ (u.rc = "ok") = (count = e.record_count)
                        /\ u.rc # "ok" =>
                             /\ EndsFull(e)
                             /\ e.record_count - count <= e.laid \div RecLen
    BY <1>4 DEF Dumped
  <2>2. DumpShows(c, e, d.data) BY <1>6, <2>1
  <2>3. a \in Nat /\ OwnerOf(e) \in Owners BY <1>1, CursorTyped, OwnerTyped
  <2>4. c.shown = Run(OwnerOf(e), 0, a) BY <2>2 DEF DumpShows
  <2>5. count = a
    <3> HIDE DEF a
    <3>1. Len(Run(OwnerOf(e), 0, a)) = a BY <2>3, RunTyped
    <3>2. QED BY <2>4, <3>1
  <2>6. CASE c.end # ""
    <3>1. c.end = "ok" /\ a = e.record_count BY <2>2, <2>6 DEF DumpShows
    <3>2. u.rc = "ok" BY <1>2, <1>3, <3>1 DEF Exit, Process
    <3>3. QED BY <2>4, <2>5, <3>1, <3>2
  <2>7. CASE c.end = ""
    <3>1. Stands(c, e, d.data) BY <2>2, <2>7 DEF DumpShows
    <3>2. c.cur_block + c.chunk > NumBlocks /\ u = Exit(t, "fail")
      BY <1>2, <1>3, <2>1, <2>7 DEF Submit, Process
    <3>3. u.rc = "fail" BY <1>2, <3>2 DEF Exit, Process
    <3>4. EndsFull(e) /\ e.record_count - a <= e.laid \div RecLen
      BY <1>1, <3>1, <3>2, StandsLast
    <3>5. a # e.record_count
      <4>1. a < c.target_count /\ c.target_count = e.record_count
        BY <3>1 DEF Stands
      <4>2. c.target_count \in Nat BY CursorTyped
      <4>3. QED BY <2>3, <4>1, <4>2
    <3> HIDE DEF count, a
    <3>6. QED BY <2>4, <2>5, <3>3, <3>4, <3>5
  <2>8. QED BY <2>6, <2>7
<1>9. QED BY <1>5, <1>7, <1>8 DEF Deep, u

LEMMA GoesPageDeep ==
    ASSUME NEW s \in Process, NEW d \in Disks, NEW l, NEW c \in Cursor,
           s.up, s.io = {}, s.said = "none", s.mode = "serve",
           s.request = "page", Filling(s, d),
           NEW g \in Slots, Fin(d, g), s.target = d.toc[g],
           RightFor(s, s.target) /\ ~l.header_lost =>
              PageShows(c, s.target, d.data)
    PROVE  Deep(Goes(s, "page", c), d, l)
<1> DEFINE e == s.target
           t == [s EXCEPT !.cursor = c]
           u == Goes(s, "page", c)
<1>2. /\ t.cursor = c /\ t.target = e /\ t.up /\ t.mode = "serve"
      /\ t.buf_size = s.buf_size /\ t.said = "none" /\ t.request = "page"
      /\ t.io = {} /\ t \in Process
  BY DEF Process
<1>0. Carries(s, t) BY EndsCarry
<1>3. u = IF c.end # "" THEN Fulfill(t, c.end)
          ELSE IF c.cur_block + c.chunk > NumBlocks THEN Fulfill(t, "fail")
          ELSE Submit(t, "page", c.cur_block, c.chunk)
  BY <1>2 DEF Goes, Report
<1> HIDE DEF t
<1>4. /\ u.cursor = c /\ u.target = e /\ u.mode = "serve"
      /\ u.buf_size = s.buf_size /\ Carries(t, u) /\ u.up
  <2>1. \/ \E rc : u = Fulfill(t, rc)
        \/ u = Submit(t, "page", c.cur_block, c.chunk)
    BY <1>3
  <2>2. ASSUME NEW rc, u = Fulfill(t, rc) 
        PROVE  /\ u.cursor = c /\ u.target = e /\ u.mode = "serve"
               /\ u.buf_size = s.buf_size /\ Carries(t, u) /\ u.up
    <3>1. Carries(t, u) BY <1>2, <2>2, EndsCarry
    <3>2. /\ u.cursor = t.cursor /\ u.target = t.target /\ u.mode = t.mode
          /\ u.buf_size = t.buf_size /\ u.up = t.up
      <4> HIDE DEF u
      <4>1. QED BY <1>2, <2>2, FulfillIs
    <3> HIDE DEF u
    <3>3. QED BY <1>2, <3>1, <3>2
  <2>3. ASSUME u = Submit(t, "page", c.cur_block, c.chunk) 
        PROVE  /\ u.cursor = c /\ u.target = e /\ u.mode = "serve"
               /\ u.buf_size = s.buf_size /\ Carries(t, u) /\ u.up
    <3>1. Carries(t, u) BY <1>2, <2>3, EndsCarry
    <3>2. QED BY <1>2, <2>3, <3>1 DEF Submit, Process
  <2>4. QED BY <2>1, <2>2, <2>3
<1> HIDE DEF u
<1>5. Filling(u, d)
  <2>1. Carries(s, u) BY <1>0, <1>4 DEF Carries
  <2>2. QED BY <2>1, FillingCarried
<1>6. Dumped(u, l) BY <1>4 DEF Dumped
<1>7. RightFor(u, e) = RightFor(s, e) BY <1>4 DEF RightFor
<1>8. Tracking(u, d, l)
  <2>1. SUFFICES ASSUME NEW r \in u.io
                 PROVE  r.op = "page" /\ Tracked(u, d, l, "page")
    BY DEF Tracking
  <2>2. c.end = "" /\ r = Rq("page", c.cur_block, c.chunk)
    BY <1>2, <1>3, <2>1 DEF Fulfill, Submit, Process, Rq
  <2>3. r.op = "page" BY <2>2 DEF Rq
  <2>4. RightFor(u, e) /\ ~l.header_lost =>
           Stands(u.cursor, e, d.data) /\ Roomy(u.cursor)
    BY <1>4, <1>7, <2>2 DEF PageShows
  <2>5. QED BY <1>4, <2>3, <2>4 DEF Tracked
<1>9. Paged(u, l)
  <2>1. SUFFICES ASSUME u.said = "page", u.rc = "ok", RightFor(u, e),
                        ~l.header_lost
                 PROVE  LET last == Min({c.req_offset + c.req_limit,
                                         e.record_count})
                        IN  /\ c.shown = Run(OwnerOf(e), c.req_offset, last)
                            /\ c.has_more = (last < e.record_count)
    BY <1>4 DEF Paged
  <2>2. PageShows(c, e, d.data) BY <1>7, <2>1
  <2>3. c.end = "ok"
    <3>1. CASE c.end # "" BY <2>2, <3>1 DEF PageShows
    <3>2. CASE c.end = ""
      <4>1. u = Fulfill(t, "fail") \/ u = Submit(t, "page", c.cur_block, c.chunk)
        BY <1>3, <3>2
      <4>2. u.rc = "fail" \/ u.said = "none"
        BY <1>2, <4>1 DEF Fulfill, Submit, Process
      <4>3. QED BY <2>1, <4>2
    <3>3. QED BY <3>1, <3>2
  <2>4. QED BY <2>2, <2>3 DEF PageShows
<1>10. QED BY <1>5, <1>6, <1>8, <1>9 DEF Deep, u

-----------------------------------------------------------------------------
(* Readers at an entry *)

LEMMA StartedShows ==
    ASSUME NEW e \in Entry, NEW z \in ChunkSizes, NEW data, Complete(data, e),
           e.laid = IF e.chunk # 0 THEN e.chunk ELSE z
    PROVE  DumpShows(Started(e, z), e, data)
<1> DEFINE c == Started(e, z)
           o == OwnerOf(e)
<1>1. /\ c.cur_block = e.start_block /\ c.chunk = e.laid
      /\ c.target_count = e.record_count /\ c.records_seen = 0
      /\ c.shown = <<>> /\ c.req_offset = 0
      /\ c.end = IF e.record_count = 0 THEN "ok" ELSE ""
  BY DEF Started, NoCursor
<1> HIDE DEF c
<1>2. e.record_count \in Nat BY DEF Entry
<1>3. Run(o, 0, 0) = <<>>
  <2>1. o \in Owners BY OwnerTyped
  <2> HIDE DEF o
  <2>2. QED BY <2>1, RunTyped
<1>4. PICK K, first : Row(data, e, K, first) BY DEF Complete
<1>5. e.start_block \in K /\ first[e.start_block] = 0
  BY <1>4 DEF Row, Chunked
<1>6. ASSUME e.record_count # 0 PROVE Stands(c, e, data)
  <2>0. 0 < e.record_count BY <1>2, <1>6
  <2>1. c.records_seen < c.target_count BY <1>1, <2>0, Zenon
  <2>2. \E J, f : /\ Row(data, e, J, f) /\ c.cur_block \in J
                  /\ f[c.cur_block] = c.records_seen
    BY <1>1, <1>4, <1>5
  <2>3. QED BY <1>1, <1>3, <2>1, <2>2 DEF Stands
<1>7. QED BY <1>1, <1>3, <1>6 DEF DumpShows, c

LEMMA PageStartedShows ==
    ASSUME NEW e \in Entry, NEW z \in ChunkSizes, NEW data, Complete(data, e),
           e.laid = IF e.chunk # 0 THEN e.chunk ELSE z,
           NEW f \in Nat, NEW n \in Nat, n > 0
    PROVE  PageShows(PageStarted(e, z, f, n), e, data)
<1> DEFINE b == Started(e, z)
           c == PageStarted(e, z, f, n)
           o == OwnerOf(e)
           count == e.record_count
           last == Min({f + n, count})
<1>1. /\ b.cur_block = e.start_block /\ b.chunk = e.laid
      /\ b.target_count = count /\ b.records_seen = 0
      /\ b.shown = <<>> /\ b.has_more = FALSE
      /\ b.end = IF count = 0 THEN "ok" ELSE ""
  BY DEF Started, NoCursor
<1>2. DumpShows(b, e, data) BY StartedShows
<1>3. /\ c.cur_block = b.cur_block /\ c.chunk = b.chunk
      /\ c.target_count = b.target_count /\ c.records_seen = 0
      /\ c.shown = <<>> /\ c.has_more = FALSE
      /\ c.req_offset = f /\ c.req_limit = n
      /\ c.end = IF count = 0 \/ f >= count THEN "ok" ELSE ""
  BY DEF PageStarted, Started, NoCursor
<1>4. count \in Nat /\ o \in Owners BY OwnerTyped DEF Entry
<1> HIDE DEF b, c, count, o
<1>5. last = IF f + n <= count THEN f + n ELSE count
  <2>1. f + n \in Int /\ count \in Int BY <1>4
  <2>2. QED BY <2>1, MinOfTwo
<1>6. ASSUME count = 0 \/ f >= count
      PROVE  /\ c.shown = Run(o, f, last) /\ c.has_more = (last < count)
  <2>1. last = count /\ last <= f BY <1>4, <1>5, <1>6
  <2>2. Run(o, f, last) = <<>>
    <3>1. last \in Nat BY <1>4, <2>1
    <3> HIDE DEF last
    <3>2. QED BY <1>4, <2>1, <3>1, RunTyped
  <2>3. (last < count) = FALSE BY <1>4, <2>1
  <2>4. QED BY <1>3, <2>2, <2>3
<1>7. ASSUME ~(count = 0 \/ f >= count)
      PROVE  Stands(c, e, data) /\ Roomy(c)
  <2>0. count # 0 /\ ~(f >= count) BY <1>7
  <2>8. f < count BY <1>4, <2>0
  <2>1. b.end = "" /\ f < count BY <1>1, <2>0, <2>8, Zenon
  <2>2. Stands(b, e, data) BY <1>2, <2>1 DEF DumpShows
  <2>3. Run(o, f, 0) = <<>> BY <1>4, RunTyped
  <2>4. Stands(c, e, data) BY <1>1, <1>3, <2>2, <2>3 DEF Stands, o
  <2>5. Len(c.shown) = 0 BY <1>3, EmptySeq
  <2>6. Roomy(c) BY <1>1, <1>3, <2>1, <2>5 DEF Roomy
  <2>7. QED BY <2>4, <2>6
<1>8. last = Min({c.req_offset + c.req_limit, e.record_count})
  BY <1>3 DEF count
<1> HIDE DEF last
<1>9. QED BY <1>3, <1>6, <1>7, <1>8 DEF PageShows, c, count, o

LEMMA DumpEntryDeep ==
    ASSUME NEW s \in Process, NEW d \in Disks, NEW l, NEW g \in Slots,
           s.up, s.io = {}, s.said = "none", s.mode = "dump", ~s.recording,
           Accepted(d.hdr), Consistent(d, l), Stocked(d, l),
           s.io_buf = d.toc[g]
    PROVE  Deep(DumpEntryRead(s), d, l)
<1> DEFINE e == s.io_buf
           t == [s EXCEPT !.target = s.io_buf]
           v == [t EXCEPT !.segment_id = s.io_buf.segment_id]
           c == Started(s.io_buf, s.buf_size)
           u == DumpEntryRead(s)
<1>1. e \in Entry BY DEF Disks
<1>2. /\ t \in Process /\ t.target = e /\ t.mode = "dump" /\ ~t.recording
  BY <1>1 DEF Process
<1>3. CASE ~(e.state = "FINALIZED" /\ Visible(e))
  <2>1. e.state # "FINALIZED"
    BY <1>3 DEF Stocked, Branded, Visible
  <2>2. ~Visible(e) \/ e.state = "OPEN" BY <1>1, <1>3 DEF Entry, Visible
  <2>3. u = Exit(t, "fail") \/ u = Exit(t, "ok")
    BY <2>2 DEF DumpEntryRead
  <2> HIDE DEF u, t
  <2>8. \A rc : LET x == Exit(t, rc)
               IN  /\ x.target = t.target /\ ~x.recording
                   /\ x.io = {} /\ x.said = "none"
    BY <1>2 DEF Exit, Process
  <2>4. /\ u.target = e /\ ~u.recording /\ u.io = {} /\ u.said = "none"
    BY <1>2, <2>3, <2>8
  <2> HIDE DEF e
  <2>5. Deep(u, d, l)
    BY <2>1, <2>4 DEF Deep, Filling, Tracking, Dumped, Paged
  <2>6. QED BY <2>5 DEF u
<1>4. CASE e.state = "FINALIZED" /\ Visible(e)
  <2>1. u = Goes(v, "chunk", c) BY <1>4 DEF DumpEntryRead
  <2>2. Fin(d, g) BY <1>4 DEF Fin
  <2>3. e.segment_id = g /\ e.start_block >= DataStart
    BY <2>2 DEF Consistent
  <2>4. /\ v \in Process /\ v.target = e /\ v.mode = "dump" /\ ~v.recording
        /\ v.up /\ v.io = {} /\ v.said = "none" /\ v.buf_size = s.buf_size
    BY <1>1, <2>3 DEF Process
  <2> HIDE DEF u, v, t
  <2>5. s.buf_size \in ChunkSizes BY DEF Process
  <2>6. c \in Cursor BY <1>1, <2>3, <2>5, StartedPlaced DEF Placed
  <2>7. c.req_offset = 0 BY DEF Started, NoCursor
  <2>8. ASSUME RightFor(v, v.target), ~l.header_lost
        PROVE  DumpShows(c, v.target, d.data)
    <3>1. Complete(d.data, e) BY <2>2, <2>8 DEF Stocked, Preserved
    <3>2. e.laid = IF e.chunk # 0 THEN e.chunk ELSE s.buf_size
      BY <2>4, <2>8 DEF RightFor
    <3> HIDE DEF e
    <3>3. QED BY <1>1, <2>4, <2>5, <3>1, <3>2, StartedShows DEF e
  <2> HIDE DEF c
  <2>9. v.target = d.toc[g] BY <2>4
  <2>10. Deep(Goes(v, "chunk", c), d, l)
    BY <2>2, <2>4, <2>6, <2>7, <2>8, <2>9, GoesDumpDeep
  <2>11. QED BY <2>1, <2>10 DEF u
<1>5. QED BY <1>3, <1>4

LEMMA PageEntryDeep ==
    ASSUME NEW s \in Process, NEW d \in Disks, NEW l, NEW g \in Slots,
           s.up, s.io = {}, s.said = "none", s.mode = "serve",
           s.request = "page", Filling(s, d), s.cursor.req_limit > 0,
           Accepted(d.hdr), Consistent(d, l), Stocked(d, l),
           s.io_buf = d.toc[g]
    PROVE  Deep(PageEntryRead(s), d, l)
<1> DEFINE e == s.io_buf
           t == [s EXCEPT !.target = s.io_buf]
           f == s.cursor.req_offset
           n == s.cursor.req_limit
           c == PageStarted(s.io_buf, s.buf_size, f, n)
           u == PageEntryRead(s)
<1>1. e \in Entry /\ f \in Nat /\ n \in Nat /\ s.buf_size \in ChunkSizes
  <2>1. s.cursor \in Cursor BY DEF Process
  <2>2. f \in Nat /\ n \in Nat BY <2>1, CursorTyped
  <2>3. QED BY <2>2 DEF Disks, Process
<1>2. /\ t \in Process /\ t.target = e /\ t.mode = "serve" /\ t.up
      /\ t.io = {} /\ t.said = "none" /\ t.request = "page"
      /\ t.buf_size = s.buf_size
  BY <1>1 DEF Process
<1>3. Carries(s, t) BY DEF Carries, Process
<1>4. Filling(t, d) BY <1>3, FillingCarried
<1>5. u = IF ~Visible(e) \/ e.state = "OPEN" THEN Fulfill(t, "fail")
          ELSE Goes(t, "page", c)
  BY DEF PageEntryRead
<1> HIDE DEF t, u
<1>6. CASE ~Visible(e) \/ e.state = "OPEN"
  <2>1. u = Fulfill(t, "fail") BY <1>5, <1>6
  <2>2. Carries(t, u) BY <1>2, <2>1, EndsCarry
  <2>3. Filling(u, d) BY <1>4, <2>2, FillingCarried
  <2>4. u.io = {} /\ u.rc = "fail" /\ u.mode = "serve"
    BY <1>2, <2>1, FulfillIs
  <2>5. QED BY <2>3, <2>4 DEF Deep, Tracking, Dumped, Paged, u
<1>7. CASE ~(~Visible(e) \/ e.state = "OPEN")
  <2>1. u = Goes(t, "page", c) BY <1>5, <1>7
  <2>2. Fin(d, g)
    <3>1. e.state = "FINALIZED" BY <1>1, <1>7 DEF Entry, Visible
    <3>2. QED BY <1>7, <3>1 DEF Fin
  <2>3. e.start_block >= DataStart BY <2>2 DEF Consistent
  <2>6. c \in Cursor
    <3> HIDE DEF e, f, n
    <3>1. QED BY <1>1, <2>3, PageStartedPlaced DEF Placed, e
  <2>8. ASSUME RightFor(t, t.target), ~l.header_lost
        PROVE  PageShows(c, t.target, d.data)
    <3>1. Complete(d.data, e) BY <2>2, <2>8 DEF Stocked, Preserved
    <3>2. e.laid = IF e.chunk # 0 THEN e.chunk ELSE s.buf_size
      BY <1>2, <2>8 DEF RightFor
    <3>3. n > 0 OBVIOUS
    <3> HIDE DEF e, f, n
    <3>4. QED BY <1>1, <1>2, <3>1, <3>2, <3>3, PageStartedShows DEF e
  <2> HIDE DEF c
  <2>9. t.target = d.toc[g] BY <1>2
  <2>10. Deep(Goes(t, "page", c), d, l)
    BY <1>2, <1>4, <2>2, <2>6, <2>8, <2>9, GoesPageDeep
  <2>11. QED BY <2>1, <2>10 DEF u
<1>8. QED BY <1>6, <1>7

-----------------------------------------------------------------------------
(* Chains that record and show nothing *)

Readings == {"header", "entry", "pageEntry", "chunk", "page"}

\* A chain of another kind, with no recording under way.
Mild(s, t) ==
    /\ ~t.recording /\ t.mode = s.mode
    /\ \A r \in t.io : r.op \notin Readings
    /\ t.said \in {s.said, "none"} \/ (t.said = s.request /\ s.mode = "serve")

LEMMA MildEnds ==
    ASSUME NEW s \in Process, ~s.recording, s.io = {}
    PROVE  /\ \A rc : /\ Mild(s, Exit(s, rc)) /\ Mild(s, Report(s, rc))
                      /\ s.mode = "serve" => Mild(s, Fulfill(s, rc))
           /\ \A op, at, n : op \notin Readings => Mild(s, Submit(s, op, at, n))
<1>1. \A rc : Mild(s, Exit(s, rc)) BY DEF Mild, Exit, Process
<1>2. \A rc : s.mode = "serve" => Mild(s, Fulfill(s, rc))
  BY DEF Mild, Fulfill, Process
<1>3. ASSUME NEW op, NEW at, NEW n, op \notin Readings
      PROVE  Mild(s, Submit(s, op, at, n))
  <2> DEFINE t == Submit(s, op, at, n)
  <2>1. t.io = {Rq(op, at, n)} BY DEF Submit, Process, Rq
  <2>2. \A r \in t.io : r.op = op BY <2>1 DEF Rq
  <2>3. ~t.recording /\ t.mode = s.mode /\ t.said = s.said
    BY DEF Submit, Process
  <2> HIDE DEF t
  <2>4. Mild(s, t) BY <1>3, <2>2, <2>3 DEF Mild
  <2>5. QED BY <2>4 DEF t
<1>4. QED BY <1>1, <1>2, <1>3 DEF Report

\* Steps that leave the recording, the request and the mode alone.
LEMMA MildFrom ==
    ASSUME NEW s, NEW t, NEW u, t.mode = s.mode, t.said = s.said,
           t.request = s.request, Mild(t, u)
    PROVE  Mild(s, u)
  BY DEF Mild

LEMMA MildFormats ==
    ASSUME NEW s \in Process, ~s.recording, s.io = {}
    PROVE  Mild(s, InitZero(s)) /\ Mild(s, QuickFormatZero(s))
<1> DEFINE t == [s EXCEPT !.vol_buf = s.vol]
           v == [s EXCEPT !.vol_buf = s.staged]
           w == [s EXCEPT !.io_buf = FreeEntry]
<1>1. /\ t \in Process /\ v \in Process /\ w \in Process
      /\ \A x \in {t, v, w} : /\ ~x.recording /\ x.io = {} /\ x.mode = s.mode
                              /\ x.said = s.said /\ x.request = s.request
  BY Plain DEF Process
<1>2. "initHdr" \notin Readings /\ "zero" \notin Readings
      /\ "qfHdr" \notin Readings /\ "qfZero" \notin Readings
  BY DEF Readings
<1>3. InitZero(s) = IF s.init_cur_block >= DataStart
                    THEN Submit(t, "initHdr", 0, 1)
                    ELSE Submit(s, "zero", s.init_cur_block,
                                Min({ZeroBlocks, DataStart - s.init_cur_block}))
  BY DEF InitZero
<1>4. QuickFormatZero(s) =
         IF s.init_cur_block >= DataStart
         THEN Submit(v, "qfHdr", 0, 1)
         ELSE Submit(w, "qfZero", s.init_cur_block,
                     Min({ZeroBlocks, DataStart - s.init_cur_block}))
  BY DEF QuickFormatZero
<1> HIDE DEF t, v, w
<1>5. \A op, at, n : op \notin Readings =>
         /\ Mild(s, Submit(s, op, at, n)) /\ Mild(s, Submit(t, op, at, n))
         /\ Mild(s, Submit(v, op, at, n)) /\ Mild(s, Submit(w, op, at, n))
  <2>1. SUFFICES ASSUME NEW op, NEW at, NEW n, op \notin Readings,
                        NEW x \in {s, t, v, w}
                 PROVE  Mild(s, Submit(x, op, at, n))
    OBVIOUS
  <2>2. /\ x \in Process /\ ~x.recording /\ x.io = {} /\ x.mode = s.mode
        /\ x.said = s.said /\ x.request = s.request
    BY <1>1
  <2>3. Mild(x, Submit(x, op, at, n)) BY <2>1, <2>2, MildEnds
  <2>4. QED BY <2>2, <2>3, MildFrom
<1>6. QED BY <1>2, <1>3, <1>4, <1>5

LEMMA MildClaim ==
    ASSUME NEW s \in Process, ~s.recording, s.io = {}
    PROVE  Mild(s, ClaimSegmentStart(s)) /\ Mild(s, ClaimTocDone(s))
<1>0. "claimToc" \notin Readings /\ "claimHdr" \notin Readings BY DEF Readings
<1>1. Mild(s, ClaimSegmentStart(s))
  <2> DEFINE id == s.vol.next_segment_id
             e == [FreeEntry EXCEPT !.magic = TRUE,
                          !.state = "OPEN", !.segment_id = id,
                          !.start_block = s.vol.next_data_block,
                          !.chunk = s.buf_size, !.laid = s.buf_size,
                          !.era = s.vol.era]
             t == [s EXCEPT !.segment_id = id,
                       !.segment_start_block = s.vol.next_data_block,
                       !.io_buf = e]
             u == ClaimSegmentStart(s)
  <2>1. u = IF id >= SegmentSlots THEN Report(s, "fail")
            ELSE Submit(t, "claimToc", s.vol.toc_start + id, 1)
    BY DEF ClaimSegmentStart
  <2> HIDE DEF u, e
  <2>2. CASE id >= SegmentSlots BY <2>1, <2>2, MildEnds DEF u
  <2>3. CASE ~(id >= SegmentSlots)
    <3> DEFINE at == s.vol.toc_start + id
    <3>0. u = Submit(t, "claimToc", at, 1) BY <2>1, <2>3
    <3> HIDE DEF at, id
    <3>1. /\ ~u.recording /\ u.mode = s.mode /\ u.said = s.said
          /\ u.io = {Rq("claimToc", at, 1)}
      BY <3>0 DEF Submit, Process, Rq
    <3>2. \A r \in u.io : r.op = "claimToc" BY <3>1 DEF Rq
    <3>3. Mild(s, u) BY <1>0, <3>1, <3>2 DEF Mild
    <3>4. QED BY <3>3 DEF u
  <2>4. QED BY <2>2, <2>3
<1>2. Mild(s, ClaimTocDone(s))
  <2> DEFINE w == [s.vol EXCEPT !.next_segment_id = @ + 1]
             t == [s EXCEPT !.vol = w, !.vol_buf = w]
             u == ClaimTocDone(s)
  <2>1. u = Submit(t, "claimHdr", 0, 1) BY DEF ClaimTocDone
  <2> HIDE DEF u, w
  <2>2. /\ ~u.recording /\ u.mode = s.mode /\ u.said = s.said
        /\ u.io = {Rq("claimHdr", 0, 1)}
    BY <2>1 DEF Submit, Process, Rq
  <2>3. \A r \in u.io : r.op = "claimHdr" BY <2>2 DEF Rq
  <2>4. QED BY <1>0, <2>2, <2>3 DEF Mild, u
<1>3. QED BY <1>1, <1>2

LEMMA MildReads ==
    ASSUME NEW s \in Process, ~s.recording, s.io = {}
    PROVE  Mild(s, ListNext(s)) /\ \A z : Mild(s, RepairEntryRead(s, z))
<1>0. "list" \notin Readings /\ "repair" \notin Readings BY DEF Readings
<1>1. Mild(s, ListNext(s)) BY <1>0, MildEnds DEF ListNext
<1>2. ASSUME NEW z PROVE Mild(s, RepairEntryRead(s, z))
  <2> DEFINE t == [s EXCEPT !.io_buf.chunk = z]
             at == s.vol.toc_start + s.dump_segment_id
             u == RepairEntryRead(s, z)
  <2>1. \/ \E rc : u = Exit(s, rc)
        \/ u = Submit(t, "repair", at, 1)
    BY DEF RepairEntryRead
  <2> HIDE DEF u, at
  <2>2. ASSUME u = Submit(t, "repair", at, 1) PROVE Mild(s, u)
    <3>1. /\ ~u.recording /\ u.mode = s.mode /\ u.said = s.said
          /\ u.io = {Rq("repair", at, 1)}
      BY <2>2 DEF Submit, Process, Rq
    <3>2. \A r \in u.io : r.op = "repair" BY <3>1 DEF Rq
    <3>3. QED BY <1>0, <3>1, <3>2 DEF Mild
  <2>3. Mild(s, u) BY <2>1, <2>2, MildEnds
  <2>4. QED BY <2>3 DEF u
<1>3. QED BY <1>1, <1>2

\* Such chains keep what is said of the data.
LEMMA MildDeep ==
    ASSUME NEW s, NEW t, NEW d, NEW l, Mild(s, t), s.mode # "dump",
           s.said = "none", s.mode = "serve" => s.request # "page"
    PROVE  Deep(t, d, l)
<1>1. t.said # "page" /\ t.mode # "dump" /\ ~t.recording BY DEF Mild
<1>2. Tracking(t, d, l) BY DEF Mild, Tracking, Readings
<1>3. QED BY <1>1, <1>2 DEF Deep, Filling, Dumped, Paged

\* A process that only goes on recording, or has failed.
LEMMA QuietDeep ==
    ASSUME NEW s, NEW t, NEW d, NEW D, NEW l, Filling(s, d), Carries(s, t),
           D.data = d.data, \A r \in t.io : r.op \notin Readings,
           t.mode # "dump" \/ t.rc = "none" \/ t.faulted \/ t.up
              \/ t.target.state # "FINALIZED",
           t.said # "page" \/ t.rc # "ok"
    PROVE  Deep(t, D, l)
<1>1. Filling(t, D) BY FillingCarried
<1>2. Tracking(t, D, l) BY DEF Tracking, Readings
<1>3. Dumped(t, l) /\ Paged(t, l) BY DEF Dumped, Paged
<1>4. QED BY <1>1, <1>2, <1>3 DEF Deep

-----------------------------------------------------------------------------
(* What writes of the header and of entries leave *)

\* A repair changes nothing a reader of the right size needs.
LEMMA CompleteSame ==
    ASSUME NEW data, NEW e, NEW f, Complete(data, e), f.era = e.era,
           f.segment_id = e.segment_id, f.start_block = e.start_block,
           f.block_count = e.block_count, f.record_count = e.record_count,
           f.laid = e.laid
    PROVE  Complete(data, f)
<1>1. OwnerOf(f) = OwnerOf(e) /\ End(f) = End(e) BY DEF OwnerOf, Owner, End
<1>2. \A K, first : Row(data, e, K, first) => Row(data, f, K, first)
  BY <1>1 DEF Row
<1>3. QED BY <1>2 DEF Complete

\* What a finalize enters is on the device.
LEMMA EnteredComplete ==
    ASSUME NEW s \in Process, NEW d, s.up, s.recording, Filling(s, d)
    PROVE  Complete(d.data, Entered(s))
<1> DEFINE e == Entered(s)
           L == s.next_write_block
           size == s.buf_size
           o == Owner(s.vol.era, s.segment_id)
<1>1. PICK K, first :
        /\ Chunked(d.data, o, s.segment_start_block, L, size, K, first)
        /\ Short(L, size, first[L], s.record_count)
  BY DEF Filling
<1>2. /\ e.segment_id = s.segment_id /\ e.start_block = s.segment_start_block
      /\ e.block_count = L - s.segment_start_block
      /\ e.record_count = s.record_count /\ e.laid = size /\ e.era = s.vol.era
  BY EnteredTyped
<1>3. L \in Nat /\ s.segment_start_block \in Nat /\ size > 0
  BY Geometry DEF Process
<1> HIDE DEF e
<1>4. End(e) = L BY <1>2, <1>3 DEF End
<1>5. OwnerOf(e) = o BY <1>2 DEF OwnerOf
<1>6. Row(d.data, e, K, first) BY <1>1, <1>2, <1>4, <1>5 DEF Row
<1>7. QED BY <1>2, <1>3, <1>6 DEF Complete, e

\* Entries that are those of before, or not finalized.
LEMMA StockedBySame ==
    ASSUME NEW d, NEW D, NEW l, Stocked(d, l), D.data = d.data,
           Accepted(D.hdr) => Accepted(d.hdr),
           \A g \in Slots : D.toc[g] = d.toc[g] \/ D.toc[g].state # "FINALIZED"
    PROVE  Stocked(D, l)
<1>1. Branded(D) BY DEF Stocked, Branded
<1>2. Preserved(D, l) BY DEF Stocked, Preserved, Fin
<1>3. QED BY <1>1, <1>2 DEF Stocked

LEMMA HeaderWriteStocked ==
    ASSUME VolumeInv, Stocked(disk, load), NEW r \in p.io,
           r.op \in {"initHdr", "qfHdr", "claimHdr", "finHdr"},
           NEW B \in SUBSET Blocks(r)
    PROVE  Stocked(Performed(r, B), load)
<1> DEFINE D == Performed(r, B)
<1>1. disk \in Disks /\ p \in Process BY ReadSafe
<1>2. r = Rq(r.op, 0, 1) BY Stage
<1>3. D.toc = disk.toc BY <1>1, <1>2, HeaderWritten
<1>4. D.data = disk.data BY <1>1 DEF Performed, Disks
<1> HIDE DEF D
<1>5. CASE r.op \in {"initHdr", "qfHdr"}
  <2>1. Cleared(disk, DataStart) BY <1>5, Stage
  <2>2. \A g \in Slots : ~Visible(D.toc[g])
    BY <1>3, <2>1, SlotBlock DEF Cleared
  <2>3. Branded(D) BY <1>3 DEF Stocked, Branded
  <2>4. Preserved(D, load) BY <2>2 DEF Preserved, Fin
  <2>5. QED BY <2>3, <2>4 DEF Stocked, D
<1>6. CASE r.op \in {"claimHdr", "finHdr"}
  <2>1. Mounted(p, disk)
    BY <1>6, Stage DEF HeaderDue, Claimed, Stopping, Session
  <2>2. Accepted(disk.hdr) BY <2>1 DEF Mounted
  <2>3. Stocked(D, load) BY <1>3, <1>4, <2>2, StockedBySame
  <2>4. QED BY <2>3 DEF D
<1>7. QED BY <1>5, <1>6

LEMMA EntryWriteStocked ==
    ASSUME VolumeInv, Stocked(disk, load), Filling(p, disk), NEW r \in p.io,
           r.op \in {"claimToc", "finToc", "repair"}, NEW B \in SUBSET Blocks(r)
    PROVE  Stocked(Performed(r, B), load)
<1> DEFINE D == Performed(r, B)
           k == IF r.op = "repair" THEN p.dump_segment_id ELSE p.segment_id
<1>1. disk \in Disks /\ p \in Process BY ReadSafe
<1>2. k \in Slots BY <1>1 DEF Process
<1>3. r = Rq(r.op, TocStart + k, 1) BY Stage
<1>4. D.data = disk.data BY <1>1 DEF Performed, Disks
<1> HIDE DEF k
<1>5. /\ D.hdr = disk.hdr
      /\ \A g \in Slots : g # k => D.toc[g] = disk.toc[g]
      /\ (D.toc[k] = disk.toc[k] \/ D.toc[k] = p.io_buf)
  BY <1>1, <1>2, <1>3, EntryWritten
<1> HIDE DEF D
<1>6. CASE D.toc[k] = disk.toc[k] \/ r.op = "claimToc"
  <2>1. \A g \in Slots :
           D.toc[g] = disk.toc[g] \/ D.toc[g].state # "FINALIZED"
    <3>1. r.op = "claimToc" => p.io_buf.state = "OPEN" BY Stage
    <3>2. QED BY <1>5, <1>6, <3>1
  <2>2. Stocked(D, load) BY <1>4, <1>5, <2>1, StockedBySame
  <2>3. QED BY <2>2 DEF D
<1>7. ASSUME D.toc[k] = p.io_buf, p.io_buf.magic,
             Accepted(disk.hdr) /\ ~load.header_lost =>
                Complete(disk.data, p.io_buf)
      PROVE  Stocked(D, load)
  <2>1. Branded(D) BY <1>5, <1>7 DEF Stocked, Branded
  <2>2. Preserved(D, load)
    <3>1. SUFFICES ASSUME Accepted(D.hdr), ~load.header_lost, NEW g \in Slots,
                          Fin(D, g)
                   PROVE  Complete(D.data, D.toc[g])
      BY DEF Preserved
    <3>2. CASE g = k BY <1>4, <1>5, <1>7, <3>1, <3>2
    <3>3. CASE g # k
      <4>1. D.toc[g] = disk.toc[g] BY <1>5, <3>3
      <4>2. Fin(disk, g) BY <3>1, <4>1 DEF Fin
      <4>3. Complete(disk.data, disk.toc[g])
        BY <1>5, <3>1, <4>2 DEF Stocked, Preserved
      <4>4. QED BY <1>4, <4>1, <4>3
    <3>4. QED BY <3>2, <3>3
  <2>3. QED BY <2>1, <2>2 DEF Stocked
<1>8. CASE D.toc[k] = p.io_buf /\ r.op = "finToc"
  <2>1. Stopping(p, disk, load) /\ p.io_buf = Entered(p) /\ p.up BY <1>8, Stage
  <2>2. p.recording BY <2>1 DEF Stopping, Session
  <2>3. Complete(disk.data, p.io_buf) BY <1>1, <2>1, <2>2, EnteredComplete
  <2>4. p.io_buf.magic BY <1>1, <2>1, EnteredTyped
  <2>5. QED BY <1>7, <1>8, <2>3, <2>4 DEF D
<1>9. CASE D.toc[k] = p.io_buf /\ r.op = "repair"
  <2> DEFINE e == disk.toc[p.dump_segment_id]
             f == p.io_buf
  <2>1. /\ Fin(disk, p.dump_segment_id)
        /\ f = [e EXCEPT !.chunk = f.chunk]
    BY <1>9, Stage
  <2>2. e \in Entry /\ p.dump_segment_id \in Slots BY <1>1 DEF Disks, Process
  <2> DEFINE z == f.chunk
  <2>3. f = [e EXCEPT !.chunk = z] BY <2>1
  <2> HIDE DEF z, f, e
  <2>4. /\ f.magic = e.magic /\ f.era = e.era /\ f.segment_id = e.segment_id
        /\ f.start_block = e.start_block /\ f.block_count = e.block_count
        /\ f.record_count = e.record_count /\ f.laid = e.laid
    BY <2>2, <2>3 DEF Entry
  <2>5. f.magic BY <2>1, <2>4 DEF Fin, Visible, e
  <2>6. ASSUME Accepted(disk.hdr), ~load.header_lost
        PROVE  Complete(disk.data, f)
    <3>1. Complete(disk.data, e)
      BY <2>1, <2>2, <2>6 DEF Stocked, Preserved, e
    <3>2. QED BY <2>4, <3>1, CompleteSame
  <2>7. QED BY <1>7, <1>9, <2>5, <2>6 DEF D, f
<1>10. QED BY <1>5, <1>6, <1>8, <1>9

LEMMA WriteStocked ==
    ASSUME VolumeInv, Stocked(disk, load), Filling(p, disk), NEW r \in p.io,
           r.op \in Writes, NEW B \in SUBSET Blocks(r)
    PROVE  Stocked(Performed(r, B), load)
<1>1. \/ r.op \in {"zero", "qfZero"}
      \/ r.op \in {"initHdr", "qfHdr", "claimHdr", "finHdr"}
      \/ r.op \in {"claimToc", "finToc", "repair"}
  BY DEF Writes
<1>2. CASE r.op \in {"zero", "qfZero"}
  <2> DEFINE D == Performed(r, B)
  <2>1. disk \in Disks /\ p \in Process BY ReadSafe
  <2>2. p.io_buf = FreeEntry BY <1>2, Stage
  <2>3. D.hdr = disk.hdr BY <1>2, ZeroWriteSafe
  <2>4. D.data = disk.data BY <2>1 DEF Performed, Disks
  <2>5. \A g \in Slots :
           D.toc[g] \in {disk.toc[g], p.io_buf, FreeEntry}
    BY <2>1, PerformedIs
  <2>6. FreeEntry.state = "FREE" BY DEF FreeEntry
  <2> HIDE DEF D
  <2>7. \A g \in Slots :
           D.toc[g] = disk.toc[g] \/ D.toc[g].state # "FINALIZED"
    BY <2>2, <2>5, <2>6
  <2>8. Stocked(D, load) BY <2>3, <2>4, <2>7, StockedBySame
  <2>9. QED BY <2>8 DEF D
<1>3. QED BY <1>1, <1>2, HeaderWriteStocked, EntryWriteStocked

-----------------------------------------------------------------------------
(* An I/O succeeds *)

LEMMA FilledAlike ==
    ASSUME VolumeInv, NEW r \in p.io
    PROVE  LET s == Filled(r)
           IN  /\ Carries(p, s) /\ s.target = p.target /\ s.mode = p.mode
               /\ s.recording = p.recording /\ s.request = p.request
               /\ s.vol = p.vol
<1>1. p \in Process BY ReadSafe
<1>2. Filled(r).target = p.target BY <1>1 DEF Filled, Process
<1>3. LET s == Filled(r)
      IN  Footing(p, s) /\ Same(p, s) /\ s.buf_size = p.buf_size
          /\ s.record_count = p.record_count
  BY FilledIs
<1>4. QED BY <1>2, <1>3 DEF Footing, Same, Carries

LEMMA CheckDeep ==
    ASSUME VolumeInv, NEW r \in p.io, r.op = "check", NEW n \in Nat, NEW d, NEW l
    PROVE  Deep(InitChecked(Filled(r), n), d, l)
<1> DEFINE s == Filled(r)
           t == [s EXCEPT !.vol = FreshHeader(n), !.init_cur_block = TocStart]
           u == InitChecked(s, n)
<1>1. s \in Process /\ s.io = {} /\ s.said = "none" BY FilledIs
<1>2. s.mode \in {"init", "force"} /\ ~s.recording BY FilledAlike, Stage
<1> HIDE DEF s
<1>3. /\ t \in Process /\ t.io = {} /\ ~t.recording /\ t.mode = s.mode
      /\ t.said = s.said /\ t.request = s.request
  BY <1>1, <1>2, Fresh, Geometry DEF Process
<1>4. u = Exit(s, "fail") \/ u = InitZero(t) BY DEF InitChecked
<1> HIDE DEF t, u
<1>5. Mild(t, InitZero(t)) BY <1>3, MildFormats
<1>6. Mild(s, u) BY <1>1, <1>2, <1>3, <1>4, <1>5, MildEnds, MildFrom
<1>7. Deep(u, d, l) BY <1>1, <1>2, <1>6, MildDeep
<1>8. QED BY <1>7 DEF u, s

LEMMA ZeroDeep ==
    ASSUME VolumeInv, NEW r \in p.io, NEW d, NEW l
    PROVE  /\ r.op = "zero" => Deep(InitZeroed(Filled(r)), d, l)
           /\ r.op = "qfZero" => Deep(QuickFormatZeroed(Filled(r)), d, l)
<1> DEFINE s == Filled(r)
           n == Min({ZeroBlocks, DataStart - s.init_cur_block})
           c == s.init_cur_block + n
           t == [s EXCEPT !.init_cur_block = c]
<1>1. SUFFICES ASSUME r.op \in {"zero", "qfZero"}
               PROVE  /\ r.op = "zero" => Deep(InitZeroed(s), d, l)
                      /\ r.op = "qfZero" => Deep(QuickFormatZeroed(s), d, l)
  OBVIOUS
<1>2. s \in Process /\ s.io = {} /\ s.said = "none"
      /\ s.init_cur_block = p.init_cur_block
  BY FilledIs
<1>3. /\ ~s.recording /\ s.mode # "dump"
      /\ s.mode = "serve" => s.request # "page"
  <2>1. r.op = "zero" => p.mode \in {"init", "force"} /\ ~p.recording
    BY Stage
  <2>2. r.op = "qfZero" =>
           p.mode = "serve" /\ p.request = "format" /\ ~p.recording
    BY Stage DEF Renews, Resting
  <2>3. s.mode = p.mode /\ s.recording = p.recording /\ s.request = p.request
    BY FilledAlike
  <2> HIDE DEF s
  <2>4. QED BY <1>1, <2>1, <2>2, <2>3
<1>4. Zeroing(p, r.op) BY <1>1, Stage
<1>5. c \in Nat
  <2>1. s.init_cur_block \in Nat BY <1>2 DEF Process
  <2>2. TocStart <= s.init_cur_block /\ s.init_cur_block < DataStart
    BY <1>2, <1>4 DEF Zeroing
  <2>3. n \in Nat
    <3> DEFINE b == s.init_cur_block
    <3>1. b \in Nat /\ TocStart <= b /\ b < DataStart BY <2>1, <2>2
    <3> HIDE DEF b
    <3>2. Min({ZeroBlocks, DataStart - b}) \in Nat BY <3>1, ZeroLength
    <3>3. QED BY <3>2 DEF b
  <2> HIDE DEF n
  <2>4. QED BY <2>1, <2>3
<1> HIDE DEF c
<1>6. InitZeroed(s) = InitZero(t) /\ QuickFormatZeroed(s) = QuickFormatZero(t)
  BY DEF InitZeroed, QuickFormatZeroed, c
<1> HIDE DEF s
<1>7. /\ t \in Process /\ t.io = {} /\ ~t.recording /\ t.mode = s.mode
      /\ t.said = "none" /\ t.request = s.request
  BY <1>2, <1>3, <1>5 DEF Process
<1> HIDE DEF t
<1>8. Mild(t, InitZero(t)) /\ Mild(t, QuickFormatZero(t))
  BY <1>7, MildFormats
<1>9. Deep(InitZero(t), d, l) /\ Deep(QuickFormatZero(t), d, l)
  BY <1>3, <1>7, <1>8, MildDeep
<1>10. QED BY <1>6, <1>9

LEMMA QuickFormatHeaderDeep ==
    ASSUME VolumeInv, NEW r \in p.io, r.op = "qfHdr", NEW d, NEW l
    PROVE  Deep(QuickFormatDone(Filled(r)), d, l)
<1> DEFINE s == Filled(r)
           t == [s EXCEPT !.vol = s.staged, !.next_write_block = DataStart,
                          !.record_count = 0]
<1>1. s \in Process /\ s.io = {} /\ s.said = "none" BY FilledIs
<1>2. s.mode = "serve" /\ s.request = "format" /\ ~s.recording
  BY FilledAlike, Stage DEF Renews, Resting
<1> HIDE DEF s
<1>3. /\ t \in Process /\ t.io = {} /\ ~t.recording /\ t.mode = "serve"
      /\ t.said = "none" /\ t.request = "format"
  BY <1>1, <1>2, Geometry DEF Process
<1>4. QuickFormatDone(s) = Fulfill(t, "ok") BY DEF QuickFormatDone
<1> HIDE DEF t
<1>5. Mild(t, Fulfill(t, "ok")) BY <1>3, MildEnds
<1>6. Deep(Fulfill(t, "ok"), d, l) BY <1>3, <1>5, MildDeep
<1>7. QED BY <1>4, <1>6 DEF s

LEMMA HeaderDeep ==
    ASSUME VolumeInv, Deep(p, disk, load), NEW r \in p.io, r.op = "header"
    PROVE  Deep(HeaderRead(Filled(r)), disk, load)
<1> DEFINE s == Filled(r)
           t == [s EXCEPT !.vol = s.vol_buf]
           u == HeaderRead(s)
<1>1. s \in Process /\ s.io = {} /\ s.said = "none" /\ s.up BY FilledIs
<1>2. /\ s.mode \notin {"init", "force"} /\ ~s.recording
      /\ s.request = "none" /\ s.target = p.target
  BY FilledAlike, Stage DEF Opening
<1>3. s.target.state # "FINALIZED" BY <1>2 DEF Deep, Tracking
<1> HIDE DEF s
<1>4. /\ t \in Process /\ t.io = {} /\ ~t.recording /\ t.mode = s.mode
      /\ t.said = "none" /\ t.request = "none" /\ t.target = s.target /\ t.up
  BY <1>1, <1>2 DEF Process
<1>5. \/ u = Exit(s, "fail") \/ u = t
      \/ t.mode = "capture" /\ u = ClaimSegmentStart(t)
      \/ t.mode = "list" /\ u = ListNext(t)
      \/ u = Submit(t, "entry", t.vol.toc_start + t.dump_segment_id, 1)
  <2>1. s.mode \in {"serve", "capture", "list", "dump", "repair"}
    BY <1>1, <1>2 DEF Process, Modes
  <2>2. QED BY <1>4, <2>1 DEF HeaderRead
<1> HIDE DEF t, u
<1>6. CASE u = Exit(s, "fail")
  <2>1. /\ ~u.recording /\ u.io = {} /\ u.said = "none"
        /\ u.target = s.target
    BY <1>1, <1>6 DEF Exit, Process
  <2>2. Deep(u, disk, load)
    BY <1>3, <2>1 DEF Deep, Filling, Tracking, Dumped, Paged
  <2>3. QED BY <2>2 DEF u, s
<1>7. CASE u = t
  <2>1. Deep(u, disk, load)
    BY <1>4, <1>7 DEF Deep, Filling, Tracking, Dumped, Paged
  <2>2. QED BY <2>1 DEF u, s
<1>8. CASE t.mode = "capture" /\ u = ClaimSegmentStart(t)
  <2>1. Mild(t, u) BY <1>4, <1>8, MildClaim
  <2>2. Deep(u, disk, load) BY <1>4, <1>8, <2>1, MildDeep
  <2>3. QED BY <2>2 DEF u, s
<1>9. CASE t.mode = "list" /\ u = ListNext(t)
  <2>1. Mild(t, u) BY <1>4, <1>9, MildReads
  <2>2. Deep(u, disk, load) BY <1>4, <1>9, <2>1, MildDeep
  <2>3. QED BY <2>2 DEF u, s
<1>10. CASE u = Submit(t, "entry", t.vol.toc_start + t.dump_segment_id, 1)
  <2> DEFINE at == t.vol.toc_start + t.dump_segment_id
  <2>0. u = Submit(t, "entry", at, 1) BY <1>10
  <2> HIDE DEF at
  <2>1. /\ ~u.recording /\ u.said = "none" /\ u.up /\ u.target = s.target
        /\ u.io = {Rq("entry", at, 1)}
    BY <1>4, <2>0 DEF Submit, Process, Rq
  <2>2. \A q \in u.io : q.op = "entry" BY <2>1 DEF Rq
  <2>3. Deep(u, disk, load)
    BY <1>3, <2>1, <2>2 DEF Deep, Filling, Tracking, Dumped, Paged
  <2>4. QED BY <2>3 DEF u, s
<1>11. QED BY <1>5, <1>6, <1>7, <1>8, <1>9, <1>10

LEMMA ClaimEntryDeep ==
    ASSUME VolumeInv, NEW r \in p.io, r.op = "claimToc", NEW d, NEW l
    PROVE  Deep(ClaimTocDone(Filled(r)), d, l)
<1> DEFINE s == Filled(r)
<1>1. s \in Process /\ s.io = {} /\ s.said = "none" BY FilledIs
<1>2. EntryDue(p, disk, load) BY Stage
<1>3. /\ ~s.recording /\ s.mode # "dump"
      /\ s.mode = "serve" => s.request # "page"
  BY <1>2, FilledAlike DEF EntryDue, Claimed, Recorder
<1> HIDE DEF s
<1>4. Mild(s, ClaimTocDone(s)) BY <1>1, <1>3, MildClaim
<1>5. Deep(ClaimTocDone(s), d, l) BY <1>1, <1>3, <1>4, MildDeep
<1>6. QED BY <1>5 DEF s

\* A segment begins with nothing recorded.
LEMMA EmptyFilling ==
    ASSUME NEW s, NEW d, s.next_write_block = s.segment_start_block,
           s.next_write_block \in Nat, s.record_count = 0
    PROVE  Filling(s, d)
<1> DEFINE b == s.next_write_block
           K == {b}
           first == [k \in K |-> 0]
           o == Owner(s.vol.era, s.segment_id)
<1>1. Chunked(d.data, o, s.segment_start_block, b, s.buf_size, K, first)
  BY DEF Chunked
<1>2. first[b] = 0 OBVIOUS
<1>3. Short(b, s.buf_size, first[b], s.record_count) BY <1>2 DEF Short
<1> HIDE DEF K, first
<1>4. QED BY <1>1, <1>2, <1>3 DEF Filling

LEMMA ClaimHeaderDeep ==
    ASSUME VolumeInv, NEW r \in p.io, r.op = "claimHdr", NEW d, NEW l
    PROVE  Deep(ClaimHeaderDone(Filled(r)), d, l)
<1> DEFINE s == Filled(r)
           t == [s EXCEPT !.next_write_block = s.segment_start_block,
                          !.record_count = 0, !.recording = TRUE]
           v == [t EXCEPT !.stopping = FALSE]
           u == ClaimHeaderDone(s)
<1>1. s \in Process /\ s.io = {} /\ s.said = "none" BY FilledIs
<1>2. HeaderDue(p, disk, load) BY Stage
<1>3. /\ s.mode # "dump"
      /\ s.mode = "serve" => s.request = "start"
  BY <1>2, FilledAlike DEF HeaderDue, Claimed, Recorder
<1>4. u = IF s.mode = "serve" THEN Fulfill(v, "ok") ELSE t
  BY DEF ClaimHeaderDone
<1> HIDE DEF s
<1> DEFINE Begun(x) ==
             /\ x \in Process /\ x.io = {} /\ x.said = "none" /\ x.mode = s.mode
             /\ x.request = s.request
             /\ x.next_write_block = x.segment_start_block /\ x.record_count = 0
             /\ x.next_write_block \in Nat
<1>5. Begun(t) BY <1>1 DEF Process
<1> HIDE DEF t
<1>10. Begun(v) BY <1>5 DEF Process
<1> HIDE DEF v, u
<1>6. Filling(t, d) /\ Filling(v, d) BY <1>5, <1>10, EmptyFilling
<1>7. CASE s.mode = "serve"
  <2>1. u = Fulfill(v, "ok") BY <1>4, <1>7
  <2>2. Carries(v, u) BY <1>10, <2>1, EndsCarry
  <2>3. Filling(u, d) BY <1>6, <2>2, FillingCarried
  <2>4. u.io = {} /\ u.mode = "serve" /\ u.said = "start"
    BY <1>3, <1>7, <1>10, <2>1, FulfillIs
  <2>5. Deep(u, d, l) BY <2>3, <2>4 DEF Deep, Tracking, Dumped, Paged
  <2>6. QED BY <2>5 DEF u, s
<1>8. CASE s.mode # "serve"
  <2>1. u = t BY <1>4, <1>8
  <2>3. Filling(u, d) BY <1>6, <2>1
  <2>4. u.io = {} /\ u.mode # "dump" /\ u.said = "none" BY <1>3, <1>5, <2>1
  <2>2. Deep(u, d, l) BY <2>3, <2>4 DEF Deep, Tracking, Dumped, Paged
  <2>5. QED BY <2>2 DEF u, s
<1>9. QED BY <1>7, <1>8

LEMMA ListDeep ==
    ASSUME VolumeInv, NEW r \in p.io, r.op = "list", NEW d, NEW l
    PROVE  LET s == Filled(r)
           IN  Deep(ListNext([s EXCEPT !.listed = Append(@, s.io_buf)]), d, l)
<1> DEFINE s == Filled(r)
           x == Append(s.listed, s.io_buf)
           t == [s EXCEPT !.listed = x]
<1>1. s \in Process /\ s.io = {} /\ s.said = "none" BY FilledIs
<1>2. ~s.recording /\ s.mode = "list" BY FilledAlike, Stage
<1> HIDE DEF s
<1>3. x \in Seq(Entry)
  <2>1. s.listed \in Seq(Entry) /\ s.io_buf \in Entry BY <1>1 DEF Process
  <2>2. QED BY <2>1, AppendProperties
<1> HIDE DEF x
<1>4. /\ t \in Process /\ t.io = {} /\ ~t.recording /\ t.mode = "list"
      /\ t.said = "none"
  BY <1>1, <1>2, <1>3 DEF Process
<1> HIDE DEF t
<1>5. Mild(t, ListNext(t)) BY <1>4, MildReads
<1>6. Deep(ListNext(t), d, l) BY <1>4, <1>5, MildDeep
<1>7. QED BY <1>6 DEF t, x, s

LEMMA EntryDeep ==
    ASSUME VolumeInv, Stocked(disk, load), NEW r \in p.io, r.op = "entry", NEW z
    PROVE  LET s == Filled(r)
           IN  Deep(IF s.mode = "repair" THEN RepairEntryRead(s, z)
                    ELSE DumpEntryRead(s), disk, load)
<1> DEFINE s == Filled(r)
           g == p.dump_segment_id
<1>1. s \in Process /\ s.io = {} /\ s.said = "none" /\ s.up
      /\ s.io_buf = disk.toc[r.at - TocStart]
  BY FilledIs
<1>2. disk \in Disks /\ Consistent(disk, load) /\ g \in Slots
  BY ReadSafe DEF Process
<1>3. r = Rq("entry", TocStart + g, 1) /\ Accepted(disk.hdr) /\ ~p.recording
      /\ p.mode \in {"dump", "repair"}
  BY Stage
<1>4. s.io_buf = disk.toc[g]
  <2>1. r.at = TocStart + g BY <1>3 DEF Rq
  <2>2. r.at - TocStart = g BY <1>2, <2>1, SlotBlock, Geometry
  <2>3. QED BY <1>1, <2>2
<1>5. ~s.recording /\ s.mode \in {"dump", "repair"} BY <1>3, FilledAlike
<1> HIDE DEF s, g
<1>6. CASE s.mode = "repair"
  <2>1. Mild(s, RepairEntryRead(s, z)) BY <1>1, <1>5, MildReads
  <2>2. Deep(RepairEntryRead(s, z), disk, load) BY <1>1, <1>6, <2>1, MildDeep
  <2>3. QED BY <1>6, <2>2 DEF s
<1>7. CASE s.mode = "dump"
  <2>1. Deep(DumpEntryRead(s), disk, load)
    BY <1>1, <1>2, <1>3, <1>4, <1>5, <1>7, DumpEntryDeep
  <2>2. QED BY <1>7, <2>1 DEF s
<1>8. QED BY <1>5, <1>6, <1>7

\* The chunk that has been read is the one the cursor stands before.
LEMMA WalkingCells ==
    ASSUME VolumeInv, NEW op, NEW r \in p.io, Walking(p, op)
    PROVE  LET c == p.cursor
           IN  /\ Placed(c) /\ c.cur_block + c.chunk <= NumBlocks
               /\ Cells(r) = From(disk.data, c.cur_block, c.chunk)
               /\ Cells(r) \in [0 .. c.chunk - 1 -> Cell]
               /\ disk.data \in [Area -> Cell]
<1>1. r = Rq(op, p.cursor.cur_block, p.cursor.chunk) BY DEF Walking
<1>2. r.at = p.cursor.cur_block /\ r.len = p.cursor.chunk BY <1>1 DEF Rq
<1>3. Cells(r) = From(disk.data, p.cursor.cur_block, p.cursor.chunk)
  BY <1>2 DEF Cells, From
<1>4. disk.data \in [Area -> Cell] BY ReadSafe DEF Disks, Area
<1>5. QED BY <1>3, <1>4, CellsTyped DEF Walking

LEMMA ChunkDeep ==
    ASSUME VolumeInv, Deep(p, disk, load), NEW r \in p.io, r.op = "chunk"
    PROVE  LET s == Filled(r)
           IN  Deep(Goes(s, "chunk", DumpChunkRead(s.cursor, Cells(r))),
                    disk, load)
<1> DEFINE s == Filled(r)
           c == p.cursor
           cells == Cells(r)
           u == DumpChunkRead(c, cells)
<1>1. s \in Process /\ s.io = {} /\ s.said = "none" /\ s.up
      /\ s.cursor = c /\ s.buf_size = p.buf_size
  BY FilledIs
<1>2. p.mode = "dump" /\ Walking(p, "chunk") /\ ~p.recording BY Stage
<1>3. s.mode = "dump" /\ ~s.recording /\ s.target = p.target
  BY <1>2, FilledAlike
<1> HIDE DEF s
<1>4. disk \in Disks BY ReadSafe
<1>5. /\ Placed(c) /\ c.cur_block + c.chunk <= NumBlocks
      /\ cells = From(disk.data, c.cur_block, c.chunk)
      /\ cells \in [0 .. c.chunk - 1 -> Cell]
      /\ disk.data \in [Area -> Cell]
  BY <1>2, WalkingCells
<1>6. Tracked(p, disk, load, "chunk") BY DEF Deep, Tracking
<1>7. PICK g \in Slots : Fin(disk, g) /\ p.target = disk.toc[g]
  BY <1>6 DEF Tracked
<1>8. c.req_offset = 0 BY <1>6 DEF Tracked
<1> HIDE DEF c, cells
<1>9. u \in Cursor
  <2>1. Placed(DumpChunkRead(c, cells)) BY <1>5, DumpChunkPlaced
  <2>2. QED BY <2>1 DEF Placed
<1>10. u.req_offset = 0 BY <1>5, <1>8 DEF DumpChunkRead, Placed, Cursor
<1>11. ASSUME RightFor(s, s.target), ~load.header_lost
       PROVE  DumpShows(u, s.target, disk.data)
  <2>1. RightFor(p, p.target) BY <1>1, <1>3, <1>11 DEF RightFor
  <2>2. Stands(c, p.target, disk.data) BY <1>6, <1>11, <2>1 DEF Tracked, c
  <2>3. p.target \in Entry BY <1>4, <1>7 DEF Disks
  <2> DEFINE data == disk.data
             e == p.target
             w == DumpChunkRead(c, From(data, c.cur_block, c.chunk))
  <2>4. c \in Cursor /\ c.cur_block >= DataStart /\ c.chunk > 0
    BY <1>5 DEF Placed
  <2>5. data \in [Area -> Cell] /\ e \in Entry /\ Stands(c, e, data)
    BY <1>5, <2>2, <2>3
  <2>6. /\ w.end \in {"", "ok"} /\ w.shown = Run(OwnerOf(e), 0, w.records_seen)
        /\ w.end = "ok" => w.records_seen = e.record_count
        /\ w.end = "" => Stands(w, e, data)
    <3> HIDE DEF data, e
    <3>1. QED BY <1>5, <1>8, <2>4, <2>5, DumpReads
  <2>7. u = w BY <1>5
  <2> HIDE DEF u, w
  <2>8. QED BY <1>3, <2>6, <2>7 DEF DumpShows
<1> HIDE DEF u
<1>12. s.target = disk.toc[g] BY <1>3, <1>7
<1>13. Deep(Goes(s, "chunk", u), disk, load)
  BY <1>1, <1>3, <1>4, <1>7, <1>9, <1>10, <1>11, <1>12, GoesDumpDeep
<1>14. QED BY <1>1, <1>13 DEF s, u, cells

LEMMA PageEntryReadDeep ==
    ASSUME VolumeInv, Stocked(disk, load), Deep(p, disk, load), NEW r \in p.io,
           r.op = "pageEntry"
    PROVE  Deep(PageEntryRead(Filled(r)), disk, load)
<1> DEFINE s == Filled(r)
<1>1. s \in Process /\ s.io = {} /\ s.said = "none" /\ s.up
      /\ s.cursor = p.cursor /\ s.io_buf = disk.toc[r.at - TocStart]
  BY FilledIs
<1>2. p.mode = "serve" /\ p.request = "page" /\ AtRest(p, disk, load)
  BY Stage
<1>3. s.mode = "serve" /\ s.request = "page" /\ Carries(p, s)
  BY <1>2, FilledAlike
<1>4. PICK g \in Slots : r = Rq("pageEntry", TocStart + g, 1) BY Stage
<1>5. s.io_buf = disk.toc[g]
  <2>1. r.at = TocStart + g BY <1>4 DEF Rq
  <2>2. r.at - TocStart = g BY <2>1, SlotBlock, Geometry
  <2>3. QED BY <1>1, <2>2
<1>6. disk \in Disks /\ Consistent(disk, load) BY ReadSafe
<1>7. Accepted(disk.hdr)
  BY <1>2 DEF AtRest, Resting, Writing, Session, Mounted
<1> HIDE DEF s
<1>8. s.cursor.req_limit > 0 BY <1>1 DEF Deep, Tracking
<1>9. Filling(s, disk) BY <1>3, FillingCarried DEF Deep
<1>10. Deep(PageEntryRead(s), disk, load)
  BY <1>1, <1>3, <1>5, <1>6, <1>7, <1>8, <1>9, PageEntryDeep
<1>11. QED BY <1>10 DEF s

LEMMA PageDeep ==
    ASSUME VolumeInv, Deep(p, disk, load), NEW r \in p.io, r.op = "page"
    PROVE  LET s == Filled(r)
           IN  Deep(Goes(s, "page", PageChunkRead(s.cursor, Cells(r))),
                    disk, load)
<1> DEFINE s == Filled(r)
           c == p.cursor
           cells == Cells(r)
           u == PageChunkRead(c, cells)
<1>1. s \in Process /\ s.io = {} /\ s.said = "none" /\ s.up
      /\ s.cursor = c /\ s.buf_size = p.buf_size
  BY FilledIs
<1>2. /\ p.mode = "serve" /\ p.request = "page" /\ Walking(p, "page")
      /\ Len(c.shown) <= c.req_limit
  BY Stage
<1>3. s.mode = "serve" /\ s.request = "page" /\ s.target = p.target
      /\ Carries(p, s)
  BY <1>2, FilledAlike
<1> HIDE DEF s
<1>4. disk \in Disks BY ReadSafe
<1>5. /\ Placed(c) /\ c.cur_block + c.chunk <= NumBlocks
      /\ cells = From(disk.data, c.cur_block, c.chunk)
      /\ cells \in [0 .. c.chunk - 1 -> Cell]
      /\ disk.data \in [Area -> Cell]
  BY <1>2, WalkingCells
<1>6. Tracked(p, disk, load, "page") BY DEF Deep, Tracking
<1>7. PICK g \in Slots : Fin(disk, g) /\ p.target = disk.toc[g]
  BY <1>6 DEF Tracked
<1>8. Filling(s, disk) BY <1>3, FillingCarried DEF Deep
<1> HIDE DEF c, cells
<1>9. u \in Cursor
  <2>1. Placed(PageChunkRead(c, cells)) BY <1>2, <1>5, PageChunkPlaced
  <2>2. QED BY <2>1 DEF Placed
<1>11. ASSUME RightFor(s, s.target), ~load.header_lost
       PROVE  PageShows(u, s.target, disk.data)
  <2>1. RightFor(p, p.target) BY <1>1, <1>3, <1>11 DEF RightFor
  <2>2. Stands(c, p.target, disk.data) /\ Roomy(c)
    BY <1>6, <1>11, <2>1 DEF Tracked, c
  <2>3. p.target \in Entry BY <1>4, <1>7 DEF Disks
  <2> DEFINE data == disk.data
             e == p.target
             w == PageChunkRead(c, From(data, c.cur_block, c.chunk))
             last == Min({c.req_offset + c.req_limit, e.record_count})
  <2>4. c \in Cursor /\ c.cur_block >= DataStart /\ c.chunk > 0
    BY <1>5 DEF Placed
  <2>5. data \in [Area -> Cell] /\ e \in Entry /\ Stands(c, e, data)
    BY <1>5, <2>2, <2>3
  <2>6. /\ w.end \in {"", "ok"}
        /\ w.req_offset = c.req_offset /\ w.req_limit = c.req_limit
        /\ w.end = "ok" => /\ w.shown = Run(OwnerOf(e), w.req_offset, last)
                           /\ w.has_more = (last < e.record_count)
        /\ w.end = "" => Stands(w, e, data) /\ Roomy(w)
    <3> HIDE DEF data, e
    <3>1. QED BY <1>5, <2>2, <2>4, <2>5, PageReads
  <2>7. u = w BY <1>5
  <2>8. last = Min({w.req_offset + w.req_limit, e.record_count}) BY <2>6
  <2> HIDE DEF u, w, last
  <2>9. QED BY <1>3, <2>6, <2>7, <2>8 DEF PageShows
<1> HIDE DEF u
<1>12. s.target = disk.toc[g] BY <1>3, <1>7
<1>13. Deep(Goes(s, "page", u), disk, load)
  BY <1>1, <1>3, <1>4, <1>7, <1>8, <1>9, <1>11, <1>12, GoesPageDeep
<1>14. QED BY <1>1, <1>13 DEF s, u, cells

\* A lost header write admits more.
LEMMA StockedGrown ==
    ASSUME NEW d, NEW l, NEW m, Stocked(d, l), l.header_lost => m.header_lost
    PROVE  Stocked(d, m)
  BY DEF Stocked, Preserved

LEMMA PerformedData ==
    ASSUME disk \in Disks, NEW r, NEW B
    PROVE  Performed(r, B).data = disk.data
  BY DEF Performed, Disks

LEMMA IoDoneDeep ==
    ASSUME VolumeInv, Stocked(disk, load), Deep(p, disk, load), IoDone
    PROVE  Stocked(disk', load') /\ Deep(p', disk', load')
<1>1. PICK r \in p.io, z \in ChunkSizes :
         /\ r.op \notin {"finHdr", "finToc"}
         /\ disk' = IF r.op \in Writes THEN Performed(r, Blocks(r)) ELSE disk
         /\ p' = Continued(Filled(r), r, z)
         /\ load' = [load EXCEPT !.formats = IF r.op = "check" THEN @ + 1 ELSE @]
  BY DEF IoDone
<1> DEFINE s == Filled(r)
<1>2. load \in Loads /\ r.op \in Reads \cup Writes
  <2>1. r \in Io BY Stage
  <2>2. QED BY <2>1, ReadSafe DEF Io
<1>3. load'.header_lost = load.header_lost
      /\ (r.op # "check" => load' = load)
  <2> DEFINE n == IF r.op = "check" THEN load.formats + 1 ELSE load.formats
  <2>1. load' = [load EXCEPT !.formats = n] BY <1>1
  <2>2. r.op # "check" => n = load.formats OBVIOUS
  <2> HIDE DEF n
  <2>3. QED BY <1>2, <2>1, <2>2 DEF Loads
<1>4. Stocked(disk', load')
  <2>1. Stocked(disk', load)
    <3>1. CASE r.op \in Writes
      <4>1. Stocked(Performed(r, Blocks(r)), load)
        BY <3>1, WriteStocked DEF Deep
      <4>2. QED BY <1>1, <3>1, <4>1
    <3>2. CASE r.op \notin Writes BY <1>1, <3>2
    <3>3. QED BY <3>1, <3>2
  <2>2. QED BY <1>3, <2>1, StockedGrown
<1>5. r.op \in Reads => disk' = disk
  <2>1. r.op \in Reads => r.op \notin Writes BY DEF Reads, Writes
  <2>2. QED BY <1>1, <2>1
<1> HIDE DEF s
<1>6. CASE r.op = "check"
  <2>1. p' = InitChecked(s, load.formats + 1) BY <1>1, <1>6 DEF Continued, s
  <2>2. load.formats + 1 \in Nat BY <1>2 DEF Loads
  <2>3. QED BY <1>4, <1>6, <2>1, <2>2, CheckDeep DEF s
<1>7. CASE r.op = "zero"
  <2>1. p' = InitZeroed(s) BY <1>1, <1>7 DEF Continued, s
  <2>2. QED BY <1>4, <1>7, <2>1, ZeroDeep DEF s
<1>8. CASE r.op \in {"initHdr", "repair"}
  <2>1. p' = Exit(s, "ok") BY <1>1, <1>8 DEF Continued, s
  <2>2. s \in Process /\ s.said = "none" BY FilledIs DEF s
  <2>3. s.mode # "dump" BY <1>8, Stage, FilledAlike DEF s
  <2>4. ~p'.recording /\ p'.io = {} /\ p'.said = "none" /\ p'.mode # "dump"
    BY <2>1, <2>2, <2>3 DEF Exit, Process
  <2>5. QED BY <1>4, <2>4 DEF Deep, Filling, Tracking, Dumped, Paged
<1>9. CASE r.op = "header"
  <2>1. p' = HeaderRead(s) BY <1>1, <1>9 DEF Continued, s
  <2>2. QED BY <1>3, <1>4, <1>5, <1>9, <2>1, HeaderDeep DEF s, Reads
<1>10. CASE r.op = "qfZero"
  <2>1. p' = QuickFormatZeroed(s) BY <1>1, <1>10 DEF Continued, s
  <2>2. QED BY <1>4, <1>10, <2>1, ZeroDeep DEF s
<1>11. CASE r.op = "qfHdr"
  <2>1. p' = QuickFormatDone(s) BY <1>1, <1>11 DEF Continued, s
  <2>2. QED BY <1>4, <1>11, <2>1, QuickFormatHeaderDeep DEF s
<1>12. CASE r.op = "claimToc"
  <2>1. p' = ClaimTocDone(s) BY <1>1, <1>12 DEF Continued, s
  <2>2. QED BY <1>4, <1>12, <2>1, ClaimEntryDeep DEF s
<1>13. CASE r.op = "claimHdr"
  <2>1. p' = ClaimHeaderDone(s) BY <1>1, <1>13 DEF Continued, s
  <2>2. QED BY <1>4, <1>13, <2>1, ClaimHeaderDeep DEF s
<1>14. CASE r.op = "list"
  <2>1. p' = ListNext([s EXCEPT !.listed = Append(@, s.io_buf)])
    BY <1>1, <1>14 DEF Continued, s
  <2>2. QED BY <1>4, <1>14, <2>1, ListDeep DEF s
<1>15. CASE r.op = "entry"
  <2>1. p' = IF s.mode = "repair" THEN RepairEntryRead(s, z)
             ELSE DumpEntryRead(s)
    BY <1>1, <1>15 DEF Continued, s
  <2>2. Deep(IF s.mode = "repair" THEN RepairEntryRead(s, z)
             ELSE DumpEntryRead(s), disk, load)
    BY <1>15, EntryDeep DEF s
  <2>3. QED BY <1>3, <1>4, <1>5, <1>15, <2>1, <2>2 DEF Reads
<1>16. CASE r.op = "chunk"
  <2>1. p' = Goes(s, "chunk", DumpChunkRead(s.cursor, Cells(r)))
    BY <1>1, <1>16 DEF Continued, s
  <2>2. Deep(Goes(s, "chunk", DumpChunkRead(s.cursor, Cells(r))), disk, load)
    BY <1>16, ChunkDeep DEF s
  <2>3. QED BY <1>3, <1>4, <1>5, <1>16, <2>1, <2>2 DEF Reads
<1>17. CASE r.op = "pageEntry"
  <2>1. p' = PageEntryRead(s) BY <1>1, <1>17 DEF Continued, s
  <2>2. QED BY <1>3, <1>4, <1>5, <1>17, <2>1, PageEntryReadDeep DEF s, Reads
<1>18. CASE r.op = "page"
  <2>1. p' = Goes(s, "page", PageChunkRead(s.cursor, Cells(r)))
    BY <1>1, <1>18 DEF Continued, s
  <2>2. Deep(Goes(s, "page", PageChunkRead(s.cursor, Cells(r))), disk, load)
    BY <1>18, PageDeep DEF s
  <2>3. QED BY <1>3, <1>4, <1>5, <1>18, <2>1, <2>2 DEF Reads
<1>19. QED
  BY <1>1, <1>2, <1>6, <1>7, <1>8, <1>9, <1>10, <1>11, <1>12, <1>13, <1>14,
     <1>15, <1>16, <1>17, <1>18 DEF Reads, Writes

-----------------------------------------------------------------------------
(* An I/O fails *)

LEMMA IoFailsDeep ==
    ASSUME VolumeInv, Stocked(disk, load), Deep(p, disk, load), IoFails
    PROVE  Stocked(disk', load') /\ Deep(p', disk', load')
<1>1. PICK r \in p.io :
        /\ LET s == [p EXCEPT !.io = @ \ {r}, !.faulted = TRUE]
           IN  p' = IF r.op = "header" THEN Exit(s, "fail") ELSE Report(s, "fail")
        /\ load' = [load EXCEPT !.faults = @ + 1]
        /\ disk' = disk
  BY DEF IoFails
<1> DEFINE s == [p EXCEPT !.io = @ \ {r}, !.faulted = TRUE]
<1>2. p \in Process /\ load \in Loads BY ReadSafe
<1>3. load'.header_lost = load.header_lost
  <2> DEFINE n == load.faults + 1
  <2>1. load' = [load EXCEPT !.faults = n] BY <1>1
  <2> HIDE DEF n
  <2>2. QED BY <1>2, <2>1 DEF Loads
<1>4. Stocked(disk', load') BY <1>1, <1>3, StockedGrown
<1>5. /\ s \in Process /\ s.io = {} /\ s.faulted /\ Carries(p, s)
  <2>1. p.io = {r} BY Stage
  <2>2. s = [p EXCEPT !.io = {}, !.faulted = TRUE] BY <2>1
  <2> HIDE DEF s
  <2>3. s \in Process /\ s.io = {} /\ s.faulted BY <1>2, <2>2 DEF Process
  <2>4. Carries(p, s) BY <1>2, <2>2 DEF Process, Carries
  <2>5. QED BY <2>3, <2>4
<1>6. p' = Exit(s, "fail") \/ p' = Fulfill(s, "fail") BY <1>1 DEF Report
<1> HIDE DEF s
<1>7. Carries(s, p') BY <1>5, <1>6, EndsCarry
<1>8. p'.io = {} /\ p'.rc = "fail" /\ p'.faulted
  <2>1. LET x == Exit(s, "fail") IN x.io = {} /\ x.rc = "fail" /\ x.faulted
    BY <1>5 DEF Exit, Process
  <2>2. LET x == Fulfill(s, "fail") IN x.io = {} /\ x.rc = "fail" /\ x.faulted
    BY <1>5 DEF Fulfill, Process
  <2>3. QED BY <1>6, <2>1, <2>2
<1>9. Filling(s, disk) BY <1>5, FillingCarried DEF Deep
<1>10. Deep(p', disk', load') BY <1>1, <1>7, <1>8, <1>9, QuietDeep
<1>11. QED BY <1>4, <1>10

LEMMA FinalizeIoDeep ==
    ASSUME VolumeInv, Stocked(disk, load), Deep(p, disk, load), FinalizeIo
    PROVE  Stocked(disk', load') /\ Deep(p', disk', load')
<1>1. PICK r \in p.io, ok \in BOOLEAN :
        /\ r.op \in {"finHdr", "finToc"}
        /\ disk' = IF ok THEN Performed(r, Blocks(r)) ELSE disk
        /\ p' = LET s == [p EXCEPT !.io = @ \ {r}, !.faulted = @ \/ ~ok]
                IN  IF r.op = "finHdr" THEN FinalizeHeaderDone(s)
                    ELSE FinalizeTocDone(s, ok)
        /\ load' = [load EXCEPT !.faults = IF ok THEN @ ELSE @ + 1,
                                !.header_lost = @ \/ (r.op = "finHdr" /\ ~ok)]
  BY DEF FinalizeIo
<1>2. p \in Process /\ load \in Loads /\ disk \in Disks BY ReadSafe
<1>3. load.header_lost => load'.header_lost
  <2> DEFINE n == IF ok THEN load.faults ELSE load.faults + 1
             x == load.header_lost \/ (r.op = "finHdr" /\ ~ok)
  <2>1. load' = [load EXCEPT !.faults = n, !.header_lost = x] BY <1>1
  <2>2. load.header_lost => x OBVIOUS
  <2> HIDE DEF n, x
  <2>3. QED BY <1>2, <2>1, <2>2 DEF Loads
<1>4. disk'.data = disk.data BY <1>1, <1>2, PerformedData
<1>5. Stocked(disk', load')
  <2>1. r.op \in Writes BY <1>1 DEF Writes
  <2>2. Stocked(Performed(r, Blocks(r)), load) BY <2>1, WriteStocked DEF Deep
  <2>3. Stocked(disk', load) BY <1>1, <2>2
  <2>4. QED BY <1>3, <2>3, StockedGrown
<1>6. /\ Stopping(p, disk, load) /\ p.io = {r} /\ p.said = "none" /\ p.up
  BY <1>1, Stage
<1>7. p.mode # "dump" /\ (p.mode = "serve" => p.request # "page")
      /\ p.recording
  BY <1>6 DEF Stopping, Session, Recorder
<1> DEFINE x == p.faulted \/ ~ok
           s == [p EXCEPT !.io = {}, !.faulted = x]
<1>8. p' = IF r.op = "finHdr" THEN FinalizeHeaderDone(s)
           ELSE FinalizeTocDone(s, ok)
  BY <1>1, <1>6
<1> HIDE DEF x
<1>9. /\ s.mode = p.mode /\ s.io = {} /\ s.said = "none"
      /\ s.request = p.request
  BY <1>2, <1>6 DEF Process
<1>10. CASE r.op = "finHdr"
  <2> DEFINE e == Entered(s)
             t == [s EXCEPT !.io_buf = e]
             at == s.vol.toc_start + s.segment_id
  <2>1. p' = Submit(t, "finToc", at, 1)
    BY <1>8, <1>10 DEF FinalizeHeaderDone, Entered
  <2> HIDE DEF e, at
  <2>2. /\ p'.mode = p.mode /\ p'.said = "none"
        /\ p'.io = {Rq("finToc", at, 1)}
    BY <1>2, <1>6, <2>1 DEF Submit, Process, Rq
  <2>3. Carries(p, p') BY <1>2, <2>1 DEF Submit, Process, Carries
  <2>4. \A q \in p'.io : q.op \notin Readings BY <2>2 DEF Rq, Readings
  <2>5. Deep(p', disk', load')
    BY <1>4, <1>7, <2>2, <2>3, <2>4, QuietDeep DEF Deep
  <2>6. QED BY <1>5, <2>5
<1>11. CASE r.op = "finToc"
  <2> DEFINE t == [s EXCEPT !.recording = FALSE]
  <2>1. \/ p' = Exit(s, "ok")
        \/ /\ s.mode = "serve" /\ \E rc : p' = Fulfill(t, rc)
    BY <1>8, <1>11 DEF FinalizeTocDone
  <2>2. /\ ~p'.recording /\ p'.mode = p.mode /\ p'.io = {}
        /\ p'.said # "page"
    <3>1. LET y == Exit(s, "ok")
          IN  ~y.recording /\ y.mode = p.mode /\ y.io = {} /\ y.said = "none"
      BY <1>2 DEF Exit, Process
    <3>2. \A rc : LET y == Fulfill(t, rc)
                  IN  /\ ~y.recording /\ y.mode = p.mode /\ y.io = {}
                      /\ y.said = p.request
      BY <1>2 DEF Fulfill, Process
    <3> HIDE DEF s, t
    <3>3. QED BY <1>7, <1>9, <2>1, <3>1, <3>2
  <2>3. Deep(p', disk', load')
    BY <1>7, <2>2 DEF Deep, Filling, Tracking, Dumped, Paged
  <2>4. QED BY <1>5, <2>3
<1>12. QED BY <1>1, <1>10, <1>11

-----------------------------------------------------------------------------
(* Records reach the device *)

LEMMA Division ==
    ASSUME NEW x \in Nat, NEW r \in Nat, r > 0
    PROVE  /\ x = r * (x \div r) + (x % r) /\ x % r \in Nat /\ x % r < r
           /\ x \div r \in Nat
  OBVIOUS

LEMMA Quotient ==
    ASSUME NEW i \in Nat, NEW q \in Nat, NEW m \in Nat, NEW r \in Nat, r > 0,
           m < r, i * r = r * q + m
    PROVE  i = q /\ m = 0
<1>1. CASE i > q
  <2>1. i - q >= 1 BY <1>1
  <2>2. (i - q) * r >= r BY <2>1
  <2>3. QED BY <2>2
<1>2. CASE i < q
  <2>1. q - i >= 1 BY <1>2
  <2>2. (q - i) * r >= r BY <2>1
  <2>3. QED BY <2>2
<1>3. QED BY <1>1, <1>2

LEMMA WholeRecords ==
    ASSUME NEW i \in Nat
    PROVE  (i * RecLen) % RecLen = 0 /\ (i * RecLen) \div RecLen = i
<1> DEFINE x == i * RecLen
<1>1. x \in Nat /\ RecLen \in Nat /\ RecLen > 0 BY Geometry, Multiples
<1>2. x = i * RecLen OBVIOUS
<1> HIDE DEF x
<1>3. /\ x = RecLen * (x \div RecLen) + (x % RecLen) /\ x % RecLen \in Nat
      /\ x % RecLen < RecLen /\ x \div RecLen \in Nat
  BY <1>1, Division
<1>4. i = x \div RecLen /\ x % RecLen = 0 BY <1>1, <1>2, <1>3, Quotient
<1>5. QED BY <1>4 DEF x

\* As many records as a chunk may take fit it.
LEMMA ChunkTakes ==
    ASSUME NEW n \in Nat, NEW size \in Nat, n <= size \div RecLen
    PROVE  n * RecLen <= size
<1> DEFINE q == size \div RecLen
<1>0. RecLen \in Nat /\ RecLen > 0 BY Geometry
<1>1. /\ size = RecLen * q + (size % RecLen) /\ size % RecLen \in Nat
      /\ q \in Nat
  BY <1>0, Division
<1>2. n <= q OBVIOUS
<1> HIDE DEF q
<1>3. n * RecLen <= q * RecLen BY <1>0, <1>1, <1>2
<1>4. QED BY <1>0, <1>1, <1>3

\* The blocks below L hold the same.
Alike(x, y, L) == \A b \in DataStart .. L - 1 : x[b] = y[b]

LEMMA HoldsAlike ==
    ASSUME NEW x, NEW y, NEW L \in Int, Alike(x, y, L), NEW k \in Nat,
           NEW size \in Nat, NEW o, NEW a \in Nat, NEW z \in Nat,
           DataStart <= k, k + size <= L, Holds(x, k, size, o, a, z)
    PROVE  Holds(y, k, size, o, a, z)
<1> DEFINE n == z - a
<1>1. n \in Nat /\ n > 0 /\ RecLen \in Nat /\ RecLen > 0
      /\ n * RecLen <= size
  BY Geometry DEF Holds
<1>2. ASSUME NEW i \in 0 .. n - 1 PROVE y[k + i * RecLen] = x[k + i * RecLen]
  <2>1. /\ i \in Nat /\ i < n /\ i * RecLen \in Nat
        /\ i * RecLen + RecLen <= n * RecLen
    BY <1>1, Multiples
  <2> DEFINE m == i * RecLen
  <2> HIDE DEF n
  <2>2. k + m \in DataStart .. L - 1
    <3>1. n * RecLen \in Nat BY <1>1, Multiples
    <3>2. m \in Nat /\ m + RecLen <= n * RecLen BY <2>1
    <3> HIDE DEF m
    <3>3. m < size BY <1>1, <3>1, <3>2
    <3>4. QED BY <3>2, <3>3, Geometry
  <2>3. QED BY <2>2 DEF Alike
<1>3. ASSUME n * RecLen < size
      PROVE  y[k + n * RecLen] = x[k + n * RecLen]
  <2> DEFINE m == n * RecLen
  <2>1. m \in Nat BY <1>1, Multiples
  <2> HIDE DEF m
  <2>2. m < size BY <1>3 DEF m
  <2>3. k + m \in DataStart .. L - 1 BY <2>1, <2>2, Geometry
  <2>4. QED BY <2>3 DEF Alike, m
<1>4. QED BY <1>2, <1>3 DEF Holds

LEMMA ChunkedAlike ==
    ASSUME NEW x, NEW y, NEW M \in Int, Alike(x, y, M), NEW o,
           NEW b \in Nat, NEW L \in Int, NEW size \in Nat, DataStart <= b,
           L <= M, NEW K, NEW first, Chunked(x, o, b, L, size, K, first)
    PROVE  Chunked(y, o, b, L, size, K, first)
<1>1. ASSUME NEW k \in K, k # L
      PROVE  k + size \in K /\ Holds(y, k, size, o, first[k], first[k + size])
  <2>1. k + size \in K /\ Holds(x, k, size, o, first[k], first[k + size])
    BY <1>1 DEF Chunked
  <2>2. k \in b .. L /\ k + size \in b .. L BY <2>1 DEF Chunked
  <2>3. first[k] \in Nat /\ first[k + size] \in Nat BY <2>1 DEF Chunked
  <2>4. k \in Nat /\ DataStart <= k /\ k + size <= M BY <2>2, Geometry
  <2>5. QED BY <2>1, <2>3, <2>4, HoldsAlike
<1>2. QED BY <1>1 DEF Chunked

LEMMA RowAlike ==
    ASSUME NEW x, NEW y, NEW M \in Int, Alike(x, y, M), NEW e \in Entry,
           e.start_block >= DataStart, End(e) <= M, NEW K, NEW first,
           Row(x, e, K, first)
    PROVE  Row(y, e, K, first)
<1>1. e.start_block \in Nat /\ e.laid \in Nat /\ End(e) \in Int
  BY DEF Entry, End
<1>2. Chunked(y, OwnerOf(e), e.start_block, End(e), e.laid, K, first)
  BY <1>1, Geometry, ChunkedAlike DEF Row
<1>3. QED BY <1>2 DEF Row

\* One chunk more.
LEMMA ChunkedGrows ==
    ASSUME NEW x, NEW o, NEW b \in Nat, NEW L \in Nat, NEW size \in Nat,
           size > 0, NEW K, NEW first, Chunked(x, o, b, L, size, K, first),
           NEW c \in Nat, Holds(x, L, size, o, first[L], c)
    PROVE  \E J, f : Chunked(x, o, b, L + size, size, J, f) /\ f[L + size] = c
<1> DEFINE M == L + size
           J == K \cup {M}
           f == [k \in J |-> IF k = M THEN c ELSE first[k]]
<1>1. /\ K \subseteq b .. L /\ b \in K /\ L \in K /\ first \in [K -> Nat]
      /\ first[b] = 0
  BY DEF Chunked
<1>2. b <= L /\ M \in Nat /\ L < M BY <1>1
<1>3. \A k \in K : k # M BY <1>1, <1>2
<1>4. J \subseteq b .. M BY <1>1, <1>2
<1>5. f \in [J -> Nat] /\ f[M] = c BY <1>1
<1>6. \A k \in K : f[k] = first[k] BY <1>3
<1> HIDE DEF f
<1>7. ASSUME NEW k \in J, k # M
      PROVE  k + size \in J /\ Holds(x, k, size, o, f[k], f[k + size])
  <2>1. k \in K BY <1>7
  <2>2. CASE k = L BY <1>1, <1>5, <1>6, <2>2
  <2>3. CASE k # L
    <3>1. k + size \in K /\ Holds(x, k, size, o, first[k], first[k + size])
      BY <2>1, <2>3 DEF Chunked
    <3>2. QED BY <1>6, <2>1, <3>1
  <2>4. QED BY <2>2, <2>3
<1>8. b \in J /\ M \in J /\ f[b] = 0 BY <1>1, <1>6
<1> HIDE DEF J, M
<1>9. Chunked(x, o, b, M, size, J, f) BY <1>4, <1>5, <1>7, <1>8 DEF Chunked
<1>10. QED BY <1>5, <1>9 DEF M

\* What a flush stores is a chunk of records, and it touches no other block.
LEMMA StoredHolds ==
    ASSUME NEW data \in [DataStart .. NumBlocks - 1 -> Cell], NEW b \in Nat,
           NEW size \in Nat, DataStart <= b, b + size <= NumBlocks,
           NEW o \in Owners, NEW a \in Nat, NEW n \in Nat, n > 0,
           n * RecLen <= size
    PROVE  LET D == Stored(data, b, Laid(o.era, o.seg, a, n), size)
           IN  Holds(D, b, size, o, a, a + n) /\ Alike(data, D, b)
<1> DEFINE chunk == Laid(o.era, o.seg, a, n)
           D == Stored(data, b, chunk, size)
           N == n * RecLen
<1>1. RecLen \in Nat /\ RecLen > 0 /\ N \in Nat /\ DataStart \in Nat
      /\ NumBlocks \in Nat
  BY Geometry, Multiples
<1>2. DOMAIN chunk = 0 .. N - 1 BY DEF Laid
<1>3. \A k \in DataStart .. NumBlocks - 1 :
         D[k] = IF k \in b .. b + size - 1
                THEN IF k - b \in 0 .. N - 1 THEN chunk[k - b] ELSE Blank
                ELSE data[k]
  <2>1. DOMAIN data = DataStart .. NumBlocks - 1 OBVIOUS
  <2> HIDE DEF chunk
  <2>2. QED BY <1>2, <2>1 DEF Stored
<1>4. \A m \in 0 .. size - 1 :
         D[b + m] = IF m \in 0 .. N - 1 THEN chunk[m] ELSE Blank
  <2>1. TAKE m \in 0 .. size - 1
  <2>2. /\ b + m \in DataStart .. NumBlocks - 1
        /\ b + m \in b .. b + size - 1 /\ (b + m) - b = m
    BY <1>1
  <2> HIDE DEF D, chunk, N
  <2>3. QED BY <1>3, <2>2
<1>5. ASSUME NEW i \in 0 .. n - 1
      PROVE  D[b + i * RecLen] = Numbered(o, a + i)
  <2> DEFINE m == i * RecLen
  <2>1. i \in Nat /\ i < n OBVIOUS
  <2>2. m \in Nat /\ m + RecLen <= N BY <1>1, <2>1, Multiples
  <2>3. m % RecLen = 0 /\ m \div RecLen = i BY <2>1, WholeRecords
  <2> HIDE DEF m
  <2>4. m \in 0 .. N - 1 /\ m \in 0 .. size - 1 BY <1>1, <2>2
  <2>5. chunk[m] = [era |-> o.era, seg |-> o.seg, seq |-> a + m \div RecLen,
                    len |-> RecLen]
    BY <2>3, <2>4 DEF Laid
  <2>6. chunk[m] = Numbered(o, a + i) BY <2>3, <2>5 DEF Numbered
  <2> HIDE DEF D, chunk, N
  <2>7. D[b + m] = Numbered(o, a + i) BY <1>4, <2>4, <2>6
  <2>8. QED BY <2>7 DEF m
<1>6. ASSUME N < size PROVE D[b + N].len = 0
  <2>1. N \in 0 .. size - 1 /\ N \notin 0 .. N - 1 BY <1>1, <1>6
  <2> HIDE DEF D, chunk, N
  <2>2. D[b + N] = Blank BY <1>4, <2>1
  <2>3. QED BY <2>2 DEF Blank
<1>7. Alike(data, D, b)
  <2>1. ASSUME NEW k \in DataStart .. b - 1 PROVE data[k] = D[k]
    <3>1. k \in DataStart .. NumBlocks - 1 /\ k \notin b .. b + size - 1
      BY <1>1
    <3> HIDE DEF D, chunk
    <3>2. QED BY <1>3, <3>1
  <2>2. QED BY <2>1 DEF Alike, D
<1>8. (a + n) - a = n /\ a < a + n OBVIOUS
<1>9. Holds(D, b, size, o, a, a + n) BY <1>5, <1>6, <1>8 DEF Holds
<1>10. QED BY <1>7, <1>9

\* Records are written above every finalized segment.
LEMMA StandsAlike ==
    ASSUME NEW x, NEW y, NEW M \in Int, Alike(x, y, M), NEW e \in Entry,
           e.start_block >= DataStart, End(e) <= M, NEW c, Stands(c, e, x)
    PROVE  Stands(c, e, y)
<1>1. PICK K, first : /\ Row(x, e, K, first) /\ c.cur_block \in K
                      /\ first[c.cur_block] = c.records_seen
  BY DEF Stands
<1>2. Row(y, e, K, first) BY <1>1, RowAlike
<1>3. QED BY <1>1, <1>2 DEF Stands

LEMMA RecordDeep ==
    ASSUME VolumeInv, Stocked(disk, load), Deep(p, disk, load), Record
    PROVE  Stocked(disk', load') /\ Deep(p', disk', load')
<1> DEFINE L == p.next_write_block
           b == p.segment_start_block
           size == p.buf_size
           a == p.record_count
           o == Owner(p.vol.era, p.segment_id)
           x == disk.data
           t == Taken(p)
           data(n) == Stored(x, L, Laid(p.vol.era, p.segment_id, a, n), size)
<1>1. disk \in Disks /\ p \in Process /\ load \in Loads
      /\ Consistent(disk, load)
  BY ReadSafe
<1>2. PICK n \in 1 .. size \div RecLen :
         /\ p.up /\ p.mode = "serve" /\ p.recording /\ ~p.stopping
         /\ L + size <= NumBlocks
         /\ disk' = [disk EXCEPT !.data = data(n)]
         /\ p' = [t EXCEPT !.record_count = @ + n,
                           !.next_write_block = @ + size]
         /\ load' = load
  BY DEF Record
<1> DEFINE y == data(n)
           M == L + size
           c == a + n
           D == disk'
           u == p'
<1>3. /\ L \in Nat /\ b \in Nat /\ size \in Nat /\ size > 0 /\ a \in Nat
      /\ p.vol.era \in Nat /\ p.segment_id \in Nat
  <2>1. size \in ChunkSizes /\ p.segment_id \in Slots /\ p.vol \in Header
    BY <1>1 DEF Process
  <2>2. p.vol.era \in Nat BY <2>1 DEF Header
  <2>3. QED BY <1>1, <2>1, <2>2, Geometry, SlotBlock DEF Process
<1>4. n \in Nat /\ n > 0 /\ n <= size \div RecLen
  <2> DEFINE q == size \div RecLen
  <2>1. q \in Nat BY <1>3, Geometry, Division
  <2>2. n \in 1 .. q OBVIOUS
  <2> HIDE DEF q
  <2>3. n \in Nat /\ n > 0 /\ n <= q BY <2>1, <2>2
  <2>4. QED BY <2>3 DEF q
<1>5. n * RecLen <= size BY <1>3, <1>4, ChunkTakes
<1>6. o \in Owners /\ o.era = p.vol.era /\ o.seg = p.segment_id
  BY <1>3 DEF Owner, Owners
<1>7. Phase(p, disk, load) /\ Mute(p) BY DEF VolumeInv, Sound
<1>8. Writing(p, disk, load)
  <2>1. ~Formatting(p, disk, load) /\ ~Opening(p) /\ ~Reading(p, disk)
    BY <1>2 DEF Formatting, Opening, Reading
  <2>2. ~Claiming(p, disk, load) /\ ~Renewing(p, disk, load)
        /\ ~Resting(p, disk, load)
    BY <1>2 DEF Claiming, EntryDue, HeaderDue, Claimed, Renewing, Resting
  <2>3. ~Finalizing(p, disk, load) BY <1>2 DEF Finalizing, Stopping
  <2>4. QED BY <1>2, <1>7, <2>1, <2>2, <2>3 DEF Phase, Paging
<1>9. /\ DataStart <= b /\ b <= L /\ Before(p, disk, load)
      /\ Accepted(disk.hdr)
  BY <1>8 DEF Writing, Session, Open, Mounted
<1>10. DataStart <= L BY <1>3, <1>9, Geometry
<1>11. Holds(y, L, size, o, a, c) /\ Alike(x, y, L)
  <2>1. x \in [DataStart .. NumBlocks - 1 -> Cell] BY <1>1 DEF Disks
  <2> HIDE DEF x, L, size, o, a
  <2>2. QED BY <1>2, <1>3, <1>4, <1>5, <1>6, <1>10, <2>1, StoredHolds
<1>12. /\ t \in Process /\ Footing(p, t) /\ t.said = "none" /\ t.io = p.io
       /\ t.record_count = a /\ t.buf_size = size
  <2>1. t.buf_size = size BY <1>1 DEF Taken, Process
  <2>2. QED BY <1>1, <2>1, TakenIs
<1>13. u = [t EXCEPT !.record_count = c, !.next_write_block = M]
  BY <1>2, <1>12 DEF Footing
<1>14. D.hdr = disk.hdr /\ D.toc = disk.toc /\ D.data = y
  <2> HIDE DEF data
  <2>1. QED BY <1>1, <1>2 DEF Disks
<1> HIDE DEF t, data, M, c, D, x
<1>15. /\ u.up /\ u.mode = "serve" /\ u.recording /\ ~u.stopping
       /\ u.vol = p.vol /\ u.segment_id = p.segment_id
       /\ u.segment_start_block = b /\ u.next_write_block = M
       /\ u.buf_size = size /\ u.record_count = c /\ u.said = "none"
       /\ u.io = p.io /\ u.cursor = t.cursor /\ u.target = t.target
  <2> HIDE DEF u
  <2>1. /\ t.up = p.up /\ t.mode = p.mode /\ t.recording = p.recording
        /\ t.stopping = p.stopping /\ t.vol = p.vol
        /\ t.segment_id = p.segment_id /\ t.segment_start_block = b
        /\ t.buf_size = size /\ t.said = "none" /\ t.io = p.io
    BY <1>12 DEF Footing
  <2>2. /\ u.up = t.up /\ u.mode = t.mode /\ u.recording = t.recording
        /\ u.stopping = t.stopping /\ u.vol = t.vol
        /\ u.segment_id = t.segment_id
        /\ u.segment_start_block = t.segment_start_block
        /\ u.next_write_block = M /\ u.buf_size = t.buf_size
        /\ u.record_count = c /\ u.said = t.said /\ u.io = t.io
        /\ u.cursor = t.cursor /\ u.target = t.target
    BY <1>12, <1>13 DEF Process
  <2>3. QED BY <1>2, <2>1, <2>2
<1> HIDE DEF u
<1>16. ASSUME NEW g \in Slots, Fin(D, g), ~load.header_lost
       PROVE  /\ D.toc[g] \in Entry /\ D.toc[g] = disk.toc[g]
              /\ D.toc[g].start_block >= DataStart /\ End(D.toc[g]) <= L
  <2>1. Fin(disk, g) /\ D.toc[g] = disk.toc[g] BY <1>14, <1>16 DEF Fin
  <2>2. disk.toc[g] \in Entry BY <1>1 DEF Disks
  <2>3. disk.toc[g].start_block >= DataStart
    BY <1>1, <1>9, <2>1 DEF Consistent
  <2>4. End(disk.toc[g]) <= b BY <1>9, <1>16, <2>1 DEF Before
  <2>5. End(disk.toc[g]) \in Int BY <2>2 DEF Entry, End
  <2> HIDE DEF b, L
  <2>6. End(disk.toc[g]) <= L BY <1>3, <1>9, <2>4, <2>5
  <2>7. QED BY <2>1, <2>2, <2>3, <2>6
<1>17. Stocked(D, load)
  <2>1. Branded(D) BY <1>14 DEF Stocked, Branded
  <2>2. Preserved(D, load)
    <3>1. SUFFICES ASSUME ~load.header_lost, NEW g \in Slots, Fin(D, g)
                   PROVE  Complete(D.data, D.toc[g])
      BY DEF Preserved
    <3> DEFINE e == D.toc[g]
    <3>2. /\ e \in Entry /\ e = disk.toc[g] /\ e.start_block >= DataStart
          /\ End(e) <= L
      BY <1>16, <3>1
    <3>3. Complete(x, e)
      BY <1>9, <1>14, <3>1 DEF Stocked, Preserved, Fin, x
    <3> HIDE DEF e, L
    <3>4. PICK K, first : Row(x, e, K, first) BY <3>3 DEF Complete
    <3>5. L \in Int BY <1>3
    <3>6. Row(y, e, K, first) BY <1>11, <3>2, <3>4, <3>5, RowAlike
    <3>7. Complete(y, e) BY <3>3, <3>6 DEF Complete
    <3>8. QED BY <1>14, <3>7 DEF e
  <2>3. QED BY <2>1, <2>2 DEF Stocked
<1>18. Filling(u, D)
  <2>1. PICK K, first :
          /\ Chunked(x, o, b, L, size, K, first)
          /\ first[L] = a
    BY <1>2 DEF Deep, Filling, x
  <2>2. c \in Nat /\ L \in Int /\ L <= L BY <1>3, <1>4 DEF c
  <2> HIDE DEF o, b, L, size, a, y
  <2>3. Chunked(y, o, b, L, size, K, first)
    BY <1>3, <1>9, <1>11, <2>1, <2>2, ChunkedAlike
  <2>4. Holds(y, L, size, o, first[L], c) BY <1>11, <2>1
  <2>5. PICK J, f : Chunked(y, o, b, L + size, size, J, f) /\ f[L + size] = c
    BY <1>3, <2>2, <2>3, <2>4, ChunkedGrows
  <2>6. Chunked(y, o, b, M, size, J, f) /\ f[M] = c BY <2>5 DEF M
  <2>7. Short(M, size, f[M], c) BY <2>6 DEF Short
  <2>8. o = Owner(u.vol.era, u.segment_id) BY <1>15 DEF o
  <2>9. QED BY <1>14, <1>15, <2>6, <2>7, <2>8 DEF Filling
<1>19. Tracking(u, D, load)
  <2>1. SUFFICES ASSUME NEW r \in u.io
          PROVE  /\ r.op \in {"header", "entry"} => u.target.state # "FINALIZED"
                 /\ r.op = "pageEntry" => u.cursor.req_limit > 0
                 /\ r.op \in {"chunk", "page"} => Tracked(u, D, load, r.op)
    BY DEF Tracking
  <2>2. r \in p.io /\ t = p BY <1>7, <1>15, <2>1 DEF Mute, Taken, t
  <2>3. u.cursor = p.cursor /\ u.target = p.target BY <1>15, <2>2
  <2>4. /\ r.op \in {"header", "entry"} => p.target.state # "FINALIZED"
        /\ r.op = "pageEntry" => p.cursor.req_limit > 0
        /\ r.op \in {"chunk", "page"} => Tracked(p, disk, load, r.op)
    BY <2>2 DEF Deep, Tracking
  <2>5. ASSUME Tracked(p, disk, load, r.op) PROVE Tracked(u, D, load, r.op)
    <3>1. PICK g \in Slots : Fin(disk, g) /\ p.target = disk.toc[g]
      BY <2>5 DEF Tracked
    <3> DEFINE e == u.target
    <3>2. Fin(D, g) /\ e = D.toc[g] BY <1>14, <2>3, <3>1 DEF Fin
    <3>3. RightFor(u, e) = RightFor(p, e) BY <1>15 DEF RightFor
    <3>4. ASSUME RightFor(u, e), ~load.header_lost
          PROVE  /\ Stands(u.cursor, e, D.data)
                 /\ r.op = "page" => Roomy(u.cursor)
      <4>1. /\ Stands(p.cursor, e, x)
            /\ r.op = "page" => Roomy(p.cursor)
        BY <2>3, <2>5, <3>3, <3>4 DEF Tracked, x
      <4>2. e \in Entry /\ e.start_block >= DataStart /\ End(e) <= L
        BY <1>16, <3>2, <3>4
      <4>3. L \in Int BY <1>3
      <4> HIDE DEF e, L
      <4>4. Stands(p.cursor, e, y) BY <1>11, <4>1, <4>2, <4>3, StandsAlike
      <4>5. QED BY <1>14, <2>3, <4>1, <4>4
    <3>5. r.op = "chunk" => u.cursor.req_offset = 0
      BY <2>3, <2>5 DEF Tracked
    <3>6. QED BY <3>2, <3>4, <3>5 DEF Tracked
  <2>6. QED BY <2>3, <2>4, <2>5
<1>20. Dumped(u, load) /\ Paged(u, load) BY <1>15 DEF Dumped, Paged
<1>21. QED BY <1>2, <1>17, <1>18, <1>19, <1>20 DEF Deep, D, u

-----------------------------------------------------------------------------
(* Requests to the daemon *)

LEMMA TakenCarries ==
    ASSUME NEW s \in Process
    PROVE  Carries(s, Taken(s)) /\ Taken(s).buf_size = s.buf_size
<1>1. CASE s.said = "none" BY <1>1 DEF Taken, Carries
<1>2. CASE s.said # "none"
  <2> DEFINE t == Taken(s)
  <2>1. t = [s EXCEPT !.rc = "none", !.said = "none", !.cursor = NoCursor,
                      !.target = FreeEntry]
    BY <1>2 DEF Taken
  <2> HIDE DEF t
  <2>2. /\ t.up = s.up /\ t.recording = s.recording /\ t.vol = s.vol
        /\ t.segment_id = s.segment_id /\ t.buf_size = s.buf_size
        /\ t.segment_start_block = s.segment_start_block
        /\ t.next_write_block = s.next_write_block
        /\ t.record_count = s.record_count /\ t.stopping = s.stopping
    BY <2>1 DEF Process
  <2>3. Carries(s, t) BY <2>2 DEF Carries
  <2>4. QED BY <2>2, <2>3 DEF t
<1>3. QED BY <1>1, <1>2

LEMMA AskedFilling ==
    ASSUME VolumeInv, Deep(p, disk, load), Ready,
           NEW q \in {"start", "stop", "format", "page"}
    PROVE  LET x == Asked(q)
           IN  /\ Filling(x, disk) /\ x.buf_size = p.buf_size
               /\ x.record_count = p.record_count
               /\ x.next_write_block = p.next_write_block
<1> DEFINE t == Taken(p)
           x == Asked(q)
<1>1. p \in Process BY ReadSafe
<1>2. t \in Process /\ Footing(p, t) /\ t.record_count = p.record_count
      /\ Carries(p, t) /\ t.buf_size = p.buf_size
  BY <1>1, TakenIs, TakenCarries
<1>3. x = [t EXCEPT !.request = q] BY DEF Asked
<1> HIDE DEF t, x
<1>4. /\ Carries(t, x) /\ x.buf_size = t.buf_size
      /\ x.record_count = t.record_count
      /\ x.next_write_block = t.next_write_block
  BY <1>2, <1>3 DEF Process, Carries
<1>5. Filling(t, disk) BY <1>2, FillingCarried DEF Deep
<1>6. Filling(x, disk) BY <1>4, <1>5, FillingCarried
<1>7. QED BY <1>2, <1>4, <1>6 DEF x, Footing

LEMMA RefusedDeep ==
    ASSUME VolumeInv, Deep(p, disk, load), Ready,
           NEW q \in {"start", "stop", "format", "page"}, NEW l
    PROVE  Deep(Fulfill(Asked(q), "fail"), disk, l)
<1> DEFINE x == Asked(q)
           u == Fulfill(x, "fail")
<1>1. x \in Process /\ x.mode = "serve" /\ x.io = {} BY AskedIs
<1>2. Filling(x, disk) BY AskedFilling
<1> HIDE DEF x
<1>3. Carries(x, u) BY <1>1, EndsCarry
<1>4. u.io = {} /\ u.mode = "serve" /\ u.rc = "fail" BY <1>1, FulfillIs
<1> HIDE DEF u
<1>5. Deep(u, disk, l) BY <1>2, <1>3, <1>4, QuietDeep
<1>6. QED BY <1>5 DEF u, x

LEMMA RecordingStartDeep ==
    ASSUME VolumeInv, Stocked(disk, load), Deep(p, disk, load), RecordingStart
    PROVE  Stocked(disk', load') /\ Deep(p', disk', load')
<1> DEFINE x == Asked("start")
           u == ClaimSegmentStart(x)
<1>1. Ready /\ p' = u /\ disk' = disk /\ load' = load BY DEF RecordingStart
<1>2. /\ x \in Process /\ x.mode = "serve" /\ x.io = {} /\ x.said = "none"
      /\ x.request = "start"
  BY <1>1, AskedIs
<1>3. Deep(u, disk, load)
  <2>1. CASE x.recording
    <3>1. u = Fulfill(x, "fail") BY <2>1 DEF ClaimSegmentStart
    <3>2. Deep(Fulfill(x, "fail"), disk, load) BY <1>1, RefusedDeep
    <3> HIDE DEF x, u
    <3>3. QED BY <3>1, <3>2
  <2>2. CASE ~x.recording
    <3> HIDE DEF x
    <3>1. Mild(x, u) BY <1>2, <2>2, MildClaim
    <3> HIDE DEF u
    <3>2. QED BY <1>2, <3>1, MildDeep
  <2>3. QED BY <2>1, <2>2
<1> HIDE DEF u
<1>4. QED BY <1>1, <1>3

\* Records are dropped by a stop only where no chunk fits the device, and no
\* more of them than a chunk takes.
LEMMA LeftOverIs ==
    ASSUME NEW s \in Process, NEW n \in LeftOver(s)
    PROVE  /\ n \in Nat
           /\ n # 0 => /\ s.next_write_block + s.buf_size > NumBlocks
                       /\ n <= s.buf_size \div RecLen
<1> DEFINE a == s.buf_size \div RecLen
           b == MaxRecords - s.record_count
           m == Min({a, b})
<1>1. n \in Nat BY LeftOverTyped
<1>2. ASSUME n # 0
      PROVE  s.next_write_block + s.buf_size > NumBlocks /\ n <= a
  <2>1. s.next_write_block + s.buf_size > NumBlocks /\ n \in 0 .. m
    <3> HIDE DEF m
    <3>1. QED BY <1>2 DEF LeftOver, m
  <2>2. a \in Int /\ b \in Int
    <3>1. s.buf_size \in Nat /\ s.record_count \in Nat
      BY Geometry DEF Process
    <3>2. MaxRecords \in Nat BY VolumeAssumption
    <3>3. QED BY <3>1, <3>2, Geometry, Division
  <2> HIDE DEF a, b
  <2>3. m = IF a <= b THEN a ELSE b BY <2>2, MinOfTwo
  <2> HIDE DEF m
  <2>4. n <= a BY <2>1, <2>2, <2>3
  <2>5. QED BY <2>1, <2>4
<1>3. QED BY <1>1, <1>2

LEMMA StopDeep ==
    ASSUME NEW s \in Process, NEW n \in Nat, NEW d, NEW l, s.up, s.recording,
           ~s.stopping, s.io = {}, s.said = "none", s.mode # "dump",
           Filling(s, d),
           n # 0 => /\ s.next_write_block + s.buf_size > NumBlocks
                    /\ n <= s.buf_size \div RecLen
    PROVE  Deep(StopRecording(s, n), d, l)
<1> DEFINE L == s.next_write_block
           size == s.buf_size
           o == Owner(s.vol.era, s.segment_id)
           a == s.record_count
           c == a + n
           t == [s EXCEPT !.stopping = TRUE, !.record_count = c]
           v == [s.vol EXCEPT !.next_data_block = L]
           w == [t EXCEPT !.vol = v, !.vol_buf = v]
           u == StopRecording(s, n)
<1>1. /\ a \in Nat /\ L \in Nat /\ size \in Nat /\ s.vol \in Header
      /\ v.era = s.vol.era
  <2>1. s.vol \in Header BY DEF Process
  <2>2. v.era = s.vol.era BY <2>1 DEF Header
  <2>3. QED BY <2>1, <2>2, Geometry DEF Process
<1>2. u = Submit(w, "finHdr", 0, 1)
  <2>1. t.vol = s.vol /\ t.next_write_block = L BY DEF Process
  <2>2. t = [s EXCEPT !.stopping = TRUE, !.record_count = @ + n] OBVIOUS
  <2> HIDE DEF t
  <2>3. u = FinalizeSegment(t) BY <2>2 DEF StopRecording
  <2>4. QED BY <2>1, <2>3 DEF FinalizeSegment
<1> HIDE DEF v, c
<1>3. /\ w.stopping /\ w.record_count = c /\ w.vol = v /\ w.io = {}
      /\ w.recording /\ w.up /\ w.said = "none" /\ w.mode = s.mode
      /\ w.segment_id = s.segment_id /\ w.next_write_block = L
      /\ w.segment_start_block = s.segment_start_block /\ w.buf_size = size
  BY DEF Process
<1>4. u = [w EXCEPT !.io = {Rq("finHdr", 0, 1)}]
  <2> HIDE DEF u, w
  <2>1. QED BY <1>2, <1>3 DEF Submit, Rq
<1> DEFINE q == {Rq("finHdr", 0, 1)}
<1>5. /\ u.stopping /\ u.record_count = c /\ u.vol = v
      /\ u.recording /\ u.up /\ u.said = "none" /\ u.mode = s.mode
      /\ u.segment_id = s.segment_id /\ u.next_write_block = L
      /\ u.segment_start_block = s.segment_start_block /\ u.buf_size = size
      /\ u.io = q
  <2> HIDE DEF u, q
  <2>1. u = [w EXCEPT !.io = q] BY <1>4 DEF q
  <2>2. u = [s EXCEPT !.stopping = TRUE, !.record_count = c, !.vol = v,
                      !.vol_buf = v, !.io = q]
    BY <2>1 DEF Process
  <2>3. QED BY <2>2 DEF Process
<1> HIDE DEF u, w, t
<1>6. Filling(u, d)
  <2>1. PICK K, first :
          /\ Chunked(d.data, o, s.segment_start_block, L, size, K, first)
          /\ first[L] = a
    BY DEF Filling
  <2>2. Short(L, size, a, c)
    <3> DEFINE z == size \div RecLen
    <3>1. n # 0 => L + size > NumBlocks /\ n <= z OBVIOUS
    <3> HIDE DEF L, size, a, z
    <3>2. a # c => n # 0 BY <1>1 DEF c
    <3>3. n # 0 => a < c /\ c - a = n BY <1>1 DEF c
    <3>4. a # c => a < c /\ L + size > NumBlocks /\ c - a <= z
      BY <3>1, <3>2, <3>3
    <3>5. QED BY <3>4 DEF Short, z
  <2>3. o = Owner(u.vol.era, u.segment_id) BY <1>1, <1>5
  <2> HIDE DEF o, L, size, a
  <2>4. QED BY <1>5, <2>1, <2>2, <2>3 DEF Filling
<1>7. \A r \in u.io : r.op \notin Readings BY <1>5 DEF Rq, Readings
<1>8. Tracking(u, d, l) BY <1>7 DEF Tracking, Readings
<1>9. Dumped(u, l) /\ Paged(u, l) BY <1>5 DEF Dumped, Paged
<1>10. QED BY <1>6, <1>8, <1>9 DEF Deep, u

LEMMA RecordingStopDeep ==
    ASSUME VolumeInv, Stocked(disk, load), Deep(p, disk, load), RecordingStop
    PROVE  Stocked(disk', load') /\ Deep(p', disk', load')
<1> DEFINE x == Asked("stop")
<1>1. Ready /\ p.recording /\ disk' = disk /\ load' = load
  BY DEF RecordingStop
<1>2. PICK n \in LeftOver(p) : p' = StopRecording(x, n) BY DEF RecordingStop
<1>3. p \in Process BY ReadSafe
<1>4. /\ n \in Nat
      /\ n # 0 => /\ p.next_write_block + p.buf_size > NumBlocks
                  /\ n <= p.buf_size \div RecLen
  BY <1>3, LeftOverIs
<1>5. /\ x \in Process /\ x.up /\ x.mode = "serve" /\ x.io = {}
      /\ x.said = "none" /\ x.recording /\ AtRest(x, disk, load)
  BY <1>1, AskedIs DEF Footing
<1>6. /\ Filling(x, disk) /\ x.buf_size = p.buf_size
      /\ x.next_write_block = p.next_write_block
  BY <1>1, AskedFilling
<1> HIDE DEF x
<1>7. ~x.stopping BY <1>5 DEF AtRest, Resting, Writing
<1>8. Deep(StopRecording(x, n), disk, load)
  BY <1>4, <1>5, <1>6, <1>7, StopDeep
<1>9. QED BY <1>1, <1>2, <1>8

LEMMA QuickFormatAskedDeep ==
    ASSUME VolumeInv, Stocked(disk, load), Deep(p, disk, load), QuickFormatAsked
    PROVE  Stocked(disk', load') /\ Deep(p', disk', load')
<1> DEFINE x == Asked("format")
           era == load.formats + 1
           u == QuickFormat(x, era)
<1>1. /\ Ready /\ p' = u /\ disk' = disk
      /\ load' = [load EXCEPT !.formats = era]
  BY DEF QuickFormatAsked
<1>2. /\ x \in Process /\ x.mode = "serve" /\ x.io = {} /\ x.said = "none"
      /\ x.request = "format"
  BY <1>1, AskedIs
<1>3. load \in Loads /\ era \in Nat
  <2>1. load \in Loads BY ReadSafe
  <2>2. QED BY <2>1 DEF Loads
<1> HIDE DEF era
<1>4. load'.header_lost = load.header_lost BY <1>1, <1>3 DEF Loads
<1>5. Stocked(disk', load') BY <1>1, <1>4, StockedGrown
<1>6. Deep(u, disk, load')
  <2>1. CASE x.recording
    <3>1. u = Fulfill(x, "fail") BY <2>1 DEF QuickFormat
    <3>2. Deep(Fulfill(x, "fail"), disk, load') BY <1>1, RefusedDeep
    <3> HIDE DEF x, u
    <3>3. QED BY <3>1, <3>2
  <2>2. CASE ~x.recording
    <3> DEFINE v == FreshHeader(era)
               t == [x EXCEPT !.staged = v, !.init_cur_block = TocStart]
    <3>1. u = QuickFormatZero(t) BY <2>2 DEF QuickFormat
    <3> HIDE DEF x
    <3>2. v \in Header /\ TocStart \in Nat BY <1>3, Fresh, Geometry
    <3> HIDE DEF v
    <3>3. /\ t \in Process /\ t.io = {} /\ ~t.recording /\ t.said = "none"
          /\ t.request = "format" /\ t.mode = "serve"
      BY <1>2, <2>2, <3>2 DEF Process
    <3> HIDE DEF t, u
    <3>4. Mild(t, u) BY <3>1, <3>3, MildFormats
    <3>5. QED BY <3>3, <3>4, MildDeep
  <2>3. QED BY <2>1, <2>2
<1> HIDE DEF u
<1>7. QED BY <1>1, <1>5, <1>6

LEMMA PageAskedDeep ==
    ASSUME VolumeInv, Stocked(disk, load), Deep(p, disk, load), PageAsked
    PROVE  Stocked(disk', load') /\ Deep(p', disk', load')
<1> DEFINE x == Asked("page")
<1>1. PICK seg \in Slots, offset \in 0 .. MaxRecords - 1,
           limit \in 1 .. MaxRecords :
         /\ Ready
         /\ p' = Submit([x EXCEPT
                           !.cursor = [NoCursor EXCEPT !.req_offset = offset,
                                                       !.req_limit = limit]],
                        "pageEntry", p.vol.toc_start + seg, 1)
         /\ disk' = disk /\ load' = load
  BY DEF PageAsked
<1> DEFINE c == [NoCursor EXCEPT !.req_offset = offset, !.req_limit = limit]
           t == [x EXCEPT !.cursor = c]
           at == p.vol.toc_start + seg
           u == Submit(t, "pageEntry", at, 1)
<1>2. /\ x \in Process /\ x.mode = "serve" /\ x.io = {} /\ x.said = "none"
  BY <1>1, AskedIs
<1>3. Filling(x, disk) BY <1>1, AskedFilling
<1>4. c \in Cursor /\ c.req_limit > 0
  <2>1. offset \in Nat /\ limit \in Nat /\ limit > 0
    <3>1. MaxRecords \in Nat BY VolumeAssumption
    <3>2. QED BY <3>1
  <2>2. NoCursor \in Cursor BY DEF NoCursor, Cursor
  <2>3. QED BY <2>1, <2>2 DEF Cursor
<1>5. p' = u BY <1>1
<1> HIDE DEF x, c, at
<1>6. /\ t \in Process /\ t.mode = "serve" /\ t.io = {} /\ t.said = "none"
      /\ t.cursor = c
  BY <1>2, <1>4 DEF Process
<1>7. Carries(x, t) BY <1>2, EndsCarry
<1> HIDE DEF t
<1>8. Filling(t, disk) BY <1>3, <1>7, FillingCarried
<1>9. Carries(t, u) BY <1>6, EndsCarry
<1>10. /\ u.mode = "serve" /\ u.said = "none" /\ u.cursor = c
       /\ u.io = {Rq("pageEntry", at, 1)}
  BY <1>6 DEF Submit, Process, Rq
<1> HIDE DEF u
<1>11. Filling(u, disk) BY <1>8, <1>9, FillingCarried
<1>12. \A r \in u.io : r.op = "pageEntry" BY <1>10 DEF Rq
<1>13. Tracking(u, disk, load) BY <1>4, <1>10, <1>12 DEF Tracking
<1>14. Dumped(u, load) /\ Paged(u, load) BY <1>10 DEF Dumped, Paged
<1>15. QED BY <1>1, <1>5, <1>11, <1>13, <1>14 DEF Deep

-----------------------------------------------------------------------------
(* Signals, starts, deaths *)

LEMMA InterruptDeep ==
    ASSUME VolumeInv, Stocked(disk, load), Deep(p, disk, load), Interrupt,
           Signals = FALSE
    PROVE  Stocked(disk', load') /\ Deep(p', disk', load')
<1> DEFINE t == Taken(p)
           s == [t EXCEPT !.shutting_down = TRUE]
           u == p'
<1>1. /\ p.up /\ ~p.shutting_down /\ disk' = disk /\ load' = load
      /\ Recording \/ (p.mode = "serve" /\ ~p.recording)
  BY DEF Interrupt
<1>2. PICK n \in LeftOver(p) :
         u = IF s.mode = "serve" /\ ~s.recording THEN Exit(s, "ok")
             ELSE StopRecording(s, n)
  BY DEF Interrupt
<1>3. p \in Process BY ReadSafe
<1>4. /\ n \in Nat
      /\ n # 0 => /\ p.next_write_block + p.buf_size > NumBlocks
                  /\ n <= p.buf_size \div RecLen
  BY <1>3, LeftOverIs
<1>5. /\ t \in Process /\ Footing(p, t) /\ t.said = "none" /\ t.io = p.io
      /\ t.request = p.request /\ Carries(p, t) /\ t.buf_size = p.buf_size
  BY <1>3, TakenIs, TakenCarries
<1> HIDE DEF t
<1>6. /\ s \in Process /\ Footing(t, s) /\ s.said = t.said /\ s.io = t.io
      /\ s.request = t.request /\ s.buf_size = t.buf_size
      /\ s.shutting_down /\ Carries(t, s)
  BY <1>5 DEF Process, Footing, Carries
<1> HIDE DEF s, u
<1>7. /\ s.mode = p.mode /\ s.recording = p.recording /\ s.up
      /\ s.stopping = p.stopping /\ s.next_write_block = p.next_write_block
      /\ s.buf_size = p.buf_size /\ s.said = "none" /\ s.io = p.io
  BY <1>1, <1>5, <1>6 DEF Footing
<1>8. Filling(s, disk)
  <2>1. Filling(t, disk) BY <1>5, FillingCarried DEF Deep
  <2>2. QED BY <1>6, <2>1, FillingCarried
<1>9. CASE p.mode = "serve" /\ ~p.recording
  <2>1. u = Exit(s, "ok") BY <1>2, <1>7, <1>9
  <2>2. ~u.recording /\ u.io = {} /\ u.said = "none" /\ u.mode = p.mode
    BY <1>6, <1>7, <2>1 DEF Exit, Process
  <2>3. Deep(u, disk, load)
    BY <1>9, <2>2 DEF Deep, Filling, Tracking, Dumped, Paged
  <2>4. QED BY <1>1, <2>3 DEF u
<1>10. CASE p.recording /\ (p.mode = "serve" => p.request = "none")
  <2>1. u = StopRecording(s, n) BY <1>2, <1>7, <1>10
  <2>2. Phase(p, disk, load) BY DEF VolumeInv, Sound
  <2>3. \/ Writing(p, disk, load) /\ p.io = {}
        \/ Finalizing(p, disk, load)
    <3>1. ~Formatting(p, disk, load) /\ ~Opening(p) /\ ~Reading(p, disk)
      BY <1>10 DEF Formatting, Opening, Reading
    <3>2. ~Claiming(p, disk, load) /\ ~Renewing(p, disk, load)
          /\ ~Resting(p, disk, load)
      BY <1>10 DEF Claiming, EntryDue, HeaderDue, Claimed, Renewing, Resting
    <3>3. ~Paging(p, disk, load) BY <1>10 DEF Paging
    <3>4. QED BY <1>1, <2>2, <3>1, <3>2, <3>3 DEF Phase
  <2>4. p.mode # "dump"
    BY <2>3 DEF Writing, Finalizing, Stopping, Session, Recorder
  <2>5. Deep(u, disk, load)
    <3>1. CASE Writing(p, disk, load) /\ p.io = {}
      <4>1. ~s.stopping BY <1>7, <3>1 DEF Writing
      <4> HIDE DEF Writing
      <4>2. Deep(StopRecording(s, n), disk, load)
        BY <1>4, <1>6, <1>7, <1>8, <1>10, <2>4, <3>1, <4>1, StopDeep
      <4>3. QED BY <2>1, <4>2
    <3>2. CASE Finalizing(p, disk, load)
      <4>1. p.stopping /\ \A r \in p.io : r.op \notin Readings
        BY <3>2 DEF Finalizing, Stopping, Rq, Readings
      <4>2. u = s BY <1>7, <2>1, <4>1 DEF StopRecording
      <4>3. Tracking(s, disk, load) BY <1>7, <4>1 DEF Tracking, Readings
      <4>4. Dumped(s, load) /\ Paged(s, load)
        BY <1>7, <2>4 DEF Dumped, Paged
      <4>5. QED BY <1>8, <4>2, <4>3, <4>4 DEF Deep
    <3>3. QED BY <2>3, <3>1, <3>2
  <2>6. QED BY <1>1, <2>5 DEF u
<1>11. QED BY <1>1, <1>9, <1>10 DEF Recording

LEMMA BootDeep ==
    ASSUME VolumeInv, Stocked(disk, load), Deep(p, disk, load), Boot
    PROVE  Stocked(disk', load') /\ Deep(p', disk', load')
<1>1. PICK mode \in Modes, size \in ChunkSizes, seg \in Slots :
         /\ p' = Booted(mode, size, seg) /\ disk' = disk
         /\ load' = [load EXCEPT !.boots = @ + 1]
  BY DEF Boot
<1> DEFINE u == p'
           n == load.boots + 1
<1>2. load'.header_lost = load.header_lost
  <2>1. load \in Loads BY ReadSafe
  <2>2. load' = [load EXCEPT !.boots = n] BY <1>1
  <2> HIDE DEF n
  <2>3. QED BY <2>1, <2>2 DEF Loads
<1>3. Stocked(disk', load') BY <1>1, <1>2, StockedGrown
<1>4. /\ u.up /\ ~u.recording /\ u.said = "none"
      /\ u.io = {Rq(IF mode \in {"init", "force"} THEN "check" ELSE "header",
                    0, 1)}
  BY <1>1, BootedTyped
<1>5. u.target.state # "FINALIZED"
  <2>1. u.target = FreeEntry BY <1>1 DEF Booted
  <2>2. QED BY <2>1 DEF FreeEntry
<1> HIDE DEF u
<1>6. \A r \in u.io : r.op \in {"check", "header"} BY <1>4 DEF Rq
<1>7. Filling(u, disk') BY <1>4 DEF Filling
<1>8. Tracking(u, disk', load') BY <1>5, <1>6 DEF Tracking
<1>9. Dumped(u, load') /\ Paged(u, load') BY <1>4 DEF Dumped, Paged
<1>10. QED BY <1>3, <1>7, <1>8, <1>9 DEF Deep, u

LEMMA OffDeep ==
    ASSUME NEW d, NEW l
    PROVE  Deep(Off, d, l)
<1> DEFINE z == Min(ChunkSizes)
           b == Booted("list", z, 0)
<1>1. b \in Process /\ b.said = "none" /\ b.mode = "list"
  <2>1. "list" \in Modes /\ 0 \in Slots BY Geometry DEF Modes
  <2>2. z \in ChunkSizes BY MinChunk
  <2> HIDE DEF z
  <2>3. QED BY <2>1, <2>2, BootedTyped
<1>2. Off = [b EXCEPT !.up = FALSE, !.io = {}] BY DEF Off
<1> HIDE DEF b
<1>3. ~Off.up /\ Off.io = {} /\ Off.said = "none" /\ Off.mode = "list"
  BY <1>1, <1>2 DEF Process
<1>4. QED BY <1>3 DEF Deep, Filling, Tracking, Dumped, Paged

LEMMA CrashDeep ==
    ASSUME VolumeInv, Stocked(disk, load), Deep(p, disk, load), Crash
    PROVE  Stocked(disk', load') /\ Deep(p', disk', load')
<1>1. p' = Off /\ load' = load BY DEF Crash
<1>0. PICK r \in p.io : \E B \in SUBSET Blocks(r) :
         disk' = IF r.op \in Writes THEN Performed(r, B) ELSE disk
  BY DEF Crash
<1>2. PICK B \in SUBSET Blocks(r) :
         disk' = IF r.op \in Writes THEN Performed(r, B) ELSE disk
  BY <1>0
<1>3. Stocked(disk', load)
  <2>1. CASE r.op \in Writes
    <3>1. Stocked(Performed(r, B), load) BY <2>1, WriteStocked DEF Deep
    <3>2. QED BY <1>2, <2>1, <3>1
  <2>2. CASE r.op \notin Writes BY <1>2, <2>2
  <2>3. QED BY <2>1, <2>2
<1>4. Deep(p', disk', load') BY <1>1, OffDeep
<1>5. QED BY <1>1, <1>3, <1>4

-----------------------------------------------------------------------------
(* The devices a process may find *)

LEMMA UnformattedStocked ==
    ASSUME NEW d \in Unformatted, NEW l
    PROVE  Stocked(d, l)
<1> DEFINE z == Min(ChunkSizes)
           e == StaleEntry(z, 0, 0)
<1>1. \A g \in Slots : d.toc[g] = e BY DEF Unformatted
<1>2. e.magic BY DEF StaleEntry
<1> HIDE DEF e
<1>3. Branded(d) BY <1>1, <1>2 DEF Branded
<1>4. ~Accepted(d.hdr)
  <2>1. d.hdr \in {NoHeader, [NoHeader EXCEPT !.kind = "V1"],
                   [FreshHeader(0) EXCEPT !.kind = "V2other"],
                   [FreshHeader(0) EXCEPT !.block_size = BlockSize + 1]}
    BY DEF Unformatted
  <2>2. BlockSize = 1 BY Geometry
  <2>3. QED BY <2>1, <2>2 DEF Accepted, NoHeader, FreshHeader
<1>5. QED BY <1>3, <1>4 DEF Stocked, Preserved

LEMMA OlderStocked ==
    ASSUME NEW size \in ChunkSizes, 2 * size <= DataBlocks, NEW l
    PROVE  Stocked(Older(size), l)
<1> DEFINE n == size \div RecLen
           b == DataStart
           o == Owner(1, 0)
           none == [k \in DataStart .. NumBlocks - 1 |-> Blank]
           x == Stored(none, b, Laid(1, 0, 0, n), size)
           y == Stored(x, b + size, Laid(1, 0, n, n), size)
           d == Older(size)
           e == StaleEntry(size, 0, 1)
<1>1. /\ size \in Nat /\ size > 0 /\ RecLen <= size /\ b \in Nat
      /\ b + size \in Nat /\ b + 2 * size <= NumBlocks
  BY Geometry
<1>2. n \in Nat /\ n > 0 /\ n * RecLen <= size
  <2>1. RecLen \in Nat /\ RecLen > 0 BY Geometry
  <2>2. n \in Nat BY <1>1, <2>1, Division
  <2>3. n > 0
    <3>1. /\ size = RecLen * n + (size % RecLen) /\ size % RecLen \in Nat
          /\ size % RecLen < RecLen
      BY <1>1, <2>1, Division
    <3> DEFINE m == size % RecLen
    <3> HIDE DEF n, m
    <3>2. CASE n = 0
      <4>1. size = m /\ m < RecLen /\ m \in Nat
        BY <2>1, <3>1, <3>2 DEF m
      <4>2. QED BY <1>1, <2>1, <4>1
    <3>3. QED BY <2>2, <3>2
  <2>4. n * RecLen <= size
    <3> HIDE DEF n
    <3>1. n <= size \div RecLen BY <2>2 DEF n
    <3>2. QED BY <1>1, <2>2, <3>1, ChunkTakes
  <2>5. QED BY <2>2, <2>3, <2>4
<1>3. o \in Owners /\ o.era = 1 /\ o.seg = 0 BY DEF Owner, Owners
<1>4. /\ d.data = y /\ d.toc[0] = e
      /\ \A g \in Slots : d.toc[g] = e \/ d.toc[g] = FreeEntry
      /\ \A g \in Slots : g # 0 => d.toc[g] = FreeEntry
  <2>1. 0 \in Slots BY Geometry
  <2> HIDE DEF e
  <2>2. d.toc = [g \in Slots |-> IF g = 0 THEN e ELSE FreeEntry]
    BY DEF Older, e
  <2>3. d.data = y BY DEF Older
  <2> HIDE DEF d, y
  <2>4. QED BY <2>1, <2>2, <2>3
<1> HIDE DEF d, o
<1>5. /\ e.magic /\ e.era = 1 /\ e.segment_id = 0 /\ e.start_block = b
      /\ e.block_count = 2 * size /\ e.record_count = 2 * n /\ e.laid = size
  BY DEF StaleEntry
<1> HIDE DEF e
<1>6. none \in [DataStart .. NumBlocks - 1 -> Cell] BY BlankTyped
<1> HIDE DEF none, n
<1>7. x \in [DataStart .. NumBlocks - 1 -> Cell]
  <2>1. Laid(1, 0, 0, n) \in [0 .. n * RecLen - 1 -> Cell] BY LaidTyped
  <2>2. QED BY <1>6, <2>1, StoredTyped
<1>8. Holds(x, b, size, o, 0, n)
  <2>1. b + size <= NumBlocks BY <1>1, Geometry
  <2> DEFINE q == Stored(none, b, Laid(o.era, o.seg, 0, n), size)
  <2>2. Holds(q, b, size, o, 0, 0 + n)
    <3> HIDE DEF b
    <3>1. DataStart <= b BY <1>1 DEF b
    <3>2. \A a \in Nat :
             Holds(Stored(none, b, Laid(o.era, o.seg, a, n), size), b, size, o,
                   a, a + n)
      BY <1>1, <1>2, <1>3, <1>6, <2>1, <3>1, StoredHolds
    <3>3. 0 \in Nat OBVIOUS
    <3>4. QED BY <3>2, <3>3
  <2>3. q = x BY <1>3
  <2>4. 0 + n = n BY <1>2
  <2> HIDE DEF q, x
  <2>5. QED BY <2>2, <2>3, <2>4
<1> HIDE DEF x
<1> DEFINE L == b + size
           M == L + size
<1>9. Holds(y, L, size, o, n, n + n) /\ Alike(x, y, L)
  <2>1. L \in Nat /\ DataStart <= L /\ L + size <= NumBlocks
    BY <1>1, Geometry
  <2> DEFINE q == Stored(x, L, Laid(o.era, o.seg, n, n), size)
  <2> HIDE DEF L
  <2>2. Holds(q, L, size, o, n, n + n) /\ Alike(x, q, L)
    BY <1>1, <1>2, <1>3, <1>7, <2>1, StoredHolds
  <2>3. q = y BY <1>3 DEF L
  <2> HIDE DEF q, y
  <2>4. QED BY <2>2, <2>3
<1> HIDE DEF y
<1>10. PICK K, first : Chunked(y, o, b, M, size, K, first) /\ first[M] = n + n
  <2> DEFINE J == {b}
             f == [k \in J |-> 0]
  <2>1. Chunked(x, o, b, b, size, J, f) /\ f[b] = 0 BY <1>1 DEF Chunked
  <2> HIDE DEF J, f
  <2>2. Holds(x, b, size, o, f[b], n) BY <1>8, <2>1
  <2>3. PICK G, h : Chunked(x, o, b, L, size, G, h) /\ h[L] = n
    BY <1>1, <1>2, <2>1, <2>2, ChunkedGrows
  <2>4. L \in Nat /\ L \in Int /\ L <= L /\ DataStart <= b BY <1>1
  <2> HIDE DEF L
  <2>5. Chunked(y, o, b, L, size, G, h)
    BY <1>1, <1>9, <2>3, <2>4, ChunkedAlike
  <2>6. Holds(y, L, size, o, h[L], n + n) BY <1>9, <2>3
  <2>7. n + n \in Nat BY <1>2
  <2>8. QED BY <1>1, <2>4, <2>5, <2>6, <2>7, ChunkedGrows
<1>11. Complete(y, e)
  <2>1. End(e) = M BY <1>1, <1>5 DEF End
  <2>2. OwnerOf(e) = o BY <1>5 DEF OwnerOf, o
  <2>3. n + n = 2 * n BY <1>2
  <2> HIDE DEF M, b
  <2>4. Short(M, size, first[M], e.record_count)
    BY <1>5, <1>10, <2>3 DEF Short
  <2>5. Row(y, e, K, first) BY <1>5, <1>10, <2>1, <2>2, <2>4 DEF Row
  <2>6. QED BY <1>1, <1>5, <2>5 DEF Complete
<1>12. FreeEntry.state # "FINALIZED" BY DEF FreeEntry
<1>13. Branded(d) BY <1>4, <1>5, <1>12 DEF Branded
<1>14. Preserved(d, l)
  <2>1. \A g \in Slots : Fin(d, g) => d.toc[g] = e BY <1>4, <1>12 DEF Fin
  <2>2. QED BY <1>4, <1>11, <2>1 DEF Preserved
<1>15. QED BY <1>13, <1>14 DEF Stocked, d

LEMMA InitDataInv == Init => DataInv
<1>1. SUFFICES ASSUME Init PROVE DataInv OBVIOUS
<1>2. VolumeInv BY <1>1, InitVolumeInv
<1>3. Deep(p, disk, load) BY <1>1, OffDeep DEF Init
<1>4. Stocked(disk, load)
  <2>1. CASE disk \in Unformatted BY <2>1, UnformattedStocked
  <2>2. ASSUME NEW size \in ChunkSizes, 2 * size <= DataBlocks,
               disk = Older(size)
        PROVE  Stocked(disk, load)
    BY <2>2, OlderStocked
  <2>3. QED BY <1>1, <2>1, <2>2 DEF Init
<1>5. QED BY <1>2, <1>3, <1>4 DEF DataInv

-----------------------------------------------------------------------------
(* Every step *)

LEMMA NextDataInv ==
    ASSUME DataInv, Signals = FALSE, [Next]_vars
    PROVE  DataInv'
<1>1. VolumeInv /\ Stocked(disk, load) /\ Deep(p, disk, load) BY DEF DataInv
<1>2. Stocked(disk', load') /\ Deep(p', disk', load')
  <2>1. CASE Boot BY <1>1, <2>1, BootDeep
  <2>2. CASE IoDone BY <1>1, <2>2, IoDoneDeep
  <2>3. CASE IoFails BY <1>1, <2>3, IoFailsDeep
  <2>4. CASE FinalizeIo BY <1>1, <2>4, FinalizeIoDeep
  <2>5. CASE RecordingStart BY <1>1, <2>5, RecordingStartDeep
  <2>6. CASE RecordingStop BY <1>1, <2>6, RecordingStopDeep
  <2>7. CASE QuickFormatAsked BY <1>1, <2>7, QuickFormatAskedDeep
  <2>8. CASE PageAsked BY <1>1, <2>8, PageAskedDeep
  <2>9. CASE Record BY <1>1, <2>9, RecordDeep
  <2>10. CASE Interrupt BY <1>1, <2>10, InterruptDeep
  <2>11. CASE Crash BY <1>1, <2>11, CrashDeep
  <2>12. CASE UNCHANGED vars
    <3>1. disk' = disk /\ p' = p /\ load' = load BY <2>12 DEF vars
    <3>2. QED BY <1>1, <3>1
  <2>13. QED
    BY <2>1, <2>2, <2>3, <2>4, <2>5, <2>6, <2>7, <2>8, <2>9, <2>10, <2>11,
       <2>12 DEF Next
<1>3. VolumeInv' BY <1>1, NextVolumeInv
<1>4. QED BY <1>2, <1>3 DEF DataInv

\* Below every finalized entry the device holds chunk after chunk of the
\* segment's records, and what a recording has flushed so far lies above them:
\* no format, claim, flush, finalize, repair, failed write or death takes a
\* record from a finalized segment.
THEOREM DataInvAlways ==
    ASSUME Signals = FALSE PROVE Spec => []DataInv
<1>1. DataInv /\ [Next]_vars => DataInv' BY NextDataInv
<1>2. QED BY <1>1, InitDataInv, PTL DEF Spec

LEMMA RunIsWindow ==
    ASSUME NEW e, NEW a \in Nat, NEW n \in Nat
    PROVE  Run(OwnerOf(e), a, n) = Window(e, a, n - 1)
<1>1. n - a = (n - 1) - a + 1 OBVIOUS
<1>2. Window(e, a, n - 1) =
         [k \in 1 .. n - a |-> [era |-> e.era, seg |-> e.segment_id,
                                seq |-> a + k - 1, len |-> RecLen]]
  BY <1>1 DEF Window
<1>3. \A k : Numbered(OwnerOf(e), a + k - 1) =
               [era |-> e.era, seg |-> e.segment_id, seq |-> a + k - 1,
                len |-> RecLen]
  BY DEF Numbered, OwnerOf, Owner
<1>4. QED BY <1>2, <1>3 DEF Run

\* A dump of a finalized segment shows all its records, once and in order, and
\* succeeds unless the device fails; where the device was full it may fail,
\* after it has shown all but one buffer of them.
THEOREM DumpShowsEverything ==
    ASSUME Signals = FALSE PROVE Spec => []DumpIsComplete
<1>1. ASSUME DataInv PROVE DumpIsComplete
  <2> DEFINE e == p.target
             count == Len(p.cursor.shown)
  <2>1. Dumped(p, load) /\ p \in Process
    BY <1>1 DEF DataInv, Deep, VolumeInv, Sound
  <2>2. count \in Nat
    <3>1. p.cursor \in Cursor BY <2>1 DEF Process
    <3>2. p.cursor.shown \in Seq(Cell) BY <3>1, CursorTyped
    <3>3. QED BY <3>2, LenProperties
  <2> HIDE DEF count
  <2>3. Run(OwnerOf(e), 0, count) = Window(e, 0, count - 1)
    BY <2>2, RunIsWindow
  <2>4. RightSize(e) = RightFor(p, e) BY DEF RightSize, RightFor
  <2>5. QED BY <2>1, <2>3, <2>4 DEF Dumped, DumpIsComplete, count
<1>2. DataInv => DumpIsComplete BY <1>1
<1>3. QED BY <1>2, DataInvAlways, PTL

\* A page, read while the daemon rests or records, shows exactly the records
\* its offset and limit ask for, and says whether the segment goes on.
THEOREM PageShowsItsWindow ==
    ASSUME Signals = FALSE PROVE Spec => []PageIsWindow
<1>1. ASSUME DataInv PROVE PageIsWindow
  <2> DEFINE e == p.target
             a == p.cursor.req_offset
             z == a + p.cursor.req_limit
             last == Min({z, e.record_count})
  <2>1. Paged(p, load) /\ p \in Process
    BY <1>1 DEF DataInv, Deep, VolumeInv, Sound
  <2>2. a \in Nat /\ last \in Nat
    <3>1. p.cursor \in Cursor /\ e \in Entry BY <2>1 DEF Process
    <3>2. a \in Nat /\ p.cursor.req_limit \in Nat BY <3>1, CursorTyped
    <3>3. z \in Nat /\ e.record_count \in Nat BY <3>1, <3>2 DEF Entry
    <3> DEFINE c == e.record_count
    <3> HIDE DEF z, c, a
    <3>4. Min({z, c}) = IF z <= c THEN z ELSE c BY <3>3, MinOfTwo DEF c
    <3>5. Min({z, c}) \in Nat BY <3>3, <3>4 DEF c
    <3>6. QED BY <3>2, <3>5 DEF c
  <2> HIDE DEF a, last
  <2>3. Run(OwnerOf(e), a, last) = Window(e, a, last - 1)
    BY <2>2, RunIsWindow
  <2>4. RightSize(e) = RightFor(p, e) BY DEF RightSize, RightFor
  <2>5. QED BY <2>1, <2>3, <2>4 DEF Paged, PageIsWindow, a, last
<1>2. DataInv => PageIsWindow BY <1>1
<1>3. QED BY <1>2, DataInvAlways, PTL
=============================================================================
