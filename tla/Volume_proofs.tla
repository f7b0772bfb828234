---------------------------- MODULE Volume_proofs ----------------------------
(***************************************************************************)
(* One volume across processes, for every number of slots, blocks and      *)
(* chunk sizes, and for processes of any modes that fail or die anywhere,  *)
(* when a SIGINT that finds nothing to finalize reaches daemons only       *)
(* (Signals = FALSE; with it the high-water mark is lost, see              *)
(* HighWaterInDataArea).                                                   *)
(*                                                                         *)
(* The inductive invariant says what a device holds between processes      *)
(* (Consistent) and which step of which chain of I/O the process has       *)
(* reached (Phase): what it has been handed, and how its copy of the       *)
(* header stands to the one on the device.                                 *)
(***************************************************************************)
EXTENDS VolumeProperties, SequenceTheorems, WellFoundedInduction, TLAPS

-----------------------------------------------------------------------------
(* The invariant *)

Fin(d, g) == Visible(d.toc[g]) /\ d.toc[g].state = "FINALIZED"
End(e) == e.start_block + e.block_count

Apart(d) ==
    /\ \A g \in Slots : Fin(d, g) => End(d.toc[g]) <= d.hdr.next_data_block
    /\ \A g, h \in Slots : Fin(d, g) /\ Fin(d, h) /\ g < h =>
          End(d.toc[g]) <= d.toc[h].start_block

Consistent(d, l) ==
    Accepted(d.hdr) =>
       /\ d.hdr.toc_start = TocStart /\ d.hdr.next_data_block >= DataStart
       /\ d.hdr.next_segment_id <= SegmentSlots
       /\ \A g \in Slots : Visible(d.toc[g]) =>
             /\ d.toc[g].era = d.hdr.era
             /\ l.faults = 0 => g <= d.hdr.next_segment_id
       /\ \A g \in Slots : Fin(d, g) =>
             /\ g < d.hdr.next_segment_id /\ d.toc[g].segment_id = g
             /\ d.toc[g].start_block >= DataStart
       /\ ~l.header_lost => Apart(d)

Rq(op, at, len) == [op |-> op, at |-> at, len |-> len]

Cleared(d, c) == \A g \in Slots : TocStart + g < c => ~Visible(d.toc[g])

Zeroing(s, op) ==
    /\ TocStart <= s.init_cur_block /\ s.init_cur_block < DataStart
    /\ s.io = {Rq(op, s.init_cur_block, Min({ZeroBlocks, DataStart - s.init_cur_block}))}

Formatting(s, d, l) ==
    /\ s.mode \in {"init", "force"} /\ ~s.recording /\ s.io_buf = FreeEntry
    /\ \/ s.io = {Rq("check", 0, 1)}
       \/ /\ s.vol = FreshHeader(l.formats)
          /\ Zeroing(s, "zero") /\ Cleared(d, s.init_cur_block)
       \/ /\ s.vol_buf = FreshHeader(l.formats)
          /\ s.io = {Rq("initHdr", 0, 1)} /\ Cleared(d, DataStart)

Opening(s) ==
    /\ s.mode \notin {"init", "force"} /\ s.io = {Rq("header", 0, 1)}
    /\ s.vol = NoHeader /\ ~s.recording /\ ~s.stopping /\ s.request = "none"

Mounted(s, d) ==
    /\ Accepted(d.hdr) /\ Accepted(s.vol)
    /\ s.vol.era = d.hdr.era /\ s.vol.toc_start = TocStart
    /\ s.vol.next_data_block >= DataStart
    /\ d.hdr.next_segment_id <= s.vol.next_segment_id

InStep(s, d, l) ==
    /\ l.faults = 0 => s.vol.next_segment_id = d.hdr.next_segment_id
    /\ ~l.header_lost => s.vol.next_data_block = d.hdr.next_data_block

\* The finalized segments lie before the open one.
Before(s, d, l) ==
    \A g \in Slots : Fin(d, g) =>
       /\ g < s.segment_id
       /\ ~l.header_lost => End(d.toc[g]) <= s.segment_start_block

Open(s, d, l) ==
    /\ s.segment_start_block >= DataStart
    /\ s.segment_start_block <= s.next_write_block
    /\ Before(s, d, l)

Recorder(s) == s.mode \in {"serve", "capture"} /\ (s.mode = "capture" => s.request = "none")

Resting(s, d, l) == s.mode = "serve" /\ Mounted(s, d) /\ InStep(s, d, l) /\ ~s.recording

Claimed(s, d, l) ==
    /\ Recorder(s) /\ Mounted(s, d) /\ ~s.recording
    /\ s.mode = "serve" => s.request = "start" /\ ~s.shutting_down
    /\ s.mode = "capture" => ~s.stopping
    /\ s.segment_start_block = s.vol.next_data_block
    /\ ~l.header_lost => s.vol.next_data_block = d.hdr.next_data_block

\* First the entry is due, then the header.
EntryDue(s, d, l) ==
    /\ Claimed(s, d, l) /\ s.segment_id = s.vol.next_segment_id
    /\ l.faults = 0 => s.vol.next_segment_id = d.hdr.next_segment_id

HeaderDue(s, d, l) ==
    /\ Claimed(s, d, l) /\ s.vol.next_segment_id = s.segment_id + 1
    /\ d.hdr.next_segment_id <= s.segment_id
    /\ l.faults = 0 => d.hdr.next_segment_id = s.segment_id

Claiming(s, d, l) ==
    \/ /\ EntryDue(s, d, l)
       /\ s.io = {Rq("claimToc", TocStart + s.segment_id, 1)}
       /\ s.io_buf.state = "OPEN" /\ s.io_buf.era = s.vol.era
    \/ /\ HeaderDue(s, d, l) /\ s.vol_buf = s.vol
       /\ s.io = {Rq("claimHdr", 0, 1)}

Session(s, d, l) ==
    /\ Recorder(s) /\ Mounted(s, d) /\ s.recording /\ Open(s, d, l)
    /\ s.vol.next_segment_id = s.segment_id + 1
    /\ d.hdr.next_segment_id = s.segment_id + 1

Writing(s, d, l) ==
    /\ Session(s, d, l) /\ InStep(s, d, l) /\ ~s.stopping
    /\ s.segment_start_block = s.vol.next_data_block

Entered(s) ==
   [FreeEntry EXCEPT !.magic = TRUE,
              !.state = "FINALIZED", !.segment_id = s.segment_id,
              !.start_block = s.segment_start_block,
              !.block_count = s.next_write_block - s.segment_start_block,
              !.record_count = s.record_count,
              !.chunk = s.buf_size, !.laid = s.buf_size, !.era = s.vol.era]

Stopping(s, d, l) ==
    /\ Session(s, d, l) /\ s.stopping
    /\ s.vol.next_data_block = s.next_write_block
    /\ s.mode = "serve" =>
          s.request = "stop" \/ (s.request = "none" /\ s.shutting_down)

Finalizing(s, d, l) ==
    \/ /\ Stopping(s, d, l)
       /\ s.io = {Rq("finHdr", 0, 1)} /\ s.vol_buf = s.vol
    \/ /\ Stopping(s, d, l) /\ InStep(s, d, l)
       /\ s.io = {Rq("finToc", TocStart + s.segment_id, 1)}
       /\ s.io_buf = Entered(s)

Renewing(s, d, l) ==
    /\ Resting(s, d, l) /\ s.request = "format" /\ s.staged = FreshHeader(l.formats)
    /\ \/ s.io_buf = FreeEntry /\ Zeroing(s, "qfZero") /\ Cleared(d, s.init_cur_block)
       \/ s.io = {Rq("qfHdr", 0, 1)} /\ s.vol_buf = s.staged /\ Cleared(d, DataStart)

Walking(s, op) ==
    LET c == s.cursor
    IN /\ c.cur_block >= DataStart /\ c.chunk > 0
       /\ c.cur_block + c.chunk <= NumBlocks
       /\ c.records_seen <= c.target_count
       /\ s.io = {Rq(op, c.cur_block, c.chunk)}

Paging(s, d, l) ==
    /\ s.mode = "serve" /\ s.request = "page" 
    /\ Resting(s, d, l) \/ Writing(s, d, l)
    /\ Len(s.cursor.shown) <= s.cursor.req_limit
    /\ \/ s.cursor.shown = <<>> /\ \E g \in Slots : s.io = {Rq("pageEntry", TocStart + g, 1)}
       \/ Walking(s, "page")

Reading(s, d) ==
    /\ s.mode \in {"list", "dump", "repair"} /\ ~s.recording
    /\ s.request = "none"
    /\ Accepted(d.hdr) /\ s.vol = d.hdr
    /\ \/ /\ s.mode = "list" /\ Len(s.listed) < s.vol.next_segment_id
          /\ s.io = {Rq("list", TocStart + Len(s.listed), 1)}
       \/ s.mode # "list" /\ s.io = {Rq("entry", TocStart + s.dump_segment_id, 1)}
       \/ s.mode = "dump" /\ Walking(s, "chunk")
       \/ /\ s.mode = "repair"
          /\ s.io = {Rq("repair", TocStart + s.dump_segment_id, 1)}
          /\ Fin(d, s.dump_segment_id) 
          /\ s.io_buf = [d.toc[s.dump_segment_id] EXCEPT !.chunk = s.io_buf.chunk]

Phase(s, d, l) ==
    \/ ~s.up /\ s.io = {}
    \/ /\ s.up
       /\ \/ Formatting(s, d, l) \/ Opening(s) \/ Claiming(s, d, l)
          \/ Resting(s, d, l) /\ s.io = {} /\ s.request = "none"
          \/ Writing(s, d, l) /\ s.io = {} /\ s.request = "none"
          \/ Finalizing(s, d, l) \/ Renewing(s, d, l)
          \/ Paging(s, d, l) \/ Reading(s, d)

Mute(s) == s.io # {} => s.said = "none"

Disks == [hdr : Header, toc : [Slots -> Entry],
          data : [DataStart .. NumBlocks - 1 -> Cell]]
Loads == [boots : Nat, formats : Nat, faults : Nat, header_lost : BOOLEAN]

\* The process and what it has been handed.
Sound(s, d, l) == s \in Process /\ Phase(s, d, l) /\ Mute(s)

-----------------------------------------------------------------------------
(* Constants *)

LEMMA Geometry ==
    /\ SegmentSlots \in Nat /\ SegmentSlots > 0 /\ DataBlocks \in Nat
    /\ TocStart = 1 /\ BlockSize = 1 /\ DataStart = 1 + SegmentSlots
    /\ NumBlocks = DataStart + DataBlocks
    /\ DataStart \in Nat /\ NumBlocks \in Nat /\ DataStart <= NumBlocks
    /\ Slots = 0 .. SegmentSlots - 1
    /\ ZeroBlocks \in Nat /\ ZeroBlocks > 0 /\ RecLen \in Nat /\ RecLen > 0
    /\ ChunkSizes \subseteq Nat /\ \A c \in ChunkSizes : c > 0 /\ RecLen <= c
<1>1. /\ SegmentSlots \in Nat \ {0} /\ RecLen \in Nat \ {0}
      /\ ZeroBlocks \in Nat \ {0} /\ DataBlocks \in Nat
  BY VolumeAssumption
<1>2. ChunkSizes \subseteq Nat \ {0} /\ \A c \in ChunkSizes : RecLen <= c
  BY VolumeAssumption
<1>3. QED
  BY <1>1, <1>2 DEF TocStart, BlockSize, DataStart, NumBlocks, Slots

LEMMA MinOfTwo ==
    ASSUME NEW a \in Int, NEW b \in Int
    PROVE  Min({a, b}) = IF a <= b THEN a ELSE b
<1> DEFINE c == IF a <= b THEN a ELSE b
<1>1. c \in {a, b} /\ \A y \in {a, b} : c <= y OBVIOUS
<1>2. \A x \in {a, b} : (\A y \in {a, b} : x <= y) => x = c OBVIOUS
<1>3. Min({a, b}) = c BY <1>1, <1>2 DEF Min
<1>4. QED BY <1>3

LEMMA MaxOfTwo ==
    ASSUME NEW a \in Int, NEW b \in Int
    PROVE  Max({a, b}) = IF a >= b THEN a ELSE b
<1> DEFINE c == IF a >= b THEN a ELSE b
<1>1. c \in {a, b} /\ \A y \in {a, b} : c >= y OBVIOUS
<1>2. \A x \in {a, b} : (\A y \in {a, b} : x >= y) => x = c OBVIOUS
<1>3. Max({a, b}) = c BY <1>1, <1>2 DEF Max
<1>4. QED BY <1>3

\* Sizes may be picked: the smallest chunk size is one.
LEMMA MinChunk == Min(ChunkSizes) \in ChunkSizes
<1>1. ChunkSizes \in SUBSET Nat /\ ChunkSizes # {} BY Geometry, VolumeAssumption
<1> DEFINE R == {ss \in Nat \X Nat : ss[1] < ss[2]}
<1>2. IsWellFoundedOn(R, Nat) BY NatLessThanWellFounded DEF OpToRel
<1>3. \A x, y \in Nat : <<y, x>> \in R <=> y < x OBVIOUS
<1> HIDE DEF R
<1>4. PICK m \in ChunkSizes : \A k \in ChunkSizes : ~(<<k, m>> \in R)
  BY <1>1, <1>2, WFMin
<1>5. \A k \in ChunkSizes : m <= k
  <2>1. ASSUME NEW k \in ChunkSizes PROVE m <= k
    <3>1. m \in Nat /\ k \in Nat BY <1>1
    <3>2. ~(k < m) BY <1>3, <1>4, <3>1
    <3>3. QED BY <3>1, <3>2
  <2>2. QED BY <2>1
<1>6. Min(ChunkSizes) = CHOOSE x \in ChunkSizes : \A y \in ChunkSizes : x <= y
  BY DEF Min
<1>7. QED BY <1>5, <1>6

LEMMA Requests ==
    /\ NumBlocks > 0
    /\ \A op \in Reads \cup Writes, at \in 0 .. NumBlocks - 1, n \in Nat :
          Rq(op, at, n) \in Io
<1>1. NumBlocks > 0 BY Geometry
<1>2. QED BY <1>1 DEF Rq, Io

\* A slot's block.
LEMMA SlotBlock ==
    ASSUME NEW g \in Slots
    PROVE  TocStart + g \in 0 .. NumBlocks - 1 /\ TocStart + g > 0
           /\ TocStart + g < DataStart /\ g \in Nat
  BY Geometry

LEMMA Plain ==
    /\ NoHeader \in Header /\ FreeEntry \in Entry /\ ~Visible(FreeEntry)
    /\ NoHeader.kind = "none" /\ ~FreeEntry.magic /\ ~Accepted(NoHeader)
  BY DEF NoHeader, Header, FreeEntry, Entry, Visible, Accepted

LEMMA Fresh ==
    ASSUME NEW n \in Nat
    PROVE  /\ FreshHeader(n) \in Header /\ Accepted(FreshHeader(n))
           /\ FreshHeader(n).toc_start = TocStart
           /\ FreshHeader(n).next_segment_id = 0
           /\ FreshHeader(n).next_data_block = DataStart
           /\ FreshHeader(n).era = n
  BY Geometry DEF FreshHeader, Header, Accepted

-----------------------------------------------------------------------------
(* How chains end *)

LEMMA ExitSound ==
    ASSUME NEW s \in Process, NEW rc \in {"none", "ok", "fail"}, NEW d, NEW l
    PROVE  LET t == Exit(s, rc)
           IN  /\ Sound(t, d, l) /\ ~t.up /\ t.mode = s.mode
               /\ t.rc = rc /\ t.said = "none"
<1> DEFINE t == Exit(s, rc)
<1>1. t \in Process /\ ~t.up /\ t.io = {} /\ t.said = "none" /\ t.rc = rc
      /\ t.mode = s.mode
  BY DEF Exit, Process
<1> HIDE DEF t
<1>2. Phase(t, d, l) BY <1>1 DEF Phase
<1>3. Mute(t) BY <1>1 DEF Mute
<1>4. QED BY <1>1, <1>2, <1>3 DEF t, Sound

\* Two processes agree on what the phases of a daemon look at.
Footing(s, t) ==
    /\ t.up = s.up /\ t.mode = s.mode /\ t.vol = s.vol
    /\ t.recording = s.recording /\ t.stopping = s.stopping
    /\ t.segment_id = s.segment_id /\ t.next_write_block = s.next_write_block
    /\ t.segment_start_block = s.segment_start_block

LEMMA FootingRests ==
    ASSUME NEW s, NEW t, NEW d, NEW l, Footing(s, t), s.mode = "serve"
    PROVE  /\ Resting(s, d, l) => Resting(t, d, l)
           /\ Writing(s, d, l) => Writing(t, d, l)
  BY DEF Footing, Resting, Writing, Session, Mounted, InStep, Open, Before,
         Recorder

\* A daemon between requests.
AtRest(s, d, l) == Resting(s, d, l) \/ Writing(s, d, l)

LEMMA FulfillSound ==
    ASSUME NEW s \in Process, NEW rc \in {"ok", "fail"}, NEW d, NEW l,
           s.up, s.mode = "serve", s.io = {}, AtRest(s, d, l)
    PROVE  LET t == Fulfill(s, rc)
           IN  Sound(t, d, l) /\ t.rc = rc /\ t.said = s.request /\ t.up
               /\ t.mode = s.mode /\ t.vol = s.vol
<1> DEFINE t == Fulfill(s, rc)
<1>1. t \in Process /\ Footing(s, t) /\ t.io = {} /\ t.request = "none"
      /\ t.rc = rc /\ t.said = s.request
  BY DEF Fulfill, Process, Footing
<1> HIDE DEF t
<1>2. AtRest(t, d, l) BY <1>1, FootingRests DEF AtRest
<1>3. t.up /\ t.mode = s.mode /\ t.vol = s.vol BY <1>1 DEF Footing
<1>4. Phase(t, d, l) BY <1>1, <1>2, <1>3 DEF Phase, AtRest
<1>5. Mute(t) BY <1>1 DEF Mute
<1>6. QED BY <1>1, <1>3, <1>4, <1>5 DEF t, Sound

-----------------------------------------------------------------------------
(* What a chain says: it speaks of its own request only *)

Same(s, t) == t.mode = s.mode /\ t.request = s.request /\ t.said = s.said
Voice(s, t) == t.mode = s.mode /\ t.said \in {"none", s.request}

LEMMA VoiceOf ==
    ASSUME NEW s \in Process, NEW t \in Process, Same(s, t), t.said = "none"
    PROVE  /\ \A rc : Voice(s, Exit(t, rc)) /\ Voice(s, Fulfill(t, rc))
                      /\ Voice(s, Report(t, rc))
           /\ \A op, at, n : Voice(s, Submit(t, op, at, n))
<1>1. \A rc : Voice(s, Exit(t, rc)) BY DEF Exit, Process, Same, Voice
<1>2. \A rc : Voice(s, Fulfill(t, rc)) BY DEF Fulfill, Process, Same, Voice
<1>3. \A rc : Voice(s, Report(t, rc)) BY <1>1, <1>2 DEF Report
<1>4. \A op, at, n : Voice(s, Submit(t, op, at, n))
  BY DEF Submit, Process, Same, Voice
<1>5. QED BY <1>1, <1>2, <1>3, <1>4


LEMMA SubmitIs ==
    ASSUME NEW s \in Process, s.io = {}, NEW op \in Reads \cup Writes,
           NEW at \in 0 .. NumBlocks - 1, NEW n \in Nat
    PROVE  /\ Submit(s, op, at, n) = [s EXCEPT !.io = {Rq(op, at, n)}]
           /\ Submit(s, op, at, n) \in Process
<1>1. Submit(s, op, at, n) = [s EXCEPT !.io = {Rq(op, at, n)}]
  BY DEF Submit, Rq
<1>2. {Rq(op, at, n)} \in SUBSET Io BY Requests
<1>3. [s EXCEPT !.io = {Rq(op, at, n)}] \in Process BY <1>2 DEF Process
<1>4. QED BY <1>1, <1>3

-----------------------------------------------------------------------------
(* Formatting *)

\* How many blocks one zero-fill write takes.
LEMMA ZeroLength ==
    ASSUME NEW c \in Nat, TocStart <= c, c < DataStart
    PROVE  LET n == Min({ZeroBlocks, DataStart - c})
           IN  /\ n \in Nat /\ n > 0 /\ n <= DataStart - c
               /\ c \in 0 .. NumBlocks - 1
<1> DEFINE r == DataStart - c
           n == Min({ZeroBlocks, r})
<1>1. r \in Nat /\ r > 0 BY Geometry
<1>2. n = IF ZeroBlocks <= r THEN ZeroBlocks ELSE r BY <1>1, Geometry, MinOfTwo
<1>3. c \in 0 .. NumBlocks - 1 BY Geometry
<1>4. QED BY <1>1, <1>2, <1>3, Geometry

LEMMA InitZeroSound ==
    ASSUME NEW s \in Process, NEW d, NEW l \in Loads, s.up, ~s.recording,
           s.mode \in {"init", "force"}, s.io = {}, s.io_buf = FreeEntry,
           s.said = "none", s.vol = FreshHeader(l.formats),
           TocStart <= s.init_cur_block, s.init_cur_block <= DataStart,
           Cleared(d, s.init_cur_block)
    PROVE  LET u == InitZero(s)
           IN  Sound(u, d, l) /\ u.said = "none" /\ u.up
<1> DEFINE c == s.init_cur_block
           u == InitZero(s)
<1>1. c \in Nat /\ s.vol \in Header BY DEF Process
<1>2. CASE c >= DataStart
  <2> DEFINE t == [s EXCEPT !.vol_buf = s.vol]
  <2>1. t \in Process /\ t.io = {} BY <1>1 DEF Process
  <2>2. u = Submit(t, "initHdr", 0, 1) BY <1>2 DEF InitZero
  <2>3. "initHdr" \in Reads \cup Writes /\ 0 \in 0 .. NumBlocks - 1 /\ 1 \in Nat
    BY Requests, Geometry DEF Writes
  <2> HIDE DEF t
  <2>4. u = [t EXCEPT !.io = {Rq("initHdr", 0, 1)}] /\ u \in Process
    BY <2>1, <2>2, <2>3, SubmitIs
  <2>5. /\ u.up /\ u.mode = s.mode /\ ~u.recording /\ u.io_buf = FreeEntry
        /\ u.said = "none" /\ u.vol_buf = FreshHeader(l.formats)
        /\ u.io = {Rq("initHdr", 0, 1)}
    BY <2>1, <2>4 DEF Process, t
  <2>6. Cleared(d, DataStart) BY <1>1, <1>2, Geometry DEF Cleared
  <2> HIDE DEF u
  <2>7. Formatting(u, d, l) BY <2>5, <2>6 DEF Formatting
  <2>8. Phase(u, d, l) /\ Mute(u) BY <2>5, <2>7 DEF Phase, Mute
  <2>9. QED BY <2>4, <2>5, <2>8 DEF Sound, u
<1>3. CASE ~(c >= DataStart)
  <2> DEFINE n == Min({ZeroBlocks, DataStart - c})
  <2>1. c < DataStart BY <1>1, <1>3, Geometry
  <2>2. n \in Nat /\ c \in 0 .. NumBlocks - 1 BY <1>1, <2>1, ZeroLength
  <2>3. u = Submit(s, "zero", c, n) BY <1>3 DEF InitZero
  <2>4. "zero" \in Reads \cup Writes BY DEF Writes
  <2> HIDE DEF n, c
  <2>5. u = [s EXCEPT !.io = {Rq("zero", c, n)}] /\ u \in Process
    BY <2>2, <2>3, <2>4, SubmitIs
  <2>6. /\ u.up /\ u.mode = s.mode /\ ~u.recording /\ u.io_buf = FreeEntry
        /\ u.said = "none" /\ u.vol = FreshHeader(l.formats)
        /\ u.io = {Rq("zero", c, n)} /\ u.init_cur_block = s.init_cur_block
    BY <2>5 DEF Process
  <2> HIDE DEF u
  <2>7. Zeroing(u, "zero") BY <2>1, <2>6 DEF Zeroing, c, n
  <2>8. Formatting(u, d, l) BY <2>6, <2>7 DEF Formatting
  <2>9. Phase(u, d, l) /\ Mute(u) BY <2>6, <2>8 DEF Phase, Mute
  <2>10. QED BY <2>5, <2>6, <2>9 DEF Sound, u
<1>4. QED BY <1>2, <1>3

LEMMA QuickFormatZeroSound ==
    ASSUME NEW s \in Process, NEW d, NEW l \in Loads, s.up, s.io = {},
           s.said = "none", s.request = "format", Resting(s, d, l),
           s.staged = FreshHeader(l.formats),
           TocStart <= s.init_cur_block, s.init_cur_block <= DataStart,
           Cleared(d, s.init_cur_block)
    PROVE  LET u == QuickFormatZero(s)
           IN  Sound(u, d, l) /\ u.said = "none" /\ u.up
<1> DEFINE c == s.init_cur_block
           u == QuickFormatZero(s)
<1>1. c \in Nat /\ s.staged \in Header BY DEF Process
<1>0. s.mode = "serve" BY DEF Resting
<1>2. CASE c >= DataStart
  <2> DEFINE t == [s EXCEPT !.vol_buf = s.staged]
  <2>1. t \in Process /\ t.io = {} BY <1>1 DEF Process
  <2>2. u = Submit(t, "qfHdr", 0, 1) BY <1>2 DEF QuickFormatZero
  <2>3. "qfHdr" \in Reads \cup Writes /\ 0 \in 0 .. NumBlocks - 1 /\ 1 \in Nat
    BY Requests, Geometry DEF Writes
  <2> HIDE DEF t
  <2>4. u = [t EXCEPT !.io = {Rq("qfHdr", 0, 1)}] /\ u \in Process
    BY <2>1, <2>2, <2>3, SubmitIs
  <2>5. /\ Footing(s, u) /\ u.said = "none" /\ u.vol_buf = s.staged
        /\ u.io = {Rq("qfHdr", 0, 1)} /\ u.request = "format"
        /\ u.staged = s.staged
    BY <2>1, <2>4 DEF Process, t, Footing
  <2>6. Cleared(d, DataStart) BY <1>1, <1>2, Geometry DEF Cleared
  <2> HIDE DEF u
  <2>7. Resting(u, d, l) BY <1>0, <2>5, FootingRests
  <2>8. Renewing(u, d, l) BY <2>5, <2>6, <2>7 DEF Renewing
  <2>9. Phase(u, d, l) /\ Mute(u) BY <2>5, <2>8 DEF Phase, Mute, Footing
  <2>10. QED BY <2>4, <2>5, <2>9 DEF Sound, Footing, u
<1>3. CASE ~(c >= DataStart)
  <2> DEFINE n == Min({ZeroBlocks, DataStart - c})
             t == [s EXCEPT !.io_buf = FreeEntry]
  <2>1. c < DataStart BY <1>1, <1>3, Geometry
  <2>2. n \in Nat /\ c \in 0 .. NumBlocks - 1 BY <1>1, <2>1, ZeroLength
  <2>3. u = Submit(t, "qfZero", c, n) BY <1>3 DEF QuickFormatZero
  <2>4. "qfZero" \in Reads \cup Writes BY DEF Writes
  <2>5. t \in Process /\ t.io = {} BY Plain DEF Process
  <2> HIDE DEF n, c, t
  <2>6. u = [t EXCEPT !.io = {Rq("qfZero", c, n)}] /\ u \in Process
    BY <2>2, <2>3, <2>4, <2>5, SubmitIs
  <2>7. /\ Footing(s, u) /\ u.said = "none" /\ u.io_buf = FreeEntry
        /\ u.io = {Rq("qfZero", c, n)} /\ u.request = "format"
        /\ u.staged = s.staged /\ u.init_cur_block = s.init_cur_block
    BY <2>5, <2>6 DEF Process, t, Footing
  <2> HIDE DEF u
  <2>8. Zeroing(u, "qfZero") BY <2>1, <2>7 DEF Zeroing, c, n
  <2>9. Resting(u, d, l) BY <1>0, <2>7, FootingRests
  <2>10. Renewing(u, d, l) BY <2>7, <2>8, <2>9 DEF Renewing
  <2>11. Phase(u, d, l) /\ Mute(u) BY <2>7, <2>10 DEF Phase, Mute, Footing
  <2>12. QED BY <2>6, <2>7, <2>11 DEF Sound, Footing, u
<1>4. QED BY <1>2, <1>3

-----------------------------------------------------------------------------
(* Recording *)

\* A daemon or a CLI capture may claim: the daemon for its call, and neither
\* while it records.
MayClaim(s, d, l) ==
    /\ s.up /\ s.io = {} /\ s.said = "none" /\ ~s.recording
    /\ Recorder(s) /\ Mounted(s, d) /\ InStep(s, d, l)
    /\ s.mode = "serve" => s.request = "start" /\ ~s.shutting_down
    /\ s.mode = "capture" => ~s.stopping

LEMMA ClaimSegmentStartSound ==
    ASSUME NEW s \in Process, NEW d, NEW l, MayClaim(s, d, l)
    PROVE  LET u == ClaimSegmentStart(s) IN Sound(u, d, l) /\ Voice(s, u)
<1> DEFINE id == s.vol.next_segment_id
           e == [FreeEntry EXCEPT !.magic = TRUE,
                          !.state = "OPEN", !.segment_id = id,
                          !.start_block = s.vol.next_data_block,
                          !.chunk = s.buf_size, !.laid = s.buf_size,
                          !.era = s.vol.era]
           t == [s EXCEPT !.segment_id = id,
                          !.segment_start_block = s.vol.next_data_block,
                          !.io_buf = e]
           u == ClaimSegmentStart(s)
<1>1. s.vol \in Header /\ s.vol.next_segment_id \in Nat
      /\ s.vol.next_data_block \in Nat /\ s.vol.era \in Nat
      /\ s.buf_size \in ChunkSizes /\ s.buf_size \in Nat
  BY Geometry DEF Process, Header
<1>2. CASE id >= SegmentSlots
  <2>1. u = Report(s, "fail") BY <1>2 DEF ClaimSegmentStart, MayClaim
  <2>2. CASE s.mode = "serve"
    <3>1. u = Fulfill(s, "fail") BY <2>1, <2>2 DEF Report
    <3>2. AtRest(s, d, l) BY <2>2 DEF MayClaim, AtRest, Resting
    <3>3. Voice(s, u) BY <3>1, VoiceOf DEF MayClaim, Same
    <3>4. QED BY <2>2, <3>1, <3>2, <3>3, FulfillSound DEF MayClaim
  <2>3. CASE s.mode # "serve"
    <3>1. u = Exit(s, "fail") BY <2>1, <2>3 DEF Report
    <3>2. Voice(s, u) BY <3>1, VoiceOf DEF MayClaim, Same
    <3>3. QED BY <3>1, <3>2, ExitSound
  <2>4. QED BY <2>2, <2>3
<1>3. CASE ~(id >= SegmentSlots)
  <2>1. id \in Slots BY <1>1, <1>3, Geometry
  <2>2. e \in Entry /\ e.state = "OPEN" /\ e.era = s.vol.era
    <3>1. FreeEntry \in Entry BY Plain
    <3>2. /\ id \in Nat /\ s.vol.next_data_block \in Nat
          /\ s.buf_size \in Nat /\ s.vol.era \in Nat
      BY <1>1
    <3> HIDE DEF id
    <3>3. QED BY <3>1, <3>2 DEF Entry
  <2>3. u = Submit(t, "claimToc", s.vol.toc_start + id, 1)
    BY <1>3 DEF ClaimSegmentStart, MayClaim
  <2> HIDE DEF e, id
  <2>4. t \in Process /\ t.io = {}
    BY <1>1, <2>1, <2>2 DEF Process, MayClaim
  <2>5. s.vol.toc_start = TocStart BY DEF MayClaim, Mounted
  <2> DEFINE at == TocStart + id
  <2>6. at \in 0 .. NumBlocks - 1 BY <2>1, SlotBlock
  <2>7. u = Submit(t, "claimToc", at, 1) BY <2>3, <2>5
  <2>8. "claimToc" \in Reads \cup Writes /\ 1 \in Nat BY DEF Writes
  <2> HIDE DEF t, at
  <2>9. u = [t EXCEPT !.io = {Rq("claimToc", at, 1)}] /\ u \in Process
    BY <2>4, <2>6, <2>7, <2>8, SubmitIs
  <2>10. /\ u.up /\ u.mode = s.mode /\ u.recording = s.recording
         /\ u.stopping = s.stopping /\ u.vol = s.vol /\ u.said = "none"
         /\ u.request = s.request /\ u.shutting_down = s.shutting_down
         /\ u.segment_id = id /\ u.io_buf = e
         /\ u.segment_start_block = s.vol.next_data_block
         /\ u.io = {Rq("claimToc", at, 1)}
    BY <2>4, <2>9 DEF Process, t, MayClaim
  <2> HIDE DEF u
  <2>11. Claiming(u, d, l)
    <3>1. Recorder(u) /\ Mounted(u, d) /\ InStep(u, d, l) /\ ~u.recording
      BY <2>10 DEF MayClaim, Recorder, Mounted, InStep
    <3>2. u.segment_id = u.vol.next_segment_id BY <2>10 DEF id
    <3>3. u.io = {Rq("claimToc", TocStart + u.segment_id, 1)}
      BY <2>10 DEF at
    <3>4. Claimed(u, d, l)
      BY <2>10, <3>1 DEF Claimed, InStep, MayClaim
    <3>5. EntryDue(u, d, l) BY <3>1, <3>2, <3>4 DEF EntryDue, InStep
    <3>6. QED BY <2>2, <2>10, <3>3, <3>5 DEF Claiming
  <2>12. Phase(u, d, l) /\ Mute(u) BY <2>10, <2>11 DEF Phase, Mute
  <2>13. QED BY <2>9, <2>10, <2>12 DEF Sound, Voice, u
<1>4. QED BY <1>2, <1>3

LEMMA ClaimTocDoneSound ==
    ASSUME NEW s \in Process, NEW d \in Disks, NEW l \in Loads,
           s.up, s.io = {}, s.said = "none", EntryDue(s, d, l)
    PROVE  LET u == ClaimTocDone(s) IN Sound(u, d, l) /\ Voice(s, u)
<1> DEFINE v == [s.vol EXCEPT !.next_segment_id = @ + 1]
           t == [s EXCEPT !.vol = v, !.vol_buf = v]
           u == ClaimTocDone(s)
<1>1. s.vol \in Header /\ s.vol.next_segment_id \in Nat
      /\ d.hdr.next_segment_id \in Nat
  BY DEF Process, Header, Disks
<1>2. /\ v \in Header /\ v.next_segment_id = s.vol.next_segment_id + 1
      /\ v.kind = s.vol.kind /\ v.block_size = s.vol.block_size
      /\ v.toc_start = s.vol.toc_start /\ v.era = s.vol.era
      /\ v.next_data_block = s.vol.next_data_block
  BY <1>1 DEF Header
<1>3. u = Submit(t, "claimHdr", 0, 1) BY DEF ClaimTocDone
<1> HIDE DEF v
<1>4. t \in Process /\ t.io = {} BY <1>2 DEF Process
<1>5. "claimHdr" \in Reads \cup Writes /\ 0 \in 0 .. NumBlocks - 1 /\ 1 \in Nat
  BY Requests, Geometry DEF Writes
<1> HIDE DEF t
<1>6. u = [t EXCEPT !.io = {Rq("claimHdr", 0, 1)}] /\ u \in Process
  BY <1>3, <1>4, <1>5, SubmitIs
<1>7. /\ u.up /\ u.mode = s.mode /\ u.recording = s.recording
      /\ u.stopping = s.stopping /\ u.vol = v /\ u.vol_buf = v
      /\ u.said = "none" /\ u.request = s.request
      /\ u.shutting_down = s.shutting_down /\ u.segment_id = s.segment_id
      /\ u.segment_start_block = s.segment_start_block
      /\ u.io = {Rq("claimHdr", 0, 1)}
  BY <1>4, <1>6 DEF Process, t
<1> HIDE DEF u
<1>8. s.segment_id = s.vol.next_segment_id /\ Claimed(s, d, l) BY DEF EntryDue
<1>9. Mounted(u, d)
  BY <1>1, <1>2, <1>7, <1>8 DEF Claimed, Mounted, Accepted
<1>10. Claimed(u, d, l)
  BY <1>2, <1>7, <1>8, <1>9 DEF Claimed, Recorder
<1>11. /\ u.vol.next_segment_id = u.segment_id + 1
       /\ d.hdr.next_segment_id <= u.segment_id
       /\ l.faults = 0 => d.hdr.next_segment_id = u.segment_id
  BY <1>2, <1>7, <1>8 DEF EntryDue, Claimed, Mounted
<1>12. HeaderDue(u, d, l) BY <1>10, <1>11 DEF HeaderDue
<1>13. Claiming(u, d, l) BY <1>7, <1>12 DEF Claiming
<1>14. Phase(u, d, l) /\ Mute(u) BY <1>7, <1>13 DEF Phase, Mute
<1>15. QED BY <1>6, <1>7, <1>14 DEF Sound, Voice, u

LEMMA ClaimHeaderDoneSound ==
    ASSUME NEW s \in Process, NEW d \in Disks, NEW l \in Loads,
           s.up, s.io = {}, s.said = "none", Claimed(s, d, l), Before(s, d, l),
           s.vol.next_segment_id = s.segment_id + 1, d.hdr = s.vol
    PROVE  LET u == ClaimHeaderDone(s) IN Sound(u, d, l) /\ Voice(s, u)
<1> DEFINE t == [s EXCEPT !.next_write_block = s.segment_start_block,
                          !.record_count = 0, !.recording = TRUE]
           x == [t EXCEPT !.stopping = FALSE]
<1>1. s.segment_start_block \in Nat BY DEF Process
<1>2. t \in Process BY <1>1 DEF Process
<1>3. x \in Process BY <1>2 DEF Process
<1>4. /\ t.up /\ t.mode = s.mode /\ t.recording /\ t.stopping = s.stopping
      /\ t.vol = s.vol /\ t.said = "none" /\ t.request = s.request
      /\ t.segment_id = s.segment_id /\ t.io = {}
      /\ t.segment_start_block = s.segment_start_block
      /\ t.next_write_block = s.segment_start_block
  BY DEF Process
<1>5. /\ x.up /\ x.mode = s.mode /\ x.recording /\ ~x.stopping
      /\ x.vol = s.vol /\ x.said = "none" /\ x.request = s.request
      /\ x.segment_id = s.segment_id /\ x.io = {}
      /\ x.segment_start_block = s.segment_start_block
      /\ x.next_write_block = s.segment_start_block
  BY <1>2, <1>4 DEF Process
<1>6. ClaimHeaderDone(s) = IF s.mode = "serve" THEN Fulfill(x, "ok") ELSE t
  BY <1>4 DEF ClaimHeaderDone
<1> HIDE DEF x, t
<1>7. /\ s.segment_start_block = s.vol.next_data_block
      /\ s.vol.next_data_block >= DataStart /\ Recorder(s) /\ Mounted(s, d)
  BY DEF Claimed, Mounted
<1>8. CASE s.mode = "serve"
  <2>1. Mounted(x, d) /\ Recorder(x) /\ InStep(x, d, l)
    BY <1>5, <1>7, <1>8 DEF Mounted, Recorder, InStep
  <2>2. Open(x, d, l) BY <1>1, <1>5, <1>7 DEF Open, Before
  <2>3. Writing(x, d, l) BY <1>5, <1>7, <2>1, <2>2 DEF Writing, Session
  <2>4. AtRest(x, d, l) BY <2>3 DEF AtRest
  <2>5. Same(s, x) BY <1>5 DEF Same
  <2>6. Voice(s, Fulfill(x, "ok")) BY <1>3, <1>5, <2>5, VoiceOf
  <2>7. QED BY <1>3, <1>5, <1>6, <1>8, <2>4, <2>6, FulfillSound
<1>9. CASE s.mode # "serve"
  <2>1. s.mode = "capture" /\ ~s.stopping /\ s.request = "none"
    BY <1>7, <1>9 DEF Recorder, Claimed
  <2>2. Mounted(t, d) /\ Recorder(t) /\ InStep(t, d, l)
    BY <1>4, <1>7, <2>1 DEF Mounted, Recorder, InStep
  <2>3. Open(t, d, l) BY <1>1, <1>4, <1>7 DEF Open, Before
  <2>4. Writing(t, d, l)
    BY <1>4, <1>7, <2>1, <2>2, <2>3 DEF Writing, Session
  <2>5. Phase(t, d, l) /\ Mute(t) BY <1>4, <2>1, <2>4 DEF Phase, Mute
  <2>6. Voice(s, t) BY <1>4 DEF Voice
  <2>7. QED BY <1>2, <1>6, <1>9, <2>5, <2>6 DEF Sound
<1>10. QED BY <1>8, <1>9

LEMMA StopRecordingSound ==
    ASSUME NEW s \in Process, NEW d \in Disks, NEW l \in Loads, NEW n \in Nat,
           s.up, s.io = {}, s.said = "none", Writing(s, d, l),
           s.mode = "serve" =>
              s.request = "stop" \/ (s.request = "none" /\ s.shutting_down)
    PROVE  LET u == StopRecording(s, n) IN Sound(u, d, l) /\ Voice(s, u)
<1> DEFINE v == [s.vol EXCEPT !.next_data_block = s.next_write_block]
           x == [s EXCEPT !.stopping = TRUE, !.record_count = @ + n]
           t == [x EXCEPT !.vol = v, !.vol_buf = v]
           u == StopRecording(s, n)
<1>1. s.vol \in Header /\ s.next_write_block \in Nat /\ s.record_count \in Nat
      /\ s.segment_start_block \in Nat
  BY DEF Process
<1>2. /\ v \in Header /\ v.next_segment_id = s.vol.next_segment_id
      /\ v.kind = s.vol.kind /\ v.block_size = s.vol.block_size
      /\ v.toc_start = s.vol.toc_start /\ v.era = s.vol.era
      /\ v.next_data_block = s.next_write_block
  BY <1>1 DEF Header
<1>3. x \in Process /\ x.vol = s.vol /\ x.next_write_block = s.next_write_block
  <2> DEFINE m == s.record_count + n
  <2>1. m \in Nat BY <1>1
  <2>2. x = [s EXCEPT !.stopping = TRUE, !.record_count = m] OBVIOUS
  <2> HIDE DEF m, x
  <2>3. QED BY <2>1, <2>2 DEF Process
<1>4. u = Submit(t, "finHdr", 0, 1)
  BY <1>3 DEF StopRecording, FinalizeSegment, Writing
<1> HIDE DEF v
<1>5. t \in Process /\ t.io = {} BY <1>2, <1>3 DEF Process
<1>6. "finHdr" \in Reads \cup Writes /\ 0 \in 0 .. NumBlocks - 1 /\ 1 \in Nat
  BY Requests, Geometry DEF Writes
<1>7. /\ t.up /\ t.mode = s.mode /\ t.recording = s.recording /\ t.stopping
      /\ t.vol = v /\ t.vol_buf = v /\ t.said = "none"
      /\ t.request = s.request /\ t.shutting_down = s.shutting_down
      /\ t.segment_id = s.segment_id
      /\ t.segment_start_block = s.segment_start_block
      /\ t.next_write_block = s.next_write_block
  BY <1>3 DEF Process
<1> HIDE DEF t, x
<1>8. u = [t EXCEPT !.io = {Rq("finHdr", 0, 1)}] /\ u \in Process
  BY <1>4, <1>5, <1>6, SubmitIs
<1>9. /\ u.up /\ u.mode = s.mode /\ u.recording = s.recording /\ u.stopping
      /\ u.vol = v /\ u.vol_buf = v /\ u.said = "none"
      /\ u.request = s.request /\ u.shutting_down = s.shutting_down
      /\ u.segment_id = s.segment_id
      /\ u.segment_start_block = s.segment_start_block
      /\ u.next_write_block = s.next_write_block
      /\ u.io = {Rq("finHdr", 0, 1)}
  BY <1>5, <1>7, <1>8 DEF Process
<1> HIDE DEF u
<1>10. Session(s, d, l) /\ Open(s, d, l) /\ Mounted(s, d) /\ Recorder(s)
  BY DEF Writing, Session
<1>11. Mounted(u, d)
  BY <1>1, <1>2, <1>9, <1>10, Geometry DEF Mounted, Accepted, Open
<1>12. Open(u, d, l) /\ Recorder(u)
  BY <1>9, <1>10 DEF Open, Before, Recorder
<1>13. Session(u, d, l) BY <1>2, <1>9, <1>10, <1>11, <1>12 DEF Session
<1>14. Stopping(u, d, l) BY <1>2, <1>9, <1>13 DEF Stopping
<1>15. Finalizing(u, d, l) BY <1>9, <1>14 DEF Finalizing
<1>16. Phase(u, d, l) /\ Mute(u) BY <1>9, <1>15 DEF Phase, Mute
<1>17. QED BY <1>8, <1>9, <1>16 DEF Sound, Voice, u

LEMMA EnteredTyped ==
    ASSUME NEW s \in Process
    PROVE  LET e == Entered(s)
           IN  /\ e \in Entry /\ e.magic /\ e.state = "FINALIZED"
               /\ e.segment_id = s.segment_id
               /\ e.start_block = s.segment_start_block
               /\ e.block_count = s.next_write_block - s.segment_start_block
               /\ e.record_count = s.record_count
               /\ e.chunk = s.buf_size /\ e.laid = s.buf_size
               /\ e.era = s.vol.era
<1> DEFINE a == s.segment_id
           b == s.segment_start_block
           c == s.next_write_block - s.segment_start_block
           n == s.record_count
           z == s.buf_size
           v == s.vol.era
           e == [FreeEntry EXCEPT !.magic = TRUE, !.state = "FINALIZED",
                   !.segment_id = a, !.start_block = b, !.block_count = c,
                   !.record_count = n, !.chunk = z, !.laid = z, !.era = v]
<1>1. a \in Nat /\ b \in Nat /\ c \in Int /\ n \in Nat /\ z \in Nat /\ v \in Nat
  <2>1. /\ a \in Slots /\ b \in Nat /\ s.next_write_block \in Nat /\ n \in Nat
        /\ z \in ChunkSizes /\ s.vol \in Header
    BY DEF Process
  <2>2. v \in Nat BY <2>1 DEF Header
  <2>3. a \in Nat BY <2>1, Geometry
  <2>4. z \in Nat BY <2>1, Geometry
  <2>5. c \in Int BY <2>1
  <2>6. QED BY <2>1, <2>2, <2>3, <2>4, <2>5
<1>2. Entered(s) = e BY DEF Entered
<1>3. FreeEntry \in Entry BY Plain
<1> HIDE DEF a, b, c, n, z, v
<1>4. /\ e \in Entry /\ e.magic = TRUE /\ e.state = "FINALIZED"
      /\ e.segment_id = a /\ e.start_block = b /\ e.block_count = c
      /\ e.record_count = n /\ e.chunk = z /\ e.laid = z /\ e.era = v
  BY <1>1, <1>3 DEF Entry
<1>5. QED BY <1>2, <1>4 DEF a, b, c, n, z, v

LEMMA FinalizeHeaderDoneSound ==
    ASSUME NEW s \in Process, NEW d \in Disks, NEW l \in Loads,
           s.up, s.io = {}, s.said = "none", Stopping(s, d, l), InStep(s, d, l)
    PROVE  LET u == FinalizeHeaderDone(s) IN Sound(u, d, l) /\ Voice(s, u)
<1> DEFINE e == Entered(s)
           t == [s EXCEPT !.io_buf = e]
           at == TocStart + s.segment_id
           u == FinalizeHeaderDone(s)
<1>1. e \in Entry BY EnteredTyped
<1>2. s.vol.toc_start = TocStart BY DEF Stopping, Session, Mounted
<1>3. u = Submit(t, "finToc", at, 1)
  BY <1>2 DEF FinalizeHeaderDone, Entered
<1>4. s.segment_id \in Slots BY DEF Process
<1>5. at \in 0 .. NumBlocks - 1 BY <1>4, SlotBlock
<1> HIDE DEF e
<1>6. t \in Process /\ t.io = {} BY <1>1 DEF Process
<1>7. "finToc" \in Reads \cup Writes /\ 1 \in Nat BY DEF Writes
<1> HIDE DEF t, at
<1>8. u = [t EXCEPT !.io = {Rq("finToc", at, 1)}] /\ u \in Process
  BY <1>3, <1>5, <1>6, <1>7, SubmitIs
<1>9. /\ Footing(s, u) /\ u.said = "none" /\ u.request = s.request
      /\ u.shutting_down = s.shutting_down /\ u.io_buf = e
      /\ u.record_count = s.record_count /\ u.buf_size = s.buf_size
      /\ u.io = {Rq("finToc", at, 1)}
  BY <1>6, <1>8 DEF Process, t, Footing
<1> HIDE DEF u
<1>10. Stopping(u, d, l) /\ InStep(u, d, l)
  BY <1>9 DEF Footing, Stopping, Session, Mounted, InStep, Open, Before,
              Recorder
<1>11. u.io_buf = Entered(u) BY <1>9 DEF e, Entered, Footing
<1>12. u.io = {Rq("finToc", TocStart + u.segment_id, 1)}
  BY <1>9 DEF at, Footing
<1>13. Finalizing(u, d, l) BY <1>10, <1>11, <1>12 DEF Finalizing
<1>14. Phase(u, d, l) /\ Mute(u) BY <1>9, <1>13 DEF Phase, Mute, Footing
<1>15. QED BY <1>8, <1>9, <1>14 DEF Sound, Voice, Footing, u

LEMMA FinalizeTocDoneSound ==
    ASSUME NEW s \in Process, NEW d \in Disks, NEW l \in Loads,
           s.up, s.io = {}, s.said = "none", NEW ok \in BOOLEAN,
           Mounted(s, d), InStep(s, d, l)
    PROVE  LET t == FinalizeTocDone(s, ok)
           IN  Sound(t, d, l) /\ t.mode = s.mode
               /\ t.said \in {"none", s.request} /\ (t.up => t.mode = "serve")
<1> DEFINE x == [s EXCEPT !.recording = FALSE]
           rc == IF ok THEN "ok" ELSE "fail"
<1>1. CASE s.mode # "serve" \/ s.shutting_down
  <2>1. FinalizeTocDone(s, ok) = Exit(s, "ok") BY <1>1 DEF FinalizeTocDone
  <2>2. QED BY <2>1, ExitSound
<1>2. CASE s.mode = "serve" /\ ~s.shutting_down
  <2>1. FinalizeTocDone(s, ok) = Fulfill(x, rc) BY <1>2 DEF FinalizeTocDone
  <2>2. rc \in {"ok", "fail"} OBVIOUS
  <2>3. /\ x \in Process /\ x.up /\ x.mode = s.mode /\ x.io = {}
        /\ x.vol = s.vol /\ ~x.recording /\ x.request = s.request
    BY DEF Process
  <2> HIDE DEF x, rc
  <2>4. Resting(x, d, l) BY <1>2, <2>3 DEF Resting, Mounted, InStep
  <2>5. AtRest(x, d, l) BY <2>4 DEF AtRest
  <2>6. QED BY <1>2, <2>1, <2>2, <2>3, <2>5, FulfillSound
<1>3. QED BY <1>1, <1>2

-----------------------------------------------------------------------------
(* Loops: induction, and functions defined by it *)

LEMMA Least ==
    ASSUME NEW T \in SUBSET Nat, T # {}
    PROVE  \E m \in T : \A k \in T : m <= k
<1> DEFINE R == {ss \in Nat \X Nat : ss[1] < ss[2]}
<1>1. IsWellFoundedOn(R, Nat) BY NatLessThanWellFounded DEF OpToRel
<1>2. \A x, y \in Nat : <<y, x>> \in R <=> y < x OBVIOUS
<1> HIDE DEF R
<1>3. PICK m \in T : \A k \in T : ~(<<k, m>> \in R) BY <1>1, WFMin
<1>4. ASSUME NEW k \in T PROVE m <= k
  <2>1. m \in Nat /\ k \in Nat OBVIOUS
  <2>2. ~(k < m) BY <1>2, <1>3, <2>1
  <2>3. QED BY <2>1, <2>2
<1>5. QED BY <1>4

\* Induction up to n, over a set.
LEMMA Climb ==
    ASSUME NEW n \in Nat, NEW S, 0 \in S,
           \A i \in 0 .. n : i < n /\ i \in S => i + 1 \in S
    PROVE  \A i \in 0 .. n : i \in S
<1> DEFINE T == {i \in 0 .. n : i \notin S}
<1>1. SUFFICES ASSUME T # {} PROVE FALSE OBVIOUS
<1>2. T \in SUBSET Nat OBVIOUS
<1>3. PICK m \in T : \A k \in T : m <= k BY <1>1, <1>2, Least
<1>4. m \in 0 .. n /\ m \notin S /\ m # 0 OBVIOUS
<1>5. m - 1 \in 0 .. n /\ m - 1 < n /\ ~(m <= m - 1) BY <1>4
<1>6. m - 1 \in S BY <1>3, <1>5
<1>7. (m - 1) + 1 \in S BY <1>5, <1>6
<1>8. (m - 1) + 1 = m BY <1>4
<1>9. QED BY <1>4, <1>7, <1>8

\* What comes of taking n turns of step from init.
Turns(f, n, init, step) ==
    f = [k \in 0 .. n |-> IF k = 0 THEN init ELSE step[f[k - 1]]]

LEMMA TurnsExist ==
    ASSUME NEW n \in Nat, NEW init, NEW step
    PROVE  \E f : Turns(f, n, init, step)
<1> DEFINE Val(f, k) == IF k = 0 THEN init ELSE step[f[k - 1]]
           Is(f, i) == f = [k \in 0 .. n |-> IF i < k THEN <<>> ELSE Val(f, k)]
           S == {i \in 0 .. n : \E f : Is(f, i)}
<1>1. 0 \in S
  <2> DEFINE f == [k \in 0 .. n |-> IF 0 < k THEN <<>> ELSE init]
             h == [k \in 0 .. n |-> IF 0 < k THEN <<>> ELSE Val(f, k)]
  <2>1. ASSUME NEW k \in 0 .. n PROVE f[k] = h[k]
    <3>1. CASE k = 0 BY <3>1
    <3>2. CASE k # 0
      <4>1. 0 < k BY <3>2
      <4>2. QED BY <4>1
    <3>3. QED BY <3>1, <3>2
  <2>2. f = h BY <2>1
  <2>3. Is(f, 0) BY <2>2
  <2> HIDE DEF f, Is
  <2>4. QED BY <2>3
<1>2. ASSUME NEW i \in 0 .. n, i < n, i \in S PROVE i + 1 \in S
  <2>1. PICK f : Is(f, i) BY <1>2
  <2> DEFINE m == i + 1
             g == [k \in 0 .. n |-> IF m < k THEN <<>> ELSE Val(f, k)]
             h == [k \in 0 .. n |-> IF m < k THEN <<>> ELSE Val(g, k)]
  <2>2. m \in 0 .. n BY <1>2
  <2>3. ASSUME NEW k \in 0 .. n, k <= i PROVE g[k] = f[k]
    <3>1. ~(i < k) /\ ~(m < k) BY <2>3
    <3>2. f[k] = IF i < k THEN <<>> ELSE Val(f, k) BY <2>1
    <3>3. g[k] = IF m < k THEN <<>> ELSE Val(f, k) OBVIOUS
    <3> HIDE DEF Val, g
    <3>4. QED BY <3>1, <3>2, <3>3
  <2>4. ASSUME NEW k \in 0 .. n, ~(m < k) PROVE Val(g, k) = Val(f, k)
    <3>1. CASE k = 0 BY <3>1
    <3>2. CASE k # 0
      <4>1. k - 1 \in 0 .. n /\ k - 1 <= i BY <2>4, <3>2
      <4>2. g[k - 1] = f[k - 1] BY <2>3, <4>1
      <4> HIDE DEF g
      <4>3. QED BY <4>2
    <3>3. QED BY <3>1, <3>2
  <2>5. ASSUME NEW k \in 0 .. n PROVE g[k] = h[k]
    <3>1. g[k] = (IF m < k THEN <<>> ELSE Val(f, k))
          /\ h[k] = (IF m < k THEN <<>> ELSE Val(g, k))
      OBVIOUS
    <3> HIDE DEF g, h, Val, m
    <3>2. QED BY <2>4, <3>1
  <2>6. g = h BY <2>5
  <2>7. Is(g, m) BY <2>6
  <2> HIDE DEF Is, g, m
  <2>8. m \in S BY <2>2, <2>7
  <2>9. QED BY <2>8 DEF m
<1> HIDE DEF S
<1>3. \A i \in 0 .. n : i \in S BY <1>1, <1>2, Climb
<1>4. n \in S BY <1>3
<1>5. PICK f : Is(f, n) BY <1>4 DEF S
<1> DEFINE h == [k \in 0 .. n |-> Val(f, k)]
<1>6. ASSUME NEW k \in 0 .. n PROVE f[k] = h[k]
  <2>1. ~(n < k) BY <1>6
  <2>2. f[k] = IF n < k THEN <<>> ELSE Val(f, k) BY <1>5
  <2>3. h[k] = Val(f, k) OBVIOUS
  <2> HIDE DEF h, Val
  <2>4. QED BY <2>1, <2>2, <2>3
<1>7. f = [k \in 0 .. n |-> f[k]] BY <1>5
<1>8. f = h BY <1>6, <1>7
<1>9. QED BY <1>8 DEF Turns

-----------------------------------------------------------------------------
(* The walk over a chunk *)

Parsed(size) == [recs : Seq(Cell), end : 0 .. size, bad : BOOLEAN]
Nothing == [recs |-> <<>>, end |-> 0, bad |-> FALSE]

LEMMA ParseOneTyped ==
    ASSUME NEW size \in Nat, NEW cells \in [0 .. size - 1 -> Cell],
           NEW q \in Parsed(size)
    PROVE  LET r == ParseOne(cells, size, q)
           IN  r \in Parsed(size) /\ Len(r.recs) <= Len(q.recs) + 1
<1> DEFINE r == ParseOne(cells, size, q)
           len == cells[q.end].len
<1>1. q.recs \in Seq(Cell) /\ q.end \in 0 .. size /\ q.bad \in BOOLEAN
      /\ Len(q.recs) \in Nat
  BY DEF Parsed
<1>2. CASE q.bad \/ q.end = size \/ len = 0
  <2>1. r = q BY <1>2 DEF ParseOne
  <2>2. QED BY <1>1, <2>1
<1>3. CASE ~(q.bad \/ q.end = size \/ len = 0)
  <2>1. q.end \in 0 .. size - 1 BY <1>1, <1>3
  <2>2. cells[q.end] \in Cell BY <2>1
  <2>3. len \in Nat BY <2>2 DEF Cell
  <2>4. CASE q.end + len > size
    <3>1. r = [q EXCEPT !.bad = TRUE] BY <1>3, <2>4 DEF ParseOne
    <3> HIDE DEF r
    <3>2. r \in Parsed(size) /\ r.recs = q.recs BY <1>1, <3>1 DEF Parsed
    <3>3. QED BY <1>1, <3>2 DEF r
  <2>5. CASE ~(q.end + len > size)
    <3> DEFINE x == Append(q.recs, cells[q.end])
               y == q.end + len
    <3>1. r = [recs |-> x, end |-> y, bad |-> FALSE]
      BY <1>3, <2>5 DEF ParseOne
    <3>2. x \in Seq(Cell) /\ Len(x) = Len(q.recs) + 1
      BY <1>1, <2>2, AppendProperties
    <3>3. y \in 0 .. size BY <1>1, <2>3, <2>5
    <3> HIDE DEF r, x, y
    <3>4. r \in Parsed(size) BY <3>1, <3>2, <3>3 DEF Parsed
    <3>5. QED BY <1>1, <3>1, <3>2, <3>4 DEF r
  <2>6. QED BY <2>4, <2>5
<1>4. QED BY <1>2, <1>3

\* The loop, turn by turn.
Loop(f, cells, size, max) ==
    /\ f[0] = Nothing
    /\ \A k \in 0 .. max : k # 0 => f[k] = ParseOne(cells, size, f[k - 1])

LEMMA ParseLoop ==
    ASSUME NEW size \in Nat, NEW cells \in [0 .. size - 1 -> Cell],
           NEW max \in Nat
    PROVE  \E f : Parse(cells, size, max) = f[max] /\ Loop(f, cells, size, max)
<1> DEFINE Q == Parsed(size)
           step == [q \in Q |-> ParseOne(cells, size, q)]
           Is(f) == f = [n \in 0 .. max |->
                           IF n = 0 THEN Nothing
                           ELSE ParseOne(cells, size, f[n - 1])]
<1>1. PICK f : Turns(f, max, Nothing, step) BY TurnsExist
<1>2. \A k \in 0 .. max :
        f[k] = IF k = 0 THEN Nothing ELSE step[f[k - 1]]
  BY <1>1 DEF Turns
<1>3. Nothing \in Q BY DEF Nothing, Parsed
<1>4. \A q \in Q : step[q] = ParseOne(cells, size, q) /\ step[q] \in Q
  BY ParseOneTyped
<1> DEFINE S == {k \in 0 .. max : f[k] \in Q}
<1>5. 0 \in S
  <2>1. 0 \in 0 .. max OBVIOUS
  <2> HIDE DEF step
  <2>3. f[0] = Nothing BY <1>2, <2>1
  <2> HIDE DEF Q
  <2>2. QED BY <1>3, <2>1, <2>3
<1>6. ASSUME NEW i \in 0 .. max, i < max, i \in S PROVE i + 1 \in S
  <2> DEFINE m == i + 1
  <2>1. m \in 0 .. max /\ m # 0 /\ m - 1 = i BY <1>6
  <2> HIDE DEF m, step, Q
  <2>2. f[m] = step[f[i]] BY <1>2, <2>1
  <2>3. f[m] \in Q BY <1>4, <1>6, <2>2
  <2>4. m \in S BY <2>1, <2>3
  <2>5. QED BY <2>4 DEF m
<1> HIDE DEF S
<1>7. \A i \in 0 .. max : i \in S BY <1>5, <1>6, Climb
<1> HIDE DEF step, Q
<1> DEFINE h == [n \in 0 .. max |->
                   IF n = 0 THEN Nothing ELSE ParseOne(cells, size, f[n - 1])]
<1>8. ASSUME NEW k \in 0 .. max PROVE f[k] = h[k]
  <2>1. h[k] = IF k = 0 THEN Nothing ELSE ParseOne(cells, size, f[k - 1])
    OBVIOUS
  <2>2. CASE k = 0 BY <1>2, <2>1, <2>2
  <2>3. CASE k # 0
    <3>1. k - 1 \in 0 .. max BY <2>3
    <3>2. f[k - 1] \in Q BY <1>7, <3>1 DEF S
    <3>3. f[k] = step[f[k - 1]] BY <1>2, <2>3
    <3> HIDE DEF h
    <3>4. QED BY <1>4, <2>1, <2>3, <3>2, <3>3
  <2>4. QED BY <2>2, <2>3
<1>9. f = [k \in 0 .. max |-> f[k]] BY <1>1 DEF Turns
<1>10. Is(f)
  <2>1. f = h BY <1>8, <1>9
  <2>2. QED BY <2>1
<1> DEFINE g == CHOOSE x : Is(x)
<1>11. Is(g)
  <2> HIDE DEF Is
  <2>1. QED BY <1>10
<1>12. Parse(cells, size, max) = g[max] BY DEF Parse, Nothing
<1>13. Loop(g, cells, size, max)
  <2>1. \A k \in 0 .. max :
          g[k] = IF k = 0 THEN Nothing ELSE ParseOne(cells, size, g[k - 1])
    <3> HIDE DEF g
    <3>1. QED BY <1>11
  <2> HIDE DEF g
  <2>2. QED BY <2>1 DEF Loop
<1> HIDE DEF g
<1>14. QED BY <1>12, <1>13

\* What a chunk yields: no more than was asked for, and never past the chunk.
LEMMA ParseTyped ==
    ASSUME NEW size \in Nat, NEW cells \in [0 .. size - 1 -> Cell],
           NEW max \in Nat
    PROVE  LET q == Parse(cells, size, max)
           IN  q \in Parsed(size) /\ Len(q.recs) <= max
<1>1. PICK f : Parse(cells, size, max) = f[max] /\ Loop(f, cells, size, max)
  BY ParseLoop
<1> DEFINE S == {k \in 0 .. max : f[k] \in Parsed(size) /\ Len(f[k].recs) <= k}
<1>2. 0 \in S
  <2>1. 0 \in 0 .. max /\ f[0] = Nothing BY <1>1 DEF Loop
  <2>2. Nothing.recs = <<>> /\ Len(<<>>) = 0 BY DEF Nothing
  <2>3. <<>> \in Seq(Cell) /\ 0 \in 0 .. size OBVIOUS
  <2>4. Nothing \in Parsed(size) BY <2>3 DEF Nothing, Parsed
  <2>5. Len(f[0].recs) <= 0 BY <2>1, <2>2
  <2>6. QED BY <2>1, <2>4, <2>5
<1>3. ASSUME NEW i \in 0 .. max, i < max, i \in S PROVE i + 1 \in S
  <2> DEFINE m == i + 1
  <2>1. m \in 0 .. max /\ m # 0 /\ m - 1 = i BY <1>3
  <2> HIDE DEF m
  <2>2. f[m] = ParseOne(cells, size, f[i]) BY <1>1, <2>1 DEF Loop
  <2>3. f[i] \in Parsed(size) /\ Len(f[i].recs) <= i BY <1>3
  <2>4. f[m] \in Parsed(size) /\ Len(f[m].recs) <= Len(f[i].recs) + 1
    BY <2>2, <2>3, ParseOneTyped
  <2>5. Len(f[i].recs) \in Nat /\ Len(f[m].recs) \in Nat
    BY <2>3, <2>4 DEF Parsed
  <2>6. Len(f[m].recs) <= m BY <2>1, <2>3, <2>4, <2>5
  <2>7. m \in S BY <2>1, <2>4, <2>6
  <2>8. QED BY <2>7 DEF m
<1> HIDE DEF S
<1>4. \A i \in 0 .. max : i \in S BY <1>2, <1>3, Climb
<1>5. max \in S BY <1>4
<1>6. QED BY <1>1, <1>5 DEF S

LEMMA CursorTyped ==
    ASSUME NEW c \in Cursor
    PROVE  /\ c.cur_block \in Nat /\ c.chunk \in Nat /\ c.target_count \in Nat
           /\ c.records_seen \in Nat /\ c.req_offset \in Nat
           /\ c.req_limit \in Nat /\ c.shown \in Seq(Cell)
           /\ Len(c.shown) \in Nat /\ c.end \in {"", "ok", "fail"}
<1>1. c.shown \in Seq(Cell) BY DEF Cursor
<1>2. Len(c.shown) \in Nat BY <1>1, LenProperties
<1>3. QED BY <1>1, <1>2 DEF Cursor

\* How many records a page takes from a chunk.
LEMMA WantedBound ==
    ASSUME NEW c \in Cursor, c.records_seen <= c.target_count,
           Len(c.shown) <= c.req_limit
    PROVE  LET skip == Max({c.req_offset - c.records_seen, 0})
           IN  /\ skip \in Nat /\ Wanted(c) \in Nat
               /\ Wanted(c) <= c.target_count - c.records_seen
               /\ Wanted(c) <= skip + c.req_limit - Len(c.shown)
<1> DEFINE a == c.req_offset - c.records_seen
           skip == Max({a, 0})
           m == c.target_count - c.records_seen
           n == skip + c.req_limit - Len(c.shown)
<1>1. /\ c.req_offset \in Nat /\ c.records_seen \in Nat /\ c.req_limit \in Nat
      /\ c.target_count \in Nat /\ Len(c.shown) \in Nat
  BY CursorTyped
<1>2. a \in Int /\ 0 \in Int BY <1>1
<1>3. skip = IF a >= 0 THEN a ELSE 0
  <2> HIDE DEF a
  <2>1. QED BY <1>2, MaxOfTwo
<1>4. skip \in Nat BY <1>2, <1>3
<1> HIDE DEF skip
<1>5. m \in Nat /\ n \in Nat BY <1>1, <1>4
<1>6. Wanted(c) = Min({m, n}) BY DEF Wanted, skip
<1> HIDE DEF m, n
<1>7. Wanted(c) = IF m <= n THEN m ELSE n BY <1>5, <1>6, MinOfTwo
<1>8. Wanted(c) \in Nat /\ Wanted(c) <= m /\ Wanted(c) <= n BY <1>5, <1>7
<1>9. QED BY <1>4, <1>8 DEF m, n, skip

-----------------------------------------------------------------------------
(* The readers *)

\* Where a reader stands: in the data area, and at no record past the last.
Placed(c) ==
    /\ c \in Cursor /\ c.cur_block >= DataStart /\ c.chunk > 0
    /\ c.records_seen <= c.target_count

LEMMA StartedPlaced ==
    ASSUME NEW e \in Entry, NEW z \in ChunkSizes, e.start_block >= DataStart
    PROVE  LET c == Started(e, z)
           IN  /\ Placed(c) /\ c.shown = <<>>
<1> DEFINE k == IF e.chunk # 0 THEN e.chunk ELSE z
           a == e.start_block
           n == e.record_count
           x == IF n = 0 THEN "ok" ELSE ""
           c == Started(e, z)
<1>1. k \in Nat /\ k > 0 /\ a \in Nat /\ n \in Nat /\ x \in {"", "ok", "fail"}
  BY Geometry DEF Entry
<1>2. NoCursor \in Cursor /\ NoCursor.shown = <<>> /\ NoCursor.records_seen = 0
  BY DEF NoCursor, Cursor
<1>3. c = [NoCursor EXCEPT !.cur_block = a, !.chunk = k, !.target_count = n,
                           !.end = x]
  BY DEF Started
<1> HIDE DEF k, a, n, x, c
<1>4. /\ c \in Cursor /\ c.cur_block = a /\ c.chunk = k /\ c.target_count = n
      /\ c.shown = <<>> /\ c.records_seen = 0
  BY <1>1, <1>2, <1>3 DEF Cursor
<1>5. a >= DataStart BY DEF a
<1>6. 0 <= n
  <2>1. n \in Nat BY <1>1
  <2>2. QED BY ONLY <2>1
<1>7. Placed(c) BY <1>1, <1>4, <1>5, <1>6 DEF Placed
<1>8. QED BY <1>4, <1>7 DEF c

LEMMA PageStartedPlaced ==
    ASSUME NEW e \in Entry, NEW z \in ChunkSizes, e.start_block >= DataStart,
           NEW f \in Nat, NEW n \in Nat
    PROVE  LET c == PageStarted(e, z, f, n)
           IN  Placed(c) /\ c.shown = <<>> /\ c.req_limit = n
<1> DEFINE b == Started(e, z)
           x == IF e.record_count = 0 \/ f >= e.record_count THEN "ok" ELSE ""
           c == PageStarted(e, z, f, n)
<1>1. Placed(b) /\ b.shown = <<>> BY StartedPlaced
<1>2. c = [b EXCEPT !.req_offset = f, !.req_limit = n, !.end = x]
  BY DEF PageStarted
<1>3. x \in {"", "ok", "fail"} OBVIOUS
<1> HIDE DEF b, x, c
<1>4. /\ c \in Cursor /\ c.cur_block = b.cur_block /\ c.chunk = b.chunk
      /\ c.target_count = b.target_count /\ c.records_seen = b.records_seen
      /\ c.shown = b.shown /\ c.req_limit = n
  BY <1>1, <1>2, <1>3 DEF Placed, Cursor
<1>5. QED BY <1>1, <1>4 DEF Placed, c

LEMMA DumpChunkPlaced ==
    ASSUME NEW c, Placed(c), NEW cells \in [0 .. c.chunk - 1 -> Cell]
    PROVE  Placed(DumpChunkRead(c, cells))
<1> DEFINE max == c.target_count - c.records_seen
           q == Parse(cells, c.chunk, max)
           seen == c.records_seen + Len(q.recs)
           shown == c.shown \o q.recs
           next == c.cur_block + c.chunk
           x == IF q.bad THEN "fail" ELSE IF seen >= c.target_count THEN "ok"
                ELSE IF q.end = 0 THEN "fail" ELSE ""
           u == DumpChunkRead(c, cells)
<1>1. /\ c \in Cursor /\ c.chunk \in Nat /\ c.target_count \in Nat
      /\ c.records_seen \in Nat /\ c.cur_block \in Nat /\ c.shown \in Seq(Cell)
      /\ c.cur_block >= DataStart /\ c.chunk > 0
      /\ c.records_seen <= c.target_count
  BY DEF Placed, Cursor
<1>2. max \in Nat BY <1>1
<1>3. u = [c EXCEPT !.shown = shown, !.records_seen = seen,
                    !.cur_block = next, !.end = x]
  BY DEF DumpChunkRead
<1> HIDE DEF max
<1>4. q \in Parsed(c.chunk) /\ Len(q.recs) <= max BY <1>1, <1>2, ParseTyped
<1> HIDE DEF q
<1>5. q.recs \in Seq(Cell) /\ Len(q.recs) \in Nat BY <1>4 DEF Parsed
<1>6. seen \in Nat /\ seen <= c.target_count BY <1>1, <1>4, <1>5 DEF max
<1>7. shown \in Seq(Cell) BY <1>1, <1>5, ConcatProperties
<1>8. next \in Nat /\ next >= DataStart BY <1>1, Geometry
<1>9. x \in {"", "ok", "fail"} OBVIOUS
<1> HIDE DEF seen, shown, next, x, u
<1>10. /\ u \in Cursor /\ u.cur_block = next /\ u.chunk = c.chunk
       /\ u.target_count = c.target_count /\ u.records_seen = seen
  BY <1>1, <1>3, <1>6, <1>7, <1>8, <1>9 DEF Cursor
<1>11. QED BY <1>1, <1>6, <1>8, <1>10 DEF Placed, u

LEMMA PageChunkPlaced ==
    ASSUME NEW c, Placed(c), Len(c.shown) <= c.req_limit,
           NEW cells \in [0 .. c.chunk - 1 -> Cell]
    PROVE  LET u == PageChunkRead(c, cells)
           IN  Placed(u) /\ Len(u.shown) <= u.req_limit
<1> DEFINE max == Wanted(c)
           skip == Max({c.req_offset - c.records_seen, 0})
           q == Parse(cells, c.chunk, max)
           seen == c.records_seen + Len(q.recs)
           tail == SubSeq(q.recs, skip + 1, Len(q.recs))
           shown == c.shown \o tail
           next == c.cur_block + c.chunk
           full == seen >= c.target_count \/ Len(shown) >= c.req_limit
           more == full /\ seen < c.target_count
           x == IF q.bad \/ (q.end = 0 /\ ~full) THEN "fail"
                ELSE IF full THEN "ok" ELSE ""
           u == PageChunkRead(c, cells)
<1>1. /\ c \in Cursor /\ c.chunk \in Nat /\ c.target_count \in Nat
      /\ c.records_seen \in Nat /\ c.cur_block \in Nat /\ c.shown \in Seq(Cell)
      /\ c.cur_block >= DataStart /\ c.chunk > 0 /\ c.req_limit \in Nat
      /\ c.records_seen <= c.target_count /\ Len(c.shown) \in Nat
  BY CursorTyped DEF Placed
<1>2. /\ skip \in Nat /\ max \in Nat /\ max <= c.target_count - c.records_seen
      /\ max <= skip + c.req_limit - Len(c.shown)
  BY <1>1, WantedBound
<1>3. u = [c EXCEPT !.shown = shown, !.records_seen = seen,
                    !.cur_block = next, !.has_more = more, !.end = x]
  BY DEF PageChunkRead
<1> HIDE DEF max, skip
<1>4. q \in Parsed(c.chunk) /\ Len(q.recs) <= max BY <1>1, <1>2, ParseTyped
<1> HIDE DEF q
<1>5. q.recs \in Seq(Cell) /\ Len(q.recs) \in Nat BY <1>4 DEF Parsed
<1>6. seen \in Nat /\ seen <= c.target_count BY <1>1, <1>2, <1>4, <1>5
<1>7. tail \in Seq(Cell) /\ Len(tail) <= c.req_limit - Len(c.shown)
      /\ Len(tail) \in Nat
  <2> DEFINE m == skip + 1
             n == Len(q.recs)
  <2>1. m \in Int /\ m >= 1 /\ n \in Nat BY <1>2, <1>5
  <2>2. \A i \in m .. n : q.recs[i] \in Cell
    <3>1. \A i \in 1 .. n : q.recs[i] \in Cell BY <1>5, ElementOfSeq
    <3>2. \A i \in m .. n : i \in 1 .. n BY <2>1
    <3>3. QED BY <3>1, <3>2
  <2> HIDE DEF m, n
  <2>3. /\ SubSeq(q.recs, m, n) \in Seq(Cell)
        /\ Len(SubSeq(q.recs, m, n)) = IF m <= n THEN n - m + 1 ELSE 0
    BY <2>1, <2>2, SubSeqProperties
  <2>4. tail = SubSeq(q.recs, m, n) BY DEF m, n
  <2>5. n <= max /\ m = skip + 1 BY <1>4 DEF m, n
  <2>6. tail \in Seq(Cell) /\ Len(tail) = IF m <= n THEN n - m + 1 ELSE 0
    BY <2>3, <2>4
  <2> HIDE DEF tail
  <2>7. QED BY <1>1, <1>2, <2>1, <2>5, <2>6
<1> HIDE DEF tail
<1>8. shown \in Seq(Cell) /\ Len(shown) = Len(c.shown) + Len(tail)
  BY <1>1, <1>7, ConcatProperties
<1>9. Len(shown) <= c.req_limit BY <1>1, <1>7, <1>8
<1>10. next \in Nat /\ next >= DataStart BY <1>1, Geometry
<1>11. x \in {"", "ok", "fail"} /\ more \in BOOLEAN OBVIOUS
<1> HIDE DEF seen, shown, next, x, u, more
<1>12. /\ u \in Cursor /\ u.cur_block = next /\ u.chunk = c.chunk
       /\ u.target_count = c.target_count /\ u.records_seen = seen
       /\ u.shown = shown /\ u.req_limit = c.req_limit
  BY <1>1, <1>3, <1>6, <1>8, <1>10, <1>11 DEF Cursor
<1>13. QED BY <1>1, <1>6, <1>9, <1>10, <1>12 DEF Placed, u

-----------------------------------------------------------------------------
(* The next chunk *)

LEMMA GoesDump ==
    ASSUME NEW s \in Process, NEW d, NEW l, NEW c, Placed(c),
           s.up, s.io = {}, s.said = "none", s.mode = "dump", ~s.recording,
           Accepted(d.hdr), s.vol = d.hdr, s.request = "none"
    PROVE  LET u == Goes(s, "chunk", c) IN Sound(u, d, l) /\ Voice(s, u)
<1> DEFINE t == [s EXCEPT !.cursor = c]
           u == Goes(s, "chunk", c)
<1>1. /\ c \in Cursor /\ c.cur_block \in Nat /\ c.chunk \in Nat /\ c.chunk > 0
      /\ c.cur_block >= DataStart /\ c.end \in {"", "ok", "fail"}
  BY CursorTyped DEF Placed
<1>2. /\ t \in Process /\ t.io = {} /\ Same(s, t) /\ t.up /\ t.cursor = c
      /\ t.said = "none" /\ t.mode = "dump" /\ ~t.recording /\ t.vol = s.vol
      /\ t.request = "none"
  BY <1>1 DEF Process, Same
<1>3. u = IF c.end # "" THEN Report(t, c.end)
          ELSE IF c.cur_block + c.chunk > NumBlocks THEN Report(t, "fail")
          ELSE Submit(t, "chunk", c.cur_block, c.chunk)
  BY DEF Goes
<1> HIDE DEF t, u
<1>4. \A rc \in {"ok", "fail"} : Sound(Report(t, rc), d, l)
  BY <1>2, ExitSound DEF Report
<1>5. Voice(s, u) BY <1>2, <1>3, VoiceOf
<1>6. CASE c.end # "" BY <1>1, <1>3, <1>4, <1>5, <1>6 DEF u
<1>7. CASE c.end = "" /\ c.cur_block + c.chunk > NumBlocks
  BY <1>3, <1>4, <1>5, <1>7 DEF u
<1>8. CASE c.end = "" /\ ~(c.cur_block + c.chunk > NumBlocks)
  <2>1. u = Submit(t, "chunk", c.cur_block, c.chunk) BY <1>3, <1>8
  <2> DEFINE a == c.cur_block
             k == c.chunk
  <2>2. a \in Nat /\ k \in Nat /\ k > 0 /\ ~(a + k > NumBlocks)
    BY <1>1, <1>8
  <2>3. u = Submit(t, "chunk", a, k) BY <2>1
  <2>0. "chunk" \in Reads \cup Writes BY DEF Reads
  <2> HIDE DEF a, k
  <2>4. u = [t EXCEPT !.io = {Rq("chunk", a, k)}] /\ u \in Process
    <3>1. a \in 0 .. NumBlocks - 1 /\ a + k <= NumBlocks BY <2>2, Geometry
    <3>2. QED BY <1>2, <2>0, <2>2, <2>3, <3>1, SubmitIs
  <2>5. /\ u.up /\ u.mode = "dump" /\ ~u.recording /\ u.vol = s.vol
        /\ u.request = "none"
        /\ u.said = "none" /\ u.cursor = c
        /\ u.io = {Rq("chunk", a, k)}
    BY <1>2, <2>4 DEF Process
  <2>6. Walking(u, "chunk")
    <3>1. a + k <= NumBlocks BY <2>2, Geometry
    <3>2. c.cur_block = a /\ c.chunk = k BY DEF a, k
    <3>3. c.cur_block >= DataStart /\ c.chunk > 0
          /\ c.records_seen <= c.target_count
      BY DEF Placed
    <3>4. QED BY <2>5, <3>1, <3>2, <3>3 DEF Walking
  <2>7. Reading(u, d) BY <2>5, <2>6 DEF Reading
  <2>8. Phase(u, d, l) /\ Mute(u) BY <2>5, <2>7 DEF Phase, Mute
  <2>9. QED BY <1>5, <2>4, <2>8 DEF Sound, u
<1>9. QED BY <1>6, <1>7, <1>8

LEMMA GoesPage ==
    ASSUME NEW s \in Process, NEW d, NEW l, NEW c, Placed(c),
           Len(c.shown) <= c.req_limit, s.up, s.io = {}, s.said = "none",
           s.mode = "serve", s.request = "page", AtRest(s, d, l)
    PROVE  LET u == Goes(s, "page", c) IN Sound(u, d, l) /\ Voice(s, u)
<1> DEFINE t == [s EXCEPT !.cursor = c]
           u == Goes(s, "page", c)
<1>1. /\ c \in Cursor /\ c.cur_block \in Nat /\ c.chunk \in Nat /\ c.chunk > 0
      /\ c.cur_block >= DataStart /\ c.end \in {"", "ok", "fail"}
  BY CursorTyped DEF Placed
<1>2. /\ t \in Process /\ t.io = {} /\ Same(s, t) /\ t.up /\ t.cursor = c
      /\ t.said = "none" /\ t.mode = "serve" /\ t.request = "page"
      /\ Footing(s, t)
  BY <1>1 DEF Process, Same, Footing
<1>3. u = IF c.end # "" THEN Report(t, c.end)
          ELSE IF c.cur_block + c.chunk > NumBlocks THEN Report(t, "fail")
          ELSE Submit(t, "page", c.cur_block, c.chunk)
  BY DEF Goes
<1> HIDE DEF t, u
<1>4. AtRest(t, d, l) BY <1>2, FootingRests DEF AtRest
<1>5. \A rc \in {"ok", "fail"} : Sound(Report(t, rc), d, l)
  <2> TAKE rc \in {"ok", "fail"}
  <2>1. Report(t, rc) = Fulfill(t, rc) BY <1>2 DEF Report
  <2>2. QED BY <1>2, <1>4, <2>1, FulfillSound
<1>6. Voice(s, u) BY <1>2, <1>3, VoiceOf
<1>7. CASE c.end # "" BY <1>1, <1>3, <1>5, <1>6, <1>7 DEF u
<1>8. CASE c.end = "" /\ c.cur_block + c.chunk > NumBlocks
  BY <1>3, <1>5, <1>6, <1>8 DEF u
<1>9. CASE c.end = "" /\ ~(c.cur_block + c.chunk > NumBlocks)
  <2>1. u = Submit(t, "page", c.cur_block, c.chunk) BY <1>3, <1>9
  <2> DEFINE a == c.cur_block
             k == c.chunk
  <2>2. a \in Nat /\ k \in Nat /\ k > 0 /\ ~(a + k > NumBlocks)
    BY <1>1, <1>9
  <2>3. u = Submit(t, "page", a, k) BY <2>1
  <2>0. "page" \in Reads \cup Writes BY DEF Reads
  <2> HIDE DEF a, k
  <2>4. u = [t EXCEPT !.io = {Rq("page", a, k)}] /\ u \in Process
    <3>1. a \in 0 .. NumBlocks - 1 /\ a + k <= NumBlocks BY <2>2, Geometry
    <3>2. QED BY <1>2, <2>0, <2>2, <2>3, <3>1, SubmitIs
  <2>5. /\ u.up /\ u.mode = "serve" /\ u.request = "page" /\ Footing(t, u)
        /\ u.said = "none" /\ u.cursor = c
        /\ u.io = {Rq("page", a, k)}
    BY <1>2, <2>4 DEF Process, Footing
  <2>6. Walking(u, "page")
    <3>1. a + k <= NumBlocks BY <2>2, Geometry
    <3>2. c.cur_block = a /\ c.chunk = k BY DEF a, k
    <3>3. c.cur_block >= DataStart /\ c.chunk > 0
          /\ c.records_seen <= c.target_count
      BY DEF Placed
    <3>4. QED BY <2>5, <3>1, <3>2, <3>3 DEF Walking
  <2>7. AtRest(u, d, l) BY <1>2, <1>4, <2>5, FootingRests DEF AtRest
  <2>8. Paging(u, d, l) BY <2>5, <2>6, <2>7 DEF Paging, AtRest
  <2>9. Phase(u, d, l) /\ Mute(u) BY <2>5, <2>8 DEF Phase, Mute
  <2>10. QED BY <1>6, <2>4, <2>9 DEF Sound, u
<1>10. QED BY <1>7, <1>8, <1>9

LEMMA DumpEntryReadSound ==
    ASSUME NEW s \in Process, NEW d \in Disks, NEW l, NEW g \in Slots,
           s.up, s.io = {}, s.said = "none", s.mode = "dump", ~s.recording,
           Accepted(d.hdr), s.vol = d.hdr, s.request = "none", Consistent(d, l),
           s.io_buf = d.toc[g]
    PROVE  LET u == DumpEntryRead(s) IN Sound(u, d, l) /\ Voice(s, u)
<1> DEFINE e == s.io_buf
           t == [s EXCEPT !.target = e]
           x == [t EXCEPT !.segment_id = e.segment_id]
           c == Started(e, s.buf_size)
           u == DumpEntryRead(s)
<1>1. e \in Entry /\ s.buf_size \in ChunkSizes BY DEF Process
<1>2. t \in Process /\ Same(s, t) /\ t.said = "none"
  BY <1>1 DEF Process, Same
<1>3. CASE ~Visible(e)
  <2>1. u = Exit(t, "fail") BY <1>3 DEF DumpEntryRead
  <2> HIDE DEF t, u
  <2>2. Sound(u, d, l) /\ Voice(s, u) BY <1>2, <2>1, ExitSound, VoiceOf
  <2>3. QED BY <2>2 DEF u
<1>4. CASE Visible(e) /\ e.state = "OPEN"
  <2>1. u = Exit(t, "ok") BY <1>4 DEF DumpEntryRead
  <2> HIDE DEF t, u
  <2>2. Sound(u, d, l) /\ Voice(s, u) BY <1>2, <2>1, ExitSound, VoiceOf
  <2>3. QED BY <2>2 DEF u
<1>5. CASE Visible(e) /\ ~(e.state = "OPEN")
  <2>1. u = Goes(x, "chunk", c) BY <1>5 DEF DumpEntryRead
  <2>2. Fin(d, g) BY <1>1, <1>5 DEF Fin, Visible, Entry
  <2>3. e.segment_id = g /\ e.start_block >= DataStart
    BY <2>2 DEF Consistent
  <2>4. Placed(c) BY <1>1, <2>3, StartedPlaced
  <2>5. /\ x \in Process /\ x.up /\ x.io = {} /\ x.said = "none"
        /\ x.mode = "dump" /\ ~x.recording /\ x.vol = s.vol /\ Same(s, x)
        /\ x.request = "none"
    <3> HIDE DEF e
    <3>1. QED BY <1>1, <1>2, <2>3 DEF Process, Same
  <2> HIDE DEF x, c, u
  <2>6. Sound(u, d, l) /\ Voice(x, u) BY <2>1, <2>4, <2>5, GoesDump
  <2>7. QED BY <2>5, <2>6 DEF Voice, Same, u
<1>6. QED BY <1>3, <1>4, <1>5

LEMMA RepairEntryReadSound ==
    ASSUME NEW s \in Process, NEW d \in Disks, NEW l, NEW z \in ChunkSizes,
           s.up, s.io = {}, s.said = "none", s.mode = "repair", ~s.recording,
           Accepted(d.hdr), s.vol = d.hdr, s.request = "none", Consistent(d, l),
           s.io_buf = d.toc[s.dump_segment_id]
    PROVE  LET u == RepairEntryRead(s, z) IN Sound(u, d, l) /\ Voice(s, u)
<1> DEFINE e == s.io_buf
           g == s.dump_segment_id
           at == TocStart + g
           x == [s EXCEPT !.io_buf.chunk = z]
           u == RepairEntryRead(s, z)
<1>1. e \in Entry /\ g \in Slots /\ Same(s, s) /\ z \in Nat
  BY Geometry DEF Process, Same
<1>2. CASE ~Visible(e)
  <2>1. u = Exit(s, "fail") BY <1>2 DEF RepairEntryRead
  <2> HIDE DEF u
  <2>2. Sound(u, d, l) /\ Voice(s, u) BY <1>1, <2>1, ExitSound, VoiceOf
  <2>3. QED BY <2>2 DEF u
<1>3. CASE Visible(e) /\ e.state = "OPEN"
  <2>1. u = Exit(s, "ok") BY <1>3 DEF RepairEntryRead
  <2> HIDE DEF u
  <2>2. Sound(u, d, l) /\ Voice(s, u) BY <1>1, <2>1, ExitSound, VoiceOf
  <2>3. QED BY <2>2 DEF u
<1>4. CASE Visible(e) /\ ~(e.state = "OPEN")
  <2>1. s.vol.toc_start = TocStart BY DEF Consistent
  <2>2. u = Submit(x, "repair", at, 1) BY <1>4, <2>1 DEF RepairEntryRead
  <2>3. Fin(d, g) BY <1>1, <1>4 DEF Fin, Visible, Entry
  <2>4. [e EXCEPT !.chunk = z] \in Entry /\ [e EXCEPT !.chunk = z].chunk = z
    BY <1>1 DEF Entry
  <2>5. x = [s EXCEPT !.io_buf = [e EXCEPT !.chunk = z]] BY DEF Process
  <2>6. at \in 0 .. NumBlocks - 1 BY <1>1, SlotBlock
  <2>7. "repair" \in Reads \cup Writes /\ 1 \in Nat BY DEF Writes
  <2> DEFINE y == [e EXCEPT !.chunk = z]
  <2>8. x \in Process /\ x.io = {} /\ Same(s, x) /\ x.said = "none"
    <3> HIDE DEF y
    <3>1. y \in Entry BY <2>4 DEF y
    <3>2. x = [s EXCEPT !.io_buf = y] BY <2>5 DEF y
    <3> HIDE DEF x
    <3>3. QED BY <3>1, <3>2 DEF Process, Same
  <2>9. x.io_buf = y /\ x.up /\ x.mode = "repair" /\ ~x.recording
        /\ x.vol = s.vol /\ x.dump_segment_id = g /\ x.request = "none"
    BY <2>5 DEF Process
  <2> HIDE DEF x, y, at
  <2>10. u = [x EXCEPT !.io = {Rq("repair", at, 1)}] /\ u \in Process
    BY <2>2, <2>6, <2>7, <2>8, SubmitIs
  <2>11. /\ u.up /\ u.mode = "repair" /\ ~u.recording /\ u.vol = s.vol
         /\ u.request = "none"
         /\ u.said = "none" /\ u.io_buf = y /\ u.dump_segment_id = g
         /\ u.io = {Rq("repair", at, 1)}
    BY <2>8, <2>9, <2>10 DEF Process
  <2>12. Voice(s, u) BY <2>2, <2>8, VoiceOf
  <2> HIDE DEF u
  <2>13. u.io_buf = [d.toc[g] EXCEPT !.chunk = u.io_buf.chunk]
    BY <2>4, <2>11 DEF y
  <2>14. Reading(u, d) BY <2>3, <2>11, <2>13 DEF Reading, at
  <2>15. Phase(u, d, l) /\ Mute(u) BY <2>11, <2>14 DEF Phase, Mute
  <2>16. QED BY <2>10, <2>12, <2>15 DEF Sound, u
<1>5. QED BY <1>2, <1>3, <1>4

LEMMA PageEntryReadSound ==
    ASSUME NEW s \in Process, NEW d \in Disks, NEW l, NEW g \in Slots,
           s.up, s.io = {}, s.said = "none", s.mode = "serve",
           s.request = "page", AtRest(s, d, l), Consistent(d, l),
           s.io_buf = d.toc[g]
    PROVE  LET u == PageEntryRead(s) IN Sound(u, d, l) /\ Voice(s, u)
<1> DEFINE e == s.io_buf
           t == [s EXCEPT !.target = e]
           f == s.cursor.req_offset
           n == s.cursor.req_limit
           c == PageStarted(e, s.buf_size, f, n)
           u == PageEntryRead(s)
<1>1. e \in Entry /\ s.buf_size \in ChunkSizes /\ f \in Nat /\ n \in Nat
  BY DEF Process, Cursor
<1>2. /\ t \in Process /\ Same(s, t) /\ t.said = "none" /\ Footing(s, t)
      /\ t.up /\ t.io = {} /\ t.mode = "serve" /\ t.request = "page"
  BY <1>1 DEF Process, Same, Footing
<1>3. AtRest(t, d, l)
  <2> HIDE DEF t
  <2>1. QED BY <1>2, FootingRests DEF AtRest
<1>4. CASE ~Visible(e) \/ e.state = "OPEN"
  <2>1. u = Fulfill(t, "fail") BY <1>4 DEF PageEntryRead
  <2> HIDE DEF t, u
  <2>2. Sound(u, d, l) /\ Voice(s, u)
    BY <1>2, <1>3, <2>1, FulfillSound, VoiceOf
  <2>3. QED BY <2>2 DEF u
<1>5. CASE ~(~Visible(e) \/ e.state = "OPEN")
  <2>1. u = Goes(t, "page", c) BY <1>5 DEF PageEntryRead
  <2>2. Fin(d, g) BY <1>1, <1>5 DEF Fin, Visible, Entry
  <2>3. Accepted(d.hdr)
    BY DEF AtRest, Resting, Writing, Session, Mounted
  <2>4. e.start_block >= DataStart BY <2>2, <2>3 DEF Consistent
  <2> HIDE DEF f, n
  <2>5. Placed(c) /\ c.shown = <<>> /\ c.req_limit = n
    BY <1>1, <2>4, PageStartedPlaced
  <2>6. Len(c.shown) <= c.req_limit BY <1>1, <2>5
  <2> HIDE DEF t, c, u
  <2>7. Sound(u, d, l) /\ Voice(t, u)
    BY <1>2, <1>3, <2>1, <2>5, <2>6, GoesPage
  <2>8. QED BY <1>2, <2>7 DEF Voice, Same, u
<1>6. QED BY <1>4, <1>5

LEMMA ListNextSound ==
    ASSUME NEW s \in Process, NEW d \in Disks, NEW l,
           s.up, s.io = {}, s.said = "none", s.mode = "list", ~s.recording,
           Accepted(d.hdr), s.vol = d.hdr, s.request = "none", Consistent(d, l)
    PROVE  LET u == ListNext(s) IN Sound(u, d, l) /\ Voice(s, u)
<1> DEFINE k == Len(s.listed)
           at == TocStart + k
           u == ListNext(s)
<1>0. s.listed \in Seq(Entry) BY DEF Process
<1>1. /\ k \in Nat /\ s.vol.next_segment_id \in Nat /\ Same(s, s)
      /\ s.vol.next_segment_id <= SegmentSlots /\ s.vol.toc_start = TocStart
  BY <1>0, LenProperties DEF Process, Header, Consistent, Same
<1>2. CASE k >= s.vol.next_segment_id
  <2>1. u = Exit(s, "ok") BY <1>2 DEF ListNext
  <2> HIDE DEF u
  <2>2. Sound(u, d, l) /\ Voice(s, u) BY <1>1, <2>1, ExitSound, VoiceOf
  <2>3. QED BY <2>2 DEF u
<1>3. CASE ~(k >= s.vol.next_segment_id)
  <2>1. k \in Slots BY <1>1, <1>3, Geometry
  <2>2. at \in 0 .. NumBlocks - 1 BY <2>1, SlotBlock
  <2>3. u = Submit(s, "list", at, 1) BY <1>1, <1>3 DEF ListNext
  <2>4. "list" \in Reads \cup Writes /\ 1 \in Nat BY DEF Reads
  <2> HIDE DEF at
  <2>5. u = [s EXCEPT !.io = {Rq("list", at, 1)}] /\ u \in Process
    BY <2>2, <2>3, <2>4, SubmitIs
  <2>6. /\ u.up /\ u.mode = "list" /\ ~u.recording /\ u.vol = s.vol
        /\ u.request = "none"
        /\ u.said = "none" /\ u.listed = s.listed
        /\ u.io = {Rq("list", at, 1)}
    BY <2>5 DEF Process
  <2>7. Voice(s, u) BY <1>1, <2>3, VoiceOf
  <2> HIDE DEF u
  <2>8. Len(u.listed) < u.vol.next_segment_id BY <1>1, <1>3, <2>6
  <2>9. Reading(u, d) BY <2>6, <2>8 DEF Reading, at
  <2>10. Phase(u, d, l) /\ Mute(u) BY <2>6, <2>9 DEF Phase, Mute
  <2>11. QED BY <2>5, <2>7, <2>10 DEF Sound, u
<1>4. QED BY <1>2, <1>3

-----------------------------------------------------------------------------
(* Writes *)

\* What a write may do to the finalized segments of a volume in use.
Steady(d, D) ==
    \A g \in Slots : Fin(d, g) /\ Accepted(d.hdr) /\ Visible(D.toc[g]) =>
       D.toc[g] = [d.toc[g] EXCEPT !.chunk = D.toc[g].chunk]

Safe(d, D, l) == D \in Disks /\ Consistent(D, l) /\ Steady(d, D)

LEMMA EntrySame == \A e \in Entry : e = [e EXCEPT !.chunk = e.chunk]
  BY DEF Entry

LEMMA PerformedIs ==
    ASSUME disk \in Disks, p \in Process, NEW r, NEW B
    PROVE  LET D == Performed(r, B)
           IN  /\ D \in Disks
               /\ D.hdr = IF 0 \notin B THEN disk.hdr
                          ELSE IF r.op \in {"initHdr", "qfHdr", "claimHdr", "finHdr"}
                          THEN p.vol_buf ELSE NoHeader
               /\ \A g \in Slots :
                     D.toc[g] = IF TocStart + g \notin B THEN disk.toc[g]
                                ELSE IF TocStart + g = r.at THEN p.io_buf
                                ELSE FreeEntry
<1> DEFINE D == Performed(r, B)
           h == IF 0 \notin B THEN disk.hdr
                ELSE IF r.op \in {"initHdr", "qfHdr", "claimHdr", "finHdr"}
                THEN p.vol_buf ELSE NoHeader
           t == [g \in Slots |->
                   IF TocStart + g \notin B THEN disk.toc[g]
                   ELSE IF TocStart + g = r.at THEN p.io_buf ELSE FreeEntry]
<1>1. D = [disk EXCEPT !.hdr = h, !.toc = t] BY DEF Performed, Disks
<1>2. h \in Header BY Plain DEF Disks, Process
<1>3. t \in [Slots -> Entry]
  <2>1. p.io_buf \in Entry /\ FreeEntry \in Entry
        /\ disk.toc \in [Slots -> Entry]
    BY Plain DEF Process, Disks
  <2>2. QED BY <2>1
<1>4. \A g \in Slots : t[g] = IF TocStart + g \notin B THEN disk.toc[g]
                              ELSE IF TocStart + g = r.at THEN p.io_buf
                              ELSE FreeEntry
  OBVIOUS
<1>5. D \in Disks /\ D.hdr = h /\ D.toc = t
  <2> HIDE DEF D, h, t
  <2>1. QED BY <1>1, <1>2, <1>3 DEF Disks
<1> HIDE DEF D, t
<1>6. QED BY <1>4, <1>5 DEF D

\* Nothing but entries taken away.
LEMMA ThinnerSafe ==
    ASSUME NEW d \in Disks, NEW D \in Disks, NEW l, Consistent(d, l),
           D.hdr = d.hdr,
           \A g \in Slots : D.toc[g] = d.toc[g] \/ ~Visible(D.toc[g])
    PROVE  Safe(d, D, l)
<1>1. \A g \in Slots : Visible(D.toc[g]) => D.toc[g] = d.toc[g] OBVIOUS
<1>2. \A g \in Slots : Fin(D, g) => Fin(d, g) /\ D.toc[g] = d.toc[g]
  BY <1>1 DEF Fin
<1>3. Apart(d) => Apart(D) BY <1>2 DEF Apart
<1>4. Consistent(D, l) BY <1>1, <1>2, <1>3 DEF Consistent
<1>5. Steady(d, D)
  <2>1. \A g \in Slots : d.toc[g] \in Entry BY DEF Disks
  <2>2. QED BY <1>1, <2>1, EntrySame DEF Steady
<1>6. QED BY <1>4, <1>5 DEF Safe

\* An empty volume.
LEMMA EmptySafe ==
    ASSUME NEW d \in Disks, NEW D \in Disks, NEW l, NEW n \in Nat,
           D.hdr = FreshHeader(n), \A g \in Slots : ~Visible(D.toc[g])
    PROVE  Safe(d, D, l)
<1>1. /\ D.hdr.toc_start = TocStart /\ D.hdr.next_segment_id = 0
      /\ D.hdr.next_data_block = DataStart
  BY Fresh
<1>2. \A g \in Slots : ~Fin(D, g) BY DEF Fin
<1>3. Apart(D) BY <1>2 DEF Apart
<1>4. Consistent(D, l) BY <1>1, <1>2, <1>3, Geometry DEF Consistent
<1>5. Steady(d, D) BY DEF Steady
<1>6. QED BY <1>4, <1>5 DEF Safe

\* The header of the volume in use, with what was claimed or finalized.
LEMMA HeaderSafe ==
    ASSUME NEW d \in Disks, NEW D \in Disks, NEW l, Consistent(d, l),
           D.toc = d.toc, Accepted(d.hdr), D.hdr.toc_start = TocStart,
           D.hdr.era = d.hdr.era, D.hdr.next_data_block >= DataStart,
           d.hdr.next_segment_id <= D.hdr.next_segment_id,
           D.hdr.next_segment_id <= SegmentSlots,
           ~l.header_lost => \A g \in Slots : Fin(d, g) =>
                                End(d.toc[g]) <= D.hdr.next_data_block
    PROVE  Safe(d, D, l)
<1>1. \A g \in Slots : Fin(D, g) <=> Fin(d, g) BY DEF Fin
<1>2. /\ d.hdr.next_segment_id \in Nat /\ D.hdr.next_segment_id \in Nat
      /\ \A g \in Slots : g \in Nat
  BY Geometry DEF Disks, Header
<1>3. /\ \A g \in Slots : Visible(D.toc[g]) =>
            /\ D.toc[g].era = D.hdr.era
            /\ l.faults = 0 => g <= D.hdr.next_segment_id
      /\ \A g \in Slots : Fin(D, g) =>
            /\ g < D.hdr.next_segment_id /\ D.toc[g].segment_id = g
            /\ D.toc[g].start_block >= DataStart
  BY <1>1, <1>2 DEF Consistent
<1>4. ~l.header_lost => Apart(D) BY <1>1 DEF Consistent, Apart
<1>5. Consistent(D, l) BY <1>3, <1>4 DEF Consistent
<1>6. Steady(d, D)
  <2>1. \A g \in Slots : d.toc[g] \in Entry BY DEF Disks
  <2>2. QED BY <2>1, EntrySame DEF Steady
<1>7. QED BY <1>5, <1>6 DEF Safe

\* The entry of a claim.
LEMMA ClaimedSafe ==
    ASSUME NEW d \in Disks, NEW D \in Disks, NEW l, Consistent(d, l),
           Accepted(d.hdr), D.hdr = d.hdr, NEW k \in Slots,
           \A g \in Slots : g # k => D.toc[g] = d.toc[g],
           d.hdr.next_segment_id <= k,
           D.toc[k].state = "OPEN", D.toc[k].era = d.hdr.era,
           l.faults = 0 => k <= d.hdr.next_segment_id
    PROVE  Safe(d, D, l)
<1>1. d.hdr.next_segment_id \in Nat /\ \A g \in Slots : g \in Nat
  BY Geometry DEF Disks, Header
<1>2. \A g \in Slots : Fin(d, g) => g # k BY <1>1 DEF Consistent
<1>3. ~Fin(D, k) BY DEF Fin
<1>4. \A g \in Slots : Fin(D, g) => g # k /\ Fin(d, g) /\ D.toc[g] = d.toc[g]
  BY <1>3 DEF Fin
<1>5. Apart(d) => Apart(D) BY <1>4 DEF Apart
<1>6. \A g \in Slots : Visible(D.toc[g]) =>
         /\ D.toc[g].era = D.hdr.era
         /\ l.faults = 0 => g <= D.hdr.next_segment_id
  <2> TAKE g \in Slots
  <2>1. CASE g = k BY <2>1
  <2>2. CASE g # k BY <2>2 DEF Consistent
  <2>3. QED BY <2>1, <2>2
<1>7. Consistent(D, l) BY <1>4, <1>5, <1>6 DEF Consistent
<1>8. Steady(d, D)
  <2>1. \A g \in Slots : d.toc[g] \in Entry BY DEF Disks
  <2>2. QED BY <1>2, <2>1, EntrySame DEF Steady
<1>9. QED BY <1>7, <1>8 DEF Safe

\* The entry of a finalize.
LEMMA FinalizedSafe ==
    ASSUME NEW d \in Disks, NEW D \in Disks, NEW l, Consistent(d, l),
           Accepted(d.hdr), D.hdr = d.hdr, NEW k \in Slots,
           \A g \in Slots : g # k => D.toc[g] = d.toc[g],
           k < d.hdr.next_segment_id,
           D.toc[k].segment_id = k, D.toc[k].era = d.hdr.era,
           D.toc[k].start_block >= DataStart,
           ~l.header_lost => End(D.toc[k]) <= d.hdr.next_data_block,
           \A g \in Slots : Fin(d, g) =>
              /\ g < k
              /\ ~l.header_lost => End(d.toc[g]) <= D.toc[k].start_block
    PROVE  Safe(d, D, l)
<1>1. d.hdr.next_segment_id \in Nat /\ \A g \in Slots : g \in Nat
  BY Geometry DEF Disks, Header
<1>2. \A g \in Slots : Fin(d, g) => g # k /\ g < k BY <1>1
<1>3. \A g \in Slots : Fin(D, g) =>
         g = k \/ (g # k /\ g < k /\ Fin(d, g) /\ D.toc[g] = d.toc[g])
  BY <1>2 DEF Fin
<1>4. ASSUME ~l.header_lost PROVE Apart(D)
  <2>1. Apart(d) BY <1>4 DEF Consistent
  <2>2. ASSUME NEW g \in Slots, Fin(D, g)
        PROVE  End(D.toc[g]) <= D.hdr.next_data_block
    <3>1. CASE g = k BY <1>4, <3>1
    <3>2. CASE g # k
      <4>1. Fin(d, g) /\ D.toc[g] = d.toc[g] BY <1>3, <2>2, <3>2
      <4>2. QED BY <2>1, <4>1 DEF Apart
    <3>3. QED BY <3>1, <3>2
  <2>3. ASSUME NEW g \in Slots, NEW h \in Slots, Fin(D, g), Fin(D, h), g < h
        PROVE  End(D.toc[g]) <= D.toc[h].start_block
    <3>1. g # k
      <4>1. ASSUME g = k PROVE FALSE
        <5>1. h # k BY <1>1, <2>3, <4>1
        <5>2. h < k BY <1>3, <2>3, <5>1
        <5>3. g \in Nat /\ h \in Nat BY <1>1
        <5>4. QED BY <2>3, <4>1, <5>2, <5>3
      <4>2. QED BY <4>1
    <3>2. Fin(d, g) /\ D.toc[g] = d.toc[g] BY <1>3, <2>3, <3>1
    <3>3. CASE h = k BY <1>4, <3>2, <3>3
    <3>4. CASE h # k
      <4>1. Fin(d, h) /\ D.toc[h] = d.toc[h] BY <1>3, <2>3, <3>4
      <4>2. QED BY <2>1, <2>3, <3>2, <4>1 DEF Apart
    <3>5. QED BY <3>3, <3>4
  <2>4. QED BY <2>2, <2>3 DEF Apart
<1>5. \A g \in Slots : Visible(D.toc[g]) =>
         /\ D.toc[g].era = D.hdr.era
         /\ l.faults = 0 => g <= D.hdr.next_segment_id
  <2> TAKE g \in Slots
  <2>1. CASE g = k BY <1>1, <2>1
  <2>2. CASE g # k BY <2>2 DEF Consistent
  <2>3. QED BY <2>1, <2>2
<1>6. \A g \in Slots : Fin(D, g) =>
         /\ g < D.hdr.next_segment_id /\ D.toc[g].segment_id = g
         /\ D.toc[g].start_block >= DataStart
  <2> TAKE g \in Slots
  <2>1. CASE g = k BY <2>1
  <2>2. CASE g # k BY <1>3, <2>2 DEF Consistent
  <2>3. QED BY <2>1, <2>2
<1>7. Consistent(D, l) BY <1>4, <1>5, <1>6 DEF Consistent
<1>8. Steady(d, D)
  <2>1. \A g \in Slots : d.toc[g] \in Entry BY DEF Disks
  <2>2. QED BY <1>2, <2>1, EntrySame DEF Steady
<1>9. QED BY <1>7, <1>8 DEF Safe

\* A finalized entry with another chunk size.
LEMMA RepairedSafe ==
    ASSUME NEW d \in Disks, NEW D \in Disks, NEW l, Consistent(d, l),
           D.hdr = d.hdr, NEW k \in Slots, Fin(d, k),
           \A g \in Slots : g # k => D.toc[g] = d.toc[g],
           NEW z, D.toc[k] = [d.toc[k] EXCEPT !.chunk = z]
    PROVE  Safe(d, D, l)
<1>1. \A g \in Slots : d.toc[g] \in Entry BY DEF Disks
<1>2. /\ D.toc[k].magic = d.toc[k].magic /\ D.toc[k].state = d.toc[k].state
      /\ D.toc[k].segment_id = d.toc[k].segment_id
      /\ D.toc[k].start_block = d.toc[k].start_block
      /\ D.toc[k].block_count = d.toc[k].block_count
      /\ D.toc[k].era = d.toc[k].era /\ D.toc[k].chunk = z
  BY <1>1 DEF Entry
<1>3. \A g \in Slots :
         /\ D.toc[g].segment_id = d.toc[g].segment_id
         /\ D.toc[g].start_block = d.toc[g].start_block
         /\ End(D.toc[g]) = End(d.toc[g])
         /\ D.toc[g].era = d.toc[g].era
         /\ Visible(D.toc[g]) <=> Visible(d.toc[g])
         /\ Fin(D, g) <=> Fin(d, g)
  <2> TAKE g \in Slots
  <2>1. CASE g = k BY <1>2, <2>1 DEF End, Visible, Fin
  <2>2. CASE g # k BY <2>2 DEF End, Visible, Fin
  <2>3. QED BY <2>1, <2>2
<1>4. Apart(d) => Apart(D) BY <1>3 DEF Apart
<1>5. Consistent(D, l) BY <1>3, <1>4 DEF Consistent
<1>6. Steady(d, D)
  <2>1. \A g \in Slots : D.toc[g] = [d.toc[g] EXCEPT !.chunk = D.toc[g].chunk]
    <3> TAKE g \in Slots
    <3>1. CASE g = k BY <1>2, <3>1
    <3>2. CASE g # k BY <1>1, <3>2, EntrySame
    <3>3. QED BY <3>1, <3>2
  <2>2. QED BY <2>1 DEF Steady
<1>7. QED BY <1>5, <1>6 DEF Safe

LEMMA SameSafe ==
    ASSUME NEW d \in Disks, NEW l, Consistent(d, l)
    PROVE  Safe(d, d, l)
  BY ThinnerSafe

-----------------------------------------------------------------------------
(* Where an outstanding I/O stands *)

\* What a format that reports success owes.
Succeeded(s, d, l) ==
    s.rc = "ok" /\ (s.said = "format" \/ (~s.up /\ s.mode \in {"init", "force"}))
    => d.hdr = FreshHeader(l.formats) /\ Cleared(d, DataStart)

VolumeInv ==
    /\ disk \in Disks /\ load \in Loads
    /\ Sound(p, disk, load) /\ Consistent(disk, load)
    /\ Succeeded(p, disk, load)

\* What every action has to establish of the process and the device after it.
Good(s, d, l) == Sound(s, d, l) /\ Safe(disk, d, l) /\ Succeeded(s, d, l)

LEMMA GoodIsEnough ==
    ASSUME Good(p', disk', load'), load' \in Loads
    PROVE  VolumeInv' /\ Steady(disk, disk')
<1>1. disk' \in Disks /\ Consistent(disk', load') /\ Steady(disk, disk')
  BY DEF Good, Safe
<1>2. Sound(p', disk', load') /\ Succeeded(p', disk', load') BY DEF Good
<1>3. VolumeInv'
  BY <1>1, <1>2
  DEF VolumeInv, Sound, Consistent, Succeeded, Phase, Mute, Formatting, Opening,
      Claiming, Resting, Writing, Finalizing, Renewing, Paging, Reading
<1>4. QED BY <1>1, <1>3

LEMMA Quiet ==
    ASSUME NEW s \in Process, NEW t, NEW d, NEW l, Voice(s, t),
           s.mode \notin {"init", "force"}, s.request # "format"
    PROVE  Succeeded(t, d, l)
  BY DEF Voice, Succeeded

Renews(s, d, l) ==
    Resting(s, d, l) /\ s.request = "format" /\ s.staged = FreshHeader(l.formats)

LEMMA Stage ==
    ASSUME VolumeInv, NEW r \in p.io
    PROVE  /\ p.up /\ p.io = {r} /\ p.said = "none" /\ r \in Io
           /\ r.op = "check" =>
                /\ p.mode \in {"init", "force"} /\ ~p.recording
                /\ p.io_buf = FreeEntry
           /\ r.op = "zero" =>
                /\ p.mode \in {"init", "force"} /\ ~p.recording
                /\ p.io_buf = FreeEntry /\ p.vol = FreshHeader(load.formats)
                /\ Zeroing(p, "zero") /\ Cleared(disk, p.init_cur_block)
           /\ r.op = "initHdr" =>
                /\ p.mode \in {"init", "force"} /\ r = Rq("initHdr", 0, 1)
                /\ p.vol_buf = FreshHeader(load.formats)
                /\ Cleared(disk, DataStart)
           /\ r.op = "header" => Opening(p)
           /\ r.op = "qfZero" =>
                /\ Renews(p, disk, load) /\ p.io_buf = FreeEntry
                /\ Zeroing(p, "qfZero") /\ Cleared(disk, p.init_cur_block)
           /\ r.op = "qfHdr" =>
                /\ Renews(p, disk, load) /\ r = Rq("qfHdr", 0, 1)
                /\ p.vol_buf = p.staged /\ Cleared(disk, DataStart)
           /\ r.op = "claimToc" =>
                /\ EntryDue(p, disk, load)
                /\ r = Rq("claimToc", TocStart + p.segment_id, 1)
                /\ p.io_buf.state = "OPEN" /\ p.io_buf.era = p.vol.era
           /\ r.op = "claimHdr" =>
                /\ HeaderDue(p, disk, load) /\ p.vol_buf = p.vol
                /\ r = Rq("claimHdr", 0, 1)
           /\ r.op = "finHdr" =>
                /\ Stopping(p, disk, load) /\ p.vol_buf = p.vol
                /\ r = Rq("finHdr", 0, 1)
           /\ r.op = "finToc" =>
                /\ Stopping(p, disk, load) /\ InStep(p, disk, load)
                /\ r = Rq("finToc", TocStart + p.segment_id, 1)
                /\ p.io_buf = Entered(p)
           /\ r.op \in {"pageEntry", "page"} =>
                /\ p.mode = "serve" /\ p.request = "page"
                /\ AtRest(p, disk, load)
                /\ Len(p.cursor.shown) <= p.cursor.req_limit
           /\ r.op = "pageEntry" =>
                \E g \in Slots : r = Rq("pageEntry", TocStart + g, 1)
           /\ r.op = "page" => Walking(p, "page")
           /\ r.op \in {"list", "entry", "chunk", "repair"} =>
                /\ ~p.recording /\ Accepted(disk.hdr) /\ p.vol = disk.hdr
                /\ p.request = "none"
           /\ r.op = "list" =>
                /\ p.mode = "list" /\ Len(p.listed) < p.vol.next_segment_id
                /\ r = Rq("list", TocStart + Len(p.listed), 1)
           /\ r.op = "entry" =>
                /\ p.mode \in {"dump", "repair"}
                /\ r = Rq("entry", TocStart + p.dump_segment_id, 1)
           /\ r.op = "chunk" => p.mode = "dump" /\ Walking(p, "chunk")
           /\ r.op = "repair" =>
                /\ p.mode = "repair" /\ Fin(disk, p.dump_segment_id)
                /\ r = Rq("repair", TocStart + p.dump_segment_id, 1)
                /\ p.io_buf = [disk.toc[p.dump_segment_id] EXCEPT
                                 !.chunk = p.io_buf.chunk]
<1>1. p \in Process /\ Phase(p, disk, load) /\ Mute(p) BY DEF VolumeInv, Sound
<1>2. p.said = "none" /\ r \in Io /\ p.up BY <1>1 DEF Mute, Process, Phase
<1>3. \/ Formatting(p, disk, load) \/ Opening(p) \/ Claiming(p, disk, load)
      \/ Finalizing(p, disk, load) \/ Renewing(p, disk, load)
      \/ Paging(p, disk, load) \/ Reading(p, disk)
  BY <1>1 DEF Phase
<1> USE DEF Rq
<1>4. CASE Formatting(p, disk, load)
  <2>1. p.mode \in {"init", "force"} /\ ~p.recording /\ p.io_buf = FreeEntry
    BY <1>4 DEF Formatting
  <2>2. CASE p.io = {Rq("check", 0, 1)} BY <1>2, <2>1, <2>2
  <2>3. CASE /\ p.vol = FreshHeader(load.formats)
             /\ Zeroing(p, "zero") /\ Cleared(disk, p.init_cur_block)
    <3>1. r.op = "zero" /\ p.io = {r} BY <2>3 DEF Zeroing
    <3>2. QED BY <1>2, <2>1, <2>3, <3>1
  <2>4. CASE /\ p.vol_buf = FreshHeader(load.formats)
             /\ p.io = {Rq("initHdr", 0, 1)} /\ Cleared(disk, DataStart)
    BY <1>2, <2>1, <2>4
  <2>5. QED BY <1>4, <2>2, <2>3, <2>4 DEF Formatting
<1>5. CASE Opening(p) BY <1>2, <1>5 DEF Opening
<1>6. CASE Claiming(p, disk, load) BY <1>2, <1>6 DEF Claiming
<1>7. CASE Finalizing(p, disk, load) BY <1>2, <1>7 DEF Finalizing
<1>8. CASE Renewing(p, disk, load)
  <2>1. Renews(p, disk, load) BY <1>8 DEF Renewing, Renews
  <2>2. CASE /\ p.io_buf = FreeEntry /\ Zeroing(p, "qfZero")
             /\ Cleared(disk, p.init_cur_block)
    <3>1. r.op = "qfZero" /\ p.io = {r} BY <2>2 DEF Zeroing
    <3>2. QED BY <1>2, <2>1, <2>2, <3>1
  <2>3. CASE /\ p.io = {Rq("qfHdr", 0, 1)} /\ p.vol_buf = p.staged
             /\ Cleared(disk, DataStart)
    BY <1>2, <2>1, <2>3
  <2>4. QED BY <1>8, <2>2, <2>3 DEF Renewing
<1>9. CASE Paging(p, disk, load)
  BY <1>2, <1>9 DEF Paging, AtRest, Walking
<1>10. CASE Reading(p, disk)
  <2>1. ~p.recording /\ Accepted(disk.hdr) /\ p.vol = disk.hdr
        /\ p.request = "none"
    BY <1>10 DEF Reading
  <2>2. CASE p.io = {Rq("list", TocStart + Len(p.listed), 1)}
    BY <1>2, <1>10, <2>1, <2>2 DEF Reading, Walking
  <2>3. CASE p.io = {Rq("entry", TocStart + p.dump_segment_id, 1)}
    BY <1>2, <1>10, <2>1, <2>3 DEF Reading, Walking
  <2>4. CASE Walking(p, "chunk")
    BY <1>2, <1>10, <2>1, <2>4 DEF Reading, Walking
  <2>5. CASE p.io = {Rq("repair", TocStart + p.dump_segment_id, 1)}
    BY <1>2, <1>10, <2>1, <2>5 DEF Reading, Walking
  <2>6. QED BY <1>10, <2>2, <2>3, <2>4, <2>5 DEF Reading
<1>11. QED BY <1>3, <1>4, <1>5, <1>6, <1>7, <1>8, <1>9, <1>10

-----------------------------------------------------------------------------
(* The device after a write, or part of one *)

\* A write of one block.
LEMMA OneBlock ==
    ASSUME disk \in Disks, p \in Process, NEW r, NEW at \in Nat, r.at = at,
           r.len = 1, NEW B \in SUBSET Blocks(r)
    PROVE  B = {} \/ B = {at}
<1>1. Blocks(r) = {at}
  <2>1. Blocks(r) = at .. at + 1 - 1 BY DEF Blocks
  <2>2. at .. at + 1 - 1 = {at} OBVIOUS
  <2>3. QED BY <2>1, <2>2
<1>2. QED BY <1>1

LEMMA HeaderWritten ==
    ASSUME disk \in Disks, p \in Process, NEW r,
           NEW op \in {"initHdr", "qfHdr", "claimHdr", "finHdr"},
           r = Rq(op, 0, 1), NEW B \in SUBSET Blocks(r)
    PROVE  LET D == Performed(r, B)
           IN  /\ D \in Disks /\ D.toc = disk.toc
               /\ D.hdr = disk.hdr \/ D.hdr = p.vol_buf
               /\ B = Blocks(r) => D.hdr = p.vol_buf
<1> DEFINE D == Performed(r, B)
<1>1. r.at = 0 /\ r.len = 1 /\ r.op = op BY DEF Rq
<1>2. B = {} \/ B = {0} BY <1>1, OneBlock
<1>3. Blocks(r) = {0}
  <2>1. Blocks(r) = 0 .. 0 + 1 - 1 BY <1>1 DEF Blocks
  <2>2. QED BY <2>1
<1>4. \A g \in Slots : TocStart + g \notin B BY <1>2, SlotBlock
<1>5. /\ D \in Disks /\ \A g \in Slots : D.toc[g] = disk.toc[g]
      /\ D.hdr = IF 0 \notin B THEN disk.hdr ELSE p.vol_buf
  BY <1>1, <1>4, PerformedIs
<1> HIDE DEF D
<1>6. D.toc = disk.toc BY <1>5 DEF Disks
<1>7. QED BY <1>2, <1>3, <1>5, <1>6 DEF D

LEMMA EntryWritten ==
    ASSUME disk \in Disks, p \in Process, NEW r, NEW op, NEW k \in Slots,
           r = Rq(op, TocStart + k, 1), NEW B \in SUBSET Blocks(r)
    PROVE  LET D == Performed(r, B)
           IN  /\ D \in Disks /\ D.hdr = disk.hdr
               /\ \A g \in Slots : g # k => D.toc[g] = disk.toc[g]
               /\ D.toc[k] = disk.toc[k] \/ D.toc[k] = p.io_buf
               /\ B = Blocks(r) => D.toc[k] = p.io_buf
<1> DEFINE D == Performed(r, B)
           at == TocStart + k
<1>1. r.at = at /\ r.len = 1 BY DEF Rq
<1>2. at \in Nat /\ at > 0 BY SlotBlock
<1>3. B = {} \/ B = {at}
  <2> HIDE DEF at
  <2>1. QED BY <1>1, <1>2, OneBlock
<1>4. Blocks(r) = {at}
  <2> HIDE DEF at
  <2>1. Blocks(r) = at .. at + 1 - 1 BY <1>1 DEF Blocks
  <2>2. QED BY <1>2, <2>1
<1>5. /\ D \in Disks
      /\ D.hdr = IF 0 \notin B THEN disk.hdr
                 ELSE IF r.op \in {"initHdr", "qfHdr", "claimHdr", "finHdr"}
                 THEN p.vol_buf ELSE NoHeader
      /\ \A g \in Slots :
            D.toc[g] = IF TocStart + g \notin B THEN disk.toc[g]
                       ELSE IF TocStart + g = r.at THEN p.io_buf
                       ELSE FreeEntry
  BY PerformedIs
<1> HIDE DEF D
<1>6. 0 \notin B BY <1>2, <1>3
<1>7. \A g \in Slots : g # k => TocStart + g \notin B
  <2>1. \A g \in Slots : g # k => TocStart + g # at BY Geometry DEF at
  <2>2. QED BY <1>3, <2>1
<1>8. QED BY <1>1, <1>3, <1>4, <1>5, <1>6, <1>7 DEF D, at

\* A zero-fill write, all of it or part of it.
LEMMA Zeroed ==
    ASSUME disk \in Disks, p \in Process, NEW r, NEW op, NEW n \in Nat,
           r = Rq(op, p.init_cur_block, n), TocStart <= p.init_cur_block,
           p.io_buf = FreeEntry, Cleared(disk, p.init_cur_block),
           NEW B \in SUBSET Blocks(r)
    PROVE  LET D == Performed(r, B)
           IN  /\ D \in Disks /\ D.hdr = disk.hdr
               /\ \A g \in Slots : D.toc[g] = disk.toc[g]
                                   \/ ~Visible(D.toc[g])
               /\ B = Blocks(r) => Cleared(D, p.init_cur_block + n)
<1> DEFINE D == Performed(r, B)
           c == p.init_cur_block
<1>1. r.at = c /\ r.len = n /\ c \in Nat /\ c >= 1 BY Geometry DEF Rq, Process
<1>2. Blocks(r) = c .. c + n - 1 BY <1>1 DEF Blocks
<1>3. 0 \notin B BY <1>1, <1>2
<1>4. /\ D \in Disks /\ D.hdr = disk.hdr
      /\ \A g \in Slots : D.toc[g] = IF TocStart + g \notin B THEN disk.toc[g]
                                     ELSE FreeEntry
  BY <1>3, PerformedIs
<1>5. ~Visible(FreeEntry) BY Plain
<1> HIDE DEF D, c
<1>6. ASSUME B = Blocks(r) PROVE Cleared(D, c + n)
  <2>1. ASSUME NEW g \in Slots, TocStart + g < c + n PROVE ~Visible(D.toc[g])
    <3>1. TocStart + g \in Nat BY SlotBlock, Geometry
    <3>2. CASE TocStart + g < c
      <4>1. ~Visible(disk.toc[g]) BY <3>2 DEF Cleared, c
      <4>2. QED BY <1>4, <1>5, <4>1
    <3>3. CASE ~(TocStart + g < c)
      <4>1. TocStart + g \in B BY <1>1, <1>2, <1>6, <2>1, <3>1, <3>3
      <4>2. QED BY <1>4, <1>5, <4>1
    <3>4. QED BY <3>2, <3>3
  <2>2. QED BY <2>1 DEF Cleared
<1>7. QED BY <1>4, <1>5, <1>6 DEF D, c

LEMMA HeaderWriteSafe ==
    ASSUME VolumeInv, NEW r \in p.io,
           r.op \in {"initHdr", "qfHdr", "claimHdr", "finHdr"},
           NEW B \in SUBSET Blocks(r)
    PROVE  Safe(disk, Performed(r, B), load)
<1> DEFINE D == Performed(r, B)
<1>1. disk \in Disks /\ p \in Process /\ load \in Loads
      /\ Consistent(disk, load) /\ p.segment_id \in Slots
  BY DEF VolumeInv, Sound, Process
<1>2. r = Rq(r.op, 0, 1) BY Stage
<1>3. D \in Disks /\ D.toc = disk.toc
      /\ (D.hdr = disk.hdr \/ D.hdr = p.vol_buf)
  BY <1>1, <1>2, HeaderWritten
<1> HIDE DEF D
<1>4. CASE D.hdr = disk.hdr
  <2>1. \A g \in Slots : D.toc[g] = disk.toc[g] BY <1>3
  <2>2. QED BY <1>1, <1>3, <1>4, <2>1, ThinnerSafe DEF D
<1>5. CASE r.op \in {"initHdr", "qfHdr"} /\ D.hdr = p.vol_buf
  <2>1. p.vol_buf = FreshHeader(load.formats) /\ Cleared(disk, DataStart)
    BY <1>5, Stage DEF Renews
  <2>2. load.formats \in Nat BY <1>1 DEF Loads
  <2>3. \A g \in Slots : ~Visible(D.toc[g])
    BY <1>3, <2>1, SlotBlock DEF Cleared
  <2>4. QED BY <1>1, <1>3, <1>5, <2>1, <2>2, <2>3, EmptySafe DEF D
<1>6. CASE r.op = "claimHdr" /\ D.hdr = p.vol_buf
  <2>1. D.hdr = p.vol /\ HeaderDue(p, disk, load) BY <1>6, Stage
  <2>2. Mounted(p, disk) /\ Claimed(p, disk, load)
    BY <2>1 DEF HeaderDue, Claimed
  <2>3. D.hdr.next_segment_id <= SegmentSlots
    BY <1>1, <2>1, Geometry DEF HeaderDue
  <2>4. ~load.header_lost => \A g \in Slots : Fin(disk, g) =>
           End(disk.toc[g]) <= D.hdr.next_data_block
    BY <1>1, <2>1, <2>2 DEF Consistent, Apart, Mounted, Claimed
  <2>5. QED
    BY <1>1, <1>3, <2>1, <2>2, <2>3, <2>4, HeaderSafe DEF Mounted, D
<1>7. CASE r.op = "finHdr" /\ D.hdr = p.vol_buf
  <2>1. D.hdr = p.vol /\ Stopping(p, disk, load) BY <1>7, Stage
  <2>2. Mounted(p, disk) /\ Open(p, disk, load)
        /\ p.vol.next_segment_id = p.segment_id + 1
        /\ p.vol.next_data_block = p.next_write_block
    BY <2>1 DEF Stopping, Session
  <2>3. D.hdr.next_segment_id <= SegmentSlots
    BY <1>1, <2>1, <2>2, Geometry
  <2>4. ASSUME ~load.header_lost, NEW g \in Slots, Fin(disk, g)
        PROVE  End(disk.toc[g]) <= D.hdr.next_data_block
    <3>1. End(disk.toc[g]) <= p.segment_start_block
          /\ p.segment_start_block <= p.next_write_block
      BY <2>2, <2>4 DEF Open, Before
    <3>2. disk.toc[g] \in Entry BY <1>1 DEF Disks
    <3>3. disk.toc[g].start_block \in Int /\ disk.toc[g].block_count \in Int
      BY <3>2 DEF Entry
    <3>4. End(disk.toc[g]) \in Int BY <3>3 DEF End
    <3>5. p.segment_start_block \in Nat /\ p.next_write_block \in Nat
      BY <1>1 DEF Process
    <3>6. QED BY <2>1, <2>2, <3>1, <3>4, <3>5
  <2>5. QED
    BY <1>1, <1>3, <2>1, <2>2, <2>3, <2>4, HeaderSafe DEF Mounted, D
<1>8. QED BY <1>3, <1>4, <1>5, <1>6, <1>7 DEF D

LEMMA EntryWriteSafe ==
    ASSUME VolumeInv, NEW r \in p.io, r.op \in {"claimToc", "finToc", "repair"},
           NEW B \in SUBSET Blocks(r)
    PROVE  Safe(disk, Performed(r, B), load)
<1> DEFINE D == Performed(r, B)
           k == IF r.op = "repair" THEN p.dump_segment_id ELSE p.segment_id
<1>1. disk \in Disks /\ p \in Process /\ load \in Loads
      /\ Consistent(disk, load)
  BY DEF VolumeInv, Sound
<1>2. k \in Slots BY <1>1 DEF Process
<1>3. r = Rq(r.op, TocStart + k, 1) BY Stage
<1> HIDE DEF k
<1>4. /\ D \in Disks /\ D.hdr = disk.hdr
      /\ \A g \in Slots : g # k => D.toc[g] = disk.toc[g]
      /\ (D.toc[k] = disk.toc[k] \/ D.toc[k] = p.io_buf)
  BY <1>1, <1>2, <1>3, EntryWritten
<1> HIDE DEF D
<1>5. CASE D.toc[k] = disk.toc[k]
  <2>1. \A g \in Slots : D.toc[g] = disk.toc[g] BY <1>4, <1>5
  <2>2. QED BY <1>1, <1>4, <2>1, ThinnerSafe DEF D
<1>6. CASE r.op = "claimToc" /\ D.toc[k] = p.io_buf
  <2>1. EntryDue(p, disk, load) /\ k = p.segment_id
        /\ p.io_buf.state = "OPEN" /\ p.io_buf.era = p.vol.era
    BY <1>6, Stage DEF k
  <2>2. Mounted(p, disk) /\ p.segment_id = p.vol.next_segment_id
        /\ (load.faults = 0 => p.vol.next_segment_id = disk.hdr.next_segment_id)
    BY <2>1 DEF EntryDue, Claimed
  <2>3. /\ Accepted(disk.hdr) /\ disk.hdr.next_segment_id <= k
        /\ D.toc[k].state = "OPEN" /\ D.toc[k].era = disk.hdr.era
    BY <1>6, <2>1, <2>2 DEF Mounted
  <2>4. load.faults = 0 => k <= disk.hdr.next_segment_id
    BY <1>1, <2>1, <2>2 DEF Disks, Header
  <2>5. QED BY <1>1, <1>2, <1>4, <2>3, <2>4, ClaimedSafe DEF D
<1>7. CASE r.op = "finToc" /\ D.toc[k] = p.io_buf
  <2>1. Stopping(p, disk, load) /\ InStep(p, disk, load) /\ k = p.segment_id
        /\ p.io_buf = Entered(p)
    BY <1>7, Stage DEF k
  <2>2. Mounted(p, disk) /\ Open(p, disk, load)
        /\ disk.hdr.next_segment_id = p.segment_id + 1
        /\ p.vol.next_data_block = p.next_write_block
    BY <2>1 DEF Stopping, Session
  <2>3. /\ D.toc[k].segment_id = k /\ D.toc[k].era = p.vol.era
        /\ D.toc[k].start_block = p.segment_start_block
        /\ D.toc[k].block_count = p.next_write_block - p.segment_start_block
    BY <1>1, <1>7, <2>1, EnteredTyped
  <2>4. p.segment_start_block \in Nat /\ p.next_write_block \in Nat
        /\ k \in Nat
    BY <1>1, <1>2, Geometry DEF Process
  <2>5. End(D.toc[k]) = p.next_write_block BY <2>3, <2>4 DEF End
  <2>6. /\ Accepted(disk.hdr) /\ k < disk.hdr.next_segment_id
        /\ D.toc[k].era = disk.hdr.era /\ D.toc[k].start_block >= DataStart
    BY <2>1, <2>2, <2>3, <2>4 DEF Mounted, Open
  <2>7. ~load.header_lost => End(D.toc[k]) <= disk.hdr.next_data_block
    BY <2>1, <2>2, <2>4, <2>5 DEF InStep
  <2>8. \A g \in Slots : Fin(disk, g) =>
           /\ g < k
           /\ ~load.header_lost => End(disk.toc[g]) <= D.toc[k].start_block
    BY <2>1, <2>2, <2>3 DEF Open, Before
  <2>9. QED
    BY <1>1, <1>2, <1>4, <2>3, <2>6, <2>7, <2>8, FinalizedSafe DEF D
<1>8. CASE r.op = "repair" /\ D.toc[k] = p.io_buf
  <2>1. /\ k = p.dump_segment_id /\ Fin(disk, k)
        /\ p.io_buf = [disk.toc[k] EXCEPT !.chunk = p.io_buf.chunk]
    BY <1>8, Stage DEF k
  <2> DEFINE z == p.io_buf.chunk
  <2>2. D.toc[k] = [disk.toc[k] EXCEPT !.chunk = z] BY <1>8, <2>1
  <2> HIDE DEF z
  <2>3. QED BY <1>1, <1>2, <1>4, <2>1, <2>2, RepairedSafe DEF D
<1>9. QED BY <1>4, <1>5, <1>6, <1>7, <1>8 DEF D

LEMMA ZeroWriteSafe ==
    ASSUME VolumeInv, NEW r \in p.io, r.op \in {"zero", "qfZero"},
           NEW B \in SUBSET Blocks(r)
    PROVE  LET D == Performed(r, B)
               n == Min({ZeroBlocks, DataStart - p.init_cur_block})
           IN  /\ Safe(disk, D, load) /\ D.hdr = disk.hdr
               /\ n \in Nat /\ p.init_cur_block + n <= DataStart
               /\ B = Blocks(r) => Cleared(D, p.init_cur_block + n)
<1> DEFINE D == Performed(r, B)
           n == Min({ZeroBlocks, DataStart - p.init_cur_block})
<1>1. disk \in Disks /\ p \in Process /\ load \in Loads
      /\ Consistent(disk, load) /\ p.init_cur_block \in Nat
  BY DEF VolumeInv, Sound, Process
<1>2. Zeroing(p, r.op) /\ p.io_buf = FreeEntry /\ p.io = {r}
      /\ Cleared(disk, p.init_cur_block)
  BY Stage
<1>3. TocStart <= p.init_cur_block /\ p.init_cur_block < DataStart
      /\ r = Rq(r.op, p.init_cur_block, n)
  BY <1>2 DEF Zeroing
<1>4. n \in Nat /\ n <= DataStart - p.init_cur_block
  BY <1>1, <1>3, ZeroLength
<1>5. p.init_cur_block + n <= DataStart BY <1>1, <1>4, Geometry
<1> HIDE DEF n
<1>6. /\ D \in Disks /\ D.hdr = disk.hdr
      /\ \A g \in Slots : D.toc[g] = disk.toc[g] \/ ~Visible(D.toc[g])
      /\ B = Blocks(r) => Cleared(D, p.init_cur_block + n)
  BY <1>1, <1>2, <1>3, <1>4, Zeroed
<1> HIDE DEF D
<1>7. Safe(disk, D, load) BY <1>1, <1>6, ThinnerSafe
<1>8. QED BY <1>4, <1>5, <1>6, <1>7 DEF D, n

LEMMA WriteSafe ==
    ASSUME VolumeInv, NEW r \in p.io, r.op \in Writes,
           NEW B \in SUBSET Blocks(r)
    PROVE  Safe(disk, Performed(r, B), load)
<1>1. \/ r.op \in {"zero", "qfZero"}
      \/ r.op \in {"initHdr", "qfHdr", "claimHdr", "finHdr"}
      \/ r.op \in {"claimToc", "finToc", "repair"}
  BY DEF Writes
<1>2. QED BY <1>1, ZeroWriteSafe, HeaderWriteSafe, EntryWriteSafe

-----------------------------------------------------------------------------
(* An I/O succeeds *)

LEMMA FilledIs ==
    ASSUME VolumeInv, NEW r \in p.io
    PROVE  LET s == Filled(r)
           IN  /\ s \in Process /\ s.io = {} /\ s.up /\ s.said = "none"
               /\ Footing(p, s) /\ Same(p, s)
               /\ s.dump_segment_id = p.dump_segment_id
               /\ s.buf_size = p.buf_size /\ s.record_count = p.record_count
               /\ s.staged = p.staged /\ s.init_cur_block = p.init_cur_block
               /\ s.shutting_down = p.shutting_down
               /\ s.cursor = p.cursor /\ s.listed = p.listed
               /\ r.op \in {"check", "header"} => s.vol_buf = disk.hdr
               /\ r.op \notin {"check", "header"} => s.vol_buf = p.vol_buf
               /\ r.op \in {"list", "entry", "pageEntry"} =>
                     s.io_buf = disk.toc[r.at - TocStart]
               /\ r.op \notin {"list", "entry", "pageEntry"} =>
                     s.io_buf = p.io_buf
<1> DEFINE x == IF r.op \in {"check", "header"} THEN disk.hdr ELSE p.vol_buf
           y == IF r.op \in {"list", "entry", "pageEntry"}
                THEN disk.toc[r.at - TocStart] ELSE p.io_buf
           s == Filled(r)
<1>1. p \in Process /\ disk \in Disks /\ load \in Loads
      /\ Consistent(disk, load)
  BY DEF VolumeInv, Sound
<1>2. p.up /\ p.io = {r} /\ p.said = "none" BY Stage
<1>3. x \in Header BY <1>1 DEF Disks, Process
<1>4. y \in Entry
  <2>1. r.op = "list" => Len(p.listed) \in Slots /\ r.at = TocStart + Len(p.listed)
    <3>1. SUFFICES ASSUME r.op = "list"
                   PROVE  Len(p.listed) \in Slots
                          /\ r.at = TocStart + Len(p.listed)
      OBVIOUS
    <3>2. /\ r = Rq("list", TocStart + Len(p.listed), 1)
          /\ Len(p.listed) < p.vol.next_segment_id /\ p.vol = disk.hdr
          /\ Accepted(disk.hdr)
      BY <3>1, Stage
    <3>0. p.listed \in Seq(Entry) BY <1>1 DEF Process
    <3>3. p.vol.next_segment_id <= SegmentSlots /\ Len(p.listed) \in Nat
          /\ p.vol.next_segment_id \in Nat
      BY <1>1, <3>0, <3>2, LenProperties DEF Consistent, Process, Header
    <3>4. QED BY <3>2, <3>3, Geometry DEF Rq
  <2>2. r.op = "entry" => p.dump_segment_id \in Slots
                          /\ r.at = TocStart + p.dump_segment_id
    BY <1>1, Stage DEF Rq, Process
  <2>3. r.op = "pageEntry" => \E g \in Slots : r.at = TocStart + g
    BY Stage DEF Rq
  <2>4. \A g \in Slots : (TocStart + g) - TocStart = g BY Geometry
  <2>5. r.op \in {"list", "entry", "pageEntry"} => r.at - TocStart \in Slots
    BY <2>1, <2>2, <2>3, <2>4
  <2>6. disk.toc \in [Slots -> Entry] /\ p.io_buf \in Entry
    BY <1>1 DEF Disks, Process
  <2>7. QED BY <2>5, <2>6
<1>5. s = [p EXCEPT !.io = {}, !.vol_buf = x, !.io_buf = y]
  <2>1. p.io \ {r} = {} BY <1>2
  <2>2. QED BY <1>1, <2>1 DEF Filled, Process
<1> HIDE DEF x, y, s
<1>6. /\ s \in Process /\ s.io = {} /\ s.up /\ s.said = "none"
      /\ Footing(p, s) /\ Same(p, s)
      /\ s.dump_segment_id = p.dump_segment_id
      /\ s.buf_size = p.buf_size /\ s.record_count = p.record_count
      /\ s.staged = p.staged /\ s.init_cur_block = p.init_cur_block
      /\ s.shutting_down = p.shutting_down
      /\ s.cursor = p.cursor /\ s.listed = p.listed
      /\ s.vol_buf = x /\ s.io_buf = y
  BY <1>1, <1>2, <1>3, <1>4, <1>5 DEF Process, Footing, Same
<1>7. /\ r.op \in {"check", "header"} => s.vol_buf = disk.hdr
      /\ r.op \notin {"check", "header"} => s.vol_buf = p.vol_buf
  BY <1>6 DEF x
<1>8. /\ r.op \in {"list", "entry", "pageEntry"} =>
            s.io_buf = disk.toc[r.at - TocStart]
      /\ r.op \notin {"list", "entry", "pageEntry"} => s.io_buf = p.io_buf
  BY <1>6 DEF y
<1>9. QED BY <1>6, <1>7, <1>8 DEF s

LEMMA CheckDone ==
    ASSUME VolumeInv, NEW r \in p.io, r.op = "check", NEW l \in Loads,
           l.formats = load.formats + 1, l.faults = load.faults,
           l.header_lost = load.header_lost
    PROVE  Good(InitChecked(Filled(r), l.formats), disk, l)
<1> DEFINE s == Filled(r)
           v == FreshHeader(l.formats)
           t == [s EXCEPT !.vol = v, !.init_cur_block = TocStart]
           u == InitChecked(s, l.formats)
<1>1. /\ p.mode \in {"init", "force"} /\ ~p.recording /\ p.io_buf = FreeEntry
  BY Stage
<1>2. /\ s \in Process /\ s.io = {} /\ s.up /\ s.said = "none"
      /\ s.mode = p.mode /\ ~s.recording /\ s.io_buf = FreeEntry
  BY <1>1, FilledIs DEF Footing
<1>3. Safe(disk, disk, l)
  <2>1. disk \in Disks /\ Consistent(disk, load) BY DEF VolumeInv
  <2>2. Safe(disk, disk, load) BY <2>1, SameSafe
  <2>3. QED BY <2>2 DEF Safe, Consistent
<1> HIDE DEF s
<1>4. CASE Refused(s.vol_buf) /\ s.mode # "force"
  <2>1. u = Exit(s, "fail") BY <1>4 DEF InitChecked
  <2> HIDE DEF u
  <2>2. Sound(u, disk, l) /\ u.rc = "fail" BY <1>2, <2>1, ExitSound
  <2>3. Succeeded(u, disk, l) BY <2>2 DEF Succeeded
  <2>4. QED BY <1>3, <2>2, <2>3 DEF Good, u, s
<1>5. CASE ~(Refused(s.vol_buf) /\ s.mode # "force")
  <2>1. u = InitZero(t) BY <1>5 DEF InitChecked
  <2>2. v \in Header BY Fresh DEF Loads
  <2>3. TocStart \in Nat /\ TocStart <= DataStart /\ TocStart <= TocStart
    BY Geometry
  <2> HIDE DEF v
  <2>4. /\ t \in Process /\ t.io = {} /\ t.up /\ t.said = "none"
        /\ t.mode \in {"init", "force"} /\ ~t.recording
        /\ t.io_buf = FreeEntry /\ t.vol = v /\ t.init_cur_block = TocStart
    BY <1>1, <1>2, <2>2, <2>3 DEF Process
  <2> HIDE DEF t, u
  <2>5. Cleared(disk, t.init_cur_block) BY <2>4, Geometry DEF Cleared
  <2>6. Sound(u, disk, l) /\ u.said = "none" /\ u.up
    BY <2>1, <2>3, <2>4, <2>5, InitZeroSound DEF v
  <2>7. Succeeded(u, disk, l) BY <2>6 DEF Succeeded
  <2>8. QED BY <1>3, <2>6, <2>7 DEF Good, u, s
<1>6. QED BY <1>4, <1>5

\* A write has been performed, and what it wrote is safe.
LEMMA Done ==
    ASSUME VolumeInv, NEW r \in p.io, r.op \in Writes
    PROVE  Safe(disk, Performed(r, Blocks(r)), load)
  BY WriteSafe

LEMMA ZeroDone ==
    ASSUME VolumeInv, NEW r \in p.io, r.op = "zero"
    PROVE  LET D == Performed(r, Blocks(r))
           IN  Good(InitZeroed(Filled(r)), D, load)
<1> DEFINE D == Performed(r, Blocks(r))
           s == Filled(r)
           c == p.init_cur_block
           n == Min({ZeroBlocks, DataStart - c})
           m == c + n
           t == [s EXCEPT !.init_cur_block = m]
           u == InitZeroed(s)
<1>1. /\ p.mode \in {"init", "force"} /\ ~p.recording /\ p.io_buf = FreeEntry
      /\ p.vol = FreshHeader(load.formats) /\ Zeroing(p, "zero")
  BY Stage
<1>2. /\ s \in Process /\ s.io = {} /\ s.up /\ s.said = "none"
      /\ s.mode = p.mode /\ ~s.recording /\ s.io_buf = FreeEntry
      /\ s.vol = FreshHeader(load.formats) /\ s.init_cur_block = c
  BY <1>1, FilledIs DEF Footing
<1>3. /\ Safe(disk, D, load) /\ n \in Nat /\ m <= DataStart /\ Cleared(D, m)
  BY ZeroWriteSafe
<1>4. c \in Nat /\ TocStart <= c /\ load \in Loads
  BY <1>1 DEF Zeroing, VolumeInv, Sound, Process
<1>5. u = InitZero(t)
  <2>1. s.init_cur_block + Min({ZeroBlocks, DataStart - s.init_cur_block}) = m
    BY <1>2
  <2>2. QED BY <1>2, <2>1 DEF InitZeroed, Process
<1>6. m \in Nat /\ TocStart <= m BY <1>3, <1>4, Geometry
<1> HIDE DEF m, s, D
<1>7. /\ t \in Process /\ t.io = {} /\ t.up /\ t.said = "none"
      /\ t.mode \in {"init", "force"} /\ ~t.recording /\ t.io_buf = FreeEntry
      /\ t.vol = FreshHeader(load.formats) /\ t.init_cur_block = m
  BY <1>1, <1>2, <1>6 DEF Process
<1> HIDE DEF t, u
<1>8. Sound(u, D, load) /\ u.said = "none" /\ u.up
  BY <1>3, <1>4, <1>5, <1>6, <1>7, InitZeroSound
<1>9. Succeeded(u, D, load) BY <1>8 DEF Succeeded
<1>10. QED BY <1>3, <1>8, <1>9 DEF Good, u, s, D

LEMMA InitHeaderDone ==
    ASSUME VolumeInv, NEW r \in p.io, r.op = "initHdr"
    PROVE  LET D == Performed(r, Blocks(r))
           IN  Good(Exit(Filled(r), "ok"), D, load)
<1> DEFINE D == Performed(r, Blocks(r))
           s == Filled(r)
           u == Exit(s, "ok")
<1>1. /\ r = Rq("initHdr", 0, 1) /\ p.vol_buf = FreshHeader(load.formats)
      /\ Cleared(disk, DataStart)
  BY Stage
<1>2. s \in Process BY FilledIs
<1>3. disk \in Disks /\ p \in Process BY DEF VolumeInv, Sound
<1>4. D.toc = disk.toc /\ D.hdr = p.vol_buf BY <1>1, <1>3, HeaderWritten
<1>5. Safe(disk, D, load) BY Done DEF Writes
<1> HIDE DEF s, D
<1>6. Sound(u, D, load) BY <1>2, ExitSound
<1>7. Cleared(D, DataStart) BY <1>1, <1>4 DEF Cleared
<1>8. Succeeded(u, D, load) BY <1>1, <1>4, <1>7 DEF Succeeded
<1> HIDE DEF u
<1>9. QED BY <1>5, <1>6, <1>8 DEF Good, u, s, D

LEMMA HeaderDone ==
    ASSUME VolumeInv, NEW r \in p.io, r.op = "header"
    PROVE  Good(HeaderRead(Filled(r)), disk, load)
<1> DEFINE s == Filled(r)
           t == [s EXCEPT !.vol = s.vol_buf]
           u == HeaderRead(s)
<1>1. /\ p.mode \notin {"init", "force"} /\ ~p.recording /\ ~p.stopping
      /\ p.request = "none"
  BY Stage DEF Opening
<1>2. /\ s \in Process /\ s.io = {} /\ s.up /\ s.said = "none"
      /\ s.mode = p.mode /\ ~s.recording /\ ~s.stopping
      /\ s.request = "none" /\ s.vol_buf = disk.hdr
      /\ s.mode \in Modes /\ s.mode \notin {"init", "force"}
  BY <1>1, FilledIs DEF Footing, Same, Process
<1>3. disk \in Disks /\ Consistent(disk, load) /\ Safe(disk, disk, load)
  BY SameSafe DEF VolumeInv
<1> HIDE DEF s
<1>4. CASE ~Accepted(s.vol_buf)
  <2>1. u = Exit(s, "fail") BY <1>4 DEF HeaderRead
  <2> HIDE DEF u
  <2>2. Sound(u, disk, load) /\ u.rc = "fail" BY <1>2, <2>1, ExitSound
  <2>3. Succeeded(u, disk, load) BY <2>2 DEF Succeeded
  <2>4. QED BY <1>3, <2>2, <2>3 DEF Good, u, s
<1>5. CASE Accepted(s.vol_buf)
  <2>1. /\ t \in Process /\ t.io = {} /\ t.up /\ t.said = "none"
        /\ t.mode = s.mode /\ ~t.recording /\ ~t.stopping
        /\ t.request = "none" /\ t.vol = disk.hdr
        /\ t.dump_segment_id = s.dump_segment_id /\ Same(s, t)
    BY <1>2, <1>3 DEF Process, Disks, Same
  <2>2. u = CASE s.mode = "serve"   -> t
              [] s.mode = "capture" -> ClaimSegmentStart(t)
              [] s.mode = "list"    -> ListNext(t)
              [] s.mode \in {"dump", "repair"} ->
                   Submit(t, "entry", t.vol.toc_start + t.dump_segment_id, 1)
    BY <1>5 DEF HeaderRead
  <2>3. /\ Accepted(disk.hdr) /\ disk.hdr.toc_start = TocStart
        /\ disk.hdr.next_data_block >= DataStart
        /\ disk.hdr.next_segment_id \in Nat
    BY <1>2, <1>3, <1>5 DEF Consistent, Disks, Header
  <2> HIDE DEF t, u
  <2>4. Mounted(t, disk) /\ InStep(t, disk, load)
    BY <2>1, <2>3 DEF Mounted, InStep
  <2>5. Sound(u, disk, load) /\ Voice(s, u)
    <3>1. CASE s.mode = "serve"
      <4>1. u = t BY <2>2, <3>1
      <4>2. Resting(t, disk, load) BY <2>1, <2>4, <3>1 DEF Resting
      <4>3. Phase(t, disk, load) /\ Mute(t) BY <2>1, <4>2 DEF Phase, Mute
      <4>4. QED BY <2>1, <4>1, <4>3, <1>2 DEF Sound, Voice
    <3>2. CASE s.mode = "capture"
      <4>1. u = ClaimSegmentStart(t) BY <2>2, <3>2
      <4>2. MayClaim(t, disk, load)
        BY <2>1, <2>4, <3>2 DEF MayClaim, Recorder
      <4>3. Sound(u, disk, load) /\ Voice(t, u)
        BY <2>1, <4>1, <4>2, ClaimSegmentStartSound
      <4>4. QED BY <2>1, <4>3 DEF Voice, Same
    <3>3. CASE s.mode = "list"
      <4>1. u = ListNext(t) BY <2>2, <3>3
      <4>2. Sound(u, disk, load) /\ Voice(t, u)
        BY <1>3, <2>1, <2>3, <3>3, <4>1, ListNextSound
      <4>3. QED BY <2>1, <4>2 DEF Voice, Same
    <3>4. CASE s.mode \in {"dump", "repair"}
      <4> DEFINE at == TocStart + t.dump_segment_id
      <4>1. u = Submit(t, "entry", at, 1) BY <2>1, <2>2, <2>3, <3>4
      <4>2. t.dump_segment_id \in Slots BY <2>1 DEF Process
      <4>3. at \in 0 .. NumBlocks - 1 BY <4>2, SlotBlock
      <4>4. "entry" \in Reads \cup Writes /\ 1 \in Nat BY DEF Reads
      <4> HIDE DEF at
      <4>5. u = [t EXCEPT !.io = {Rq("entry", at, 1)}] /\ u \in Process
        BY <2>1, <4>1, <4>3, <4>4, SubmitIs
      <4>6. /\ u.up /\ u.mode = s.mode /\ ~u.recording /\ u.vol = t.vol
            /\ u.said = "none" /\ u.dump_segment_id = t.dump_segment_id
            /\ u.request = "none"
            /\ u.io = {Rq("entry", at, 1)}
        BY <2>1, <4>5 DEF Process
      <4>7. Reading(u, disk)
        BY <2>1, <2>3, <3>4, <4>6 DEF Reading, at
      <4>8. Phase(u, disk, load) /\ Mute(u) BY <4>6, <4>7 DEF Phase, Mute
      <4>9. QED BY <4>5, <4>6, <4>8 DEF Sound, Voice
    <3>5. QED BY <1>2, <3>1, <3>2, <3>3, <3>4 DEF Modes
  <2>6. Succeeded(u, disk, load) BY <1>2, <2>5, Quiet
  <2>7. QED BY <1>3, <2>5, <2>6 DEF Good, u, s
<1>6. QED BY <1>4, <1>5

LEMMA QuickFormatZeroDone ==
    ASSUME VolumeInv, NEW r \in p.io, r.op = "qfZero"
    PROVE  LET D == Performed(r, Blocks(r))
           IN  Good(QuickFormatZeroed(Filled(r)), D, load)
<1> DEFINE D == Performed(r, Blocks(r))
           s == Filled(r)
           c == p.init_cur_block
           n == Min({ZeroBlocks, DataStart - c})
           m == c + n
           t == [s EXCEPT !.init_cur_block = m]
           u == QuickFormatZeroed(s)
<1>1. Renews(p, disk, load) /\ Zeroing(p, "qfZero") BY Stage
<1>2. /\ s \in Process /\ s.io = {} /\ s.up /\ s.said = "none"
      /\ Footing(p, s) /\ s.request = "format" /\ s.mode = "serve"
      /\ s.staged = FreshHeader(load.formats) /\ s.init_cur_block = c
  BY <1>1, FilledIs DEF Renews, Same, Resting
<1>3. /\ Safe(disk, D, load) /\ n \in Nat /\ m <= DataStart /\ Cleared(D, m)
      /\ D.hdr = disk.hdr
  BY ZeroWriteSafe
<1>4. c \in Nat /\ TocStart <= c /\ load \in Loads
  BY <1>1 DEF Zeroing, VolumeInv, Sound, Process
<1>5. u = QuickFormatZero(t)
  <2>1. s.init_cur_block + Min({ZeroBlocks, DataStart - s.init_cur_block}) = m
    BY <1>2
  <2>2. QED BY <1>2, <2>1 DEF QuickFormatZeroed, Process
<1>6. m \in Nat /\ TocStart <= m BY <1>3, <1>4, Geometry
<1> HIDE DEF m, s, D
<1>7. /\ t \in Process /\ t.io = {} /\ t.up /\ t.said = "none"
      /\ Footing(p, t) /\ t.request = "format"
      /\ t.staged = FreshHeader(load.formats) /\ t.init_cur_block = m
  BY <1>2, <1>6 DEF Process, Footing
<1> HIDE DEF t, u
<1>8. Resting(p, disk, load) /\ p.mode = "serve" BY <1>1 DEF Renews, Resting
<1>9. Resting(t, D, load)
  <2>1. Resting(t, disk, load) BY <1>7, <1>8, FootingRests
  <2>2. QED BY <1>3, <2>1 DEF Resting, Mounted, InStep
<1>10. Sound(u, D, load) /\ u.said = "none" /\ u.up
  BY <1>3, <1>4, <1>5, <1>6, <1>7, <1>9, QuickFormatZeroSound
<1>11. Succeeded(u, D, load) BY <1>10 DEF Succeeded
<1>12. QED BY <1>3, <1>10, <1>11 DEF Good, u, s, D

LEMMA QuickFormatHeaderDone ==
    ASSUME VolumeInv, NEW r \in p.io, r.op = "qfHdr"
    PROVE  LET D == Performed(r, Blocks(r))
           IN  Good(QuickFormatDone(Filled(r)), D, load)
<1> DEFINE D == Performed(r, Blocks(r))
           s == Filled(r)
           t == [s EXCEPT !.vol = s.staged, !.next_write_block = DataStart,
                          !.record_count = 0]
           u == QuickFormatDone(s)
<1>1. /\ Renews(p, disk, load) /\ r = Rq("qfHdr", 0, 1)
      /\ p.vol_buf = p.staged /\ Cleared(disk, DataStart)
  BY Stage
<1>2. /\ s \in Process /\ s.io = {} /\ s.up /\ s.said = "none"
      /\ ~s.recording /\ s.mode = "serve" /\ s.request = "format"
      /\ s.staged = FreshHeader(load.formats)
  BY <1>1, FilledIs DEF Renews, Same, Resting, Footing
<1>3. disk \in Disks /\ p \in Process /\ load.formats \in Nat
  BY DEF VolumeInv, Sound, Loads
<1>4. D.toc = disk.toc /\ D.hdr = FreshHeader(load.formats)
  BY <1>1, <1>3, HeaderWritten DEF Renews
<1>5. Safe(disk, D, load) BY Done DEF Writes
<1> DEFINE v == FreshHeader(load.formats)
<1>6. /\ v \in Header /\ Accepted(v) /\ v.toc_start = TocStart
      /\ v.next_segment_id = 0 /\ v.next_data_block = DataStart
      /\ DataStart \in Nat
  BY <1>3, Fresh, Geometry
<1>7. u = Fulfill(t, "ok") BY DEF QuickFormatDone
<1> HIDE DEF s, D, v
<1>8. /\ t \in Process /\ t.io = {} /\ t.up /\ ~t.recording
      /\ t.mode = "serve" /\ t.vol = v
  BY <1>2, <1>6 DEF Process, v
<1> HIDE DEF t, u
<1>9. Resting(t, D, load)
  <2>1. Mounted(t, D) /\ InStep(t, D, load)
    BY <1>4, <1>6, <1>8 DEF Mounted, InStep, v
  <2>2. QED BY <1>8, <2>1 DEF Resting
<1>10. Sound(u, D, load) BY <1>7, <1>8, <1>9, FulfillSound DEF AtRest
<1>11. Cleared(D, DataStart) BY <1>1, <1>4 DEF Cleared
<1>12. Succeeded(u, D, load) BY <1>4, <1>11 DEF Succeeded
<1>13. QED BY <1>5, <1>10, <1>12 DEF Good, u, s, D

LEMMA ClaimEntryDone ==
    ASSUME VolumeInv, NEW r \in p.io, r.op = "claimToc"
    PROVE  LET D == Performed(r, Blocks(r))
           IN  Good(ClaimTocDone(Filled(r)), D, load)
<1> DEFINE D == Performed(r, Blocks(r))
           s == Filled(r)
           u == ClaimTocDone(s)
<1>1. EntryDue(p, disk, load) /\ r = Rq("claimToc", TocStart + p.segment_id, 1)
  BY Stage
<1>2. /\ s \in Process /\ s.io = {} /\ s.up /\ s.said = "none"
      /\ Footing(p, s) /\ Same(p, s) /\ s.shutting_down = p.shutting_down
  BY FilledIs
<1>3. disk \in Disks /\ p \in Process /\ load \in Loads
      /\ p.segment_id \in Slots
  BY DEF VolumeInv, Sound, Process
<1>4. Safe(disk, D, load) /\ D \in Disks /\ D.hdr = disk.hdr
  <2>1. Safe(disk, D, load) BY Done DEF Writes
  <2>2. D.hdr = disk.hdr BY <1>1, <1>3, EntryWritten
  <2>3. QED BY <2>1, <2>2 DEF Safe
<1> HIDE DEF s, D
<1>5. EntryDue(s, D, load)
  BY <1>1, <1>2, <1>4
  DEF EntryDue, Claimed, Recorder, Mounted, Footing, Same
<1>6. Sound(u, D, load) /\ Voice(s, u)
  BY <1>2, <1>3, <1>4, <1>5, ClaimTocDoneSound
<1>7. s.mode \notin {"init", "force"} /\ s.request # "format"
  BY <1>5 DEF EntryDue, Claimed, Recorder
<1> HIDE DEF u
<1>8. Succeeded(u, D, load) BY <1>2, <1>6, <1>7, Quiet
<1>9. QED BY <1>4, <1>6, <1>8 DEF Good, u, s, D

LEMMA ClaimDone ==
    ASSUME VolumeInv, NEW r \in p.io, r.op = "claimHdr"
    PROVE  LET D == Performed(r, Blocks(r))
           IN  Good(ClaimHeaderDone(Filled(r)), D, load)
<1> DEFINE D == Performed(r, Blocks(r))
           s == Filled(r)
           u == ClaimHeaderDone(s)
<1>1. HeaderDue(p, disk, load) /\ p.vol_buf = p.vol /\ r = Rq("claimHdr", 0, 1)
  BY Stage
<1>2. /\ s \in Process /\ s.io = {} /\ s.up /\ s.said = "none"
      /\ Footing(p, s) /\ Same(p, s) /\ s.shutting_down = p.shutting_down
  BY FilledIs
<1>3. disk \in Disks /\ p \in Process /\ load \in Loads
      /\ Consistent(disk, load) /\ p.segment_id \in Slots
  BY DEF VolumeInv, Sound, Process
<1>4. Safe(disk, D, load) /\ D \in Disks /\ D.toc = disk.toc /\ D.hdr = p.vol
  <2>1. Safe(disk, D, load) BY Done DEF Writes
  <2>2. D.toc = disk.toc /\ D.hdr = p.vol BY <1>1, <1>3, HeaderWritten
  <2>3. QED BY <2>1, <2>2 DEF Safe
<1> HIDE DEF s, D
<1>5. Claimed(p, disk, load) /\ p.vol.next_segment_id = p.segment_id + 1
      /\ Mounted(p, disk) /\ disk.hdr.next_segment_id <= p.segment_id
  BY <1>1 DEF HeaderDue, Claimed
<1>6. Claimed(s, D, load)
  <2>1. Mounted(s, D)
    <3>1. p.vol.next_segment_id \in Nat BY <1>3 DEF Process, Header
    <3>2. QED BY <1>2, <1>4, <1>5, <3>1 DEF Mounted, Footing
  <2>2. QED
    BY <1>2, <1>4, <1>5, <2>1 DEF Claimed, Recorder, Footing, Same
<1>7. Before(s, D, load)
  <2>1. ASSUME NEW g \in Slots, Fin(D, g)
        PROVE  /\ g < s.segment_id
               /\ ~load.header_lost => End(D.toc[g]) <= s.segment_start_block
    <3>1. Fin(disk, g) /\ D.toc[g] = disk.toc[g] BY <1>4, <2>1 DEF Fin
    <3>2. g < disk.hdr.next_segment_id
          /\ (~load.header_lost => End(disk.toc[g]) <= disk.hdr.next_data_block)
      BY <1>3, <1>5, <3>1 DEF Consistent, Apart, Mounted
    <3>3. g \in Nat /\ disk.hdr.next_segment_id \in Nat /\ p.segment_id \in Nat
      BY <1>3, Geometry DEF Disks, Header
    <3>4. g < p.segment_id BY <1>5, <3>2, <3>3
    <3>5. ~load.header_lost => disk.hdr.next_data_block = p.segment_start_block
      BY <1>5 DEF Claimed
    <3>6. QED BY <1>2, <3>1, <3>2, <3>4, <3>5 DEF Footing
  <2>2. QED BY <2>1 DEF Before
<1>8. s.vol.next_segment_id = s.segment_id + 1 /\ D.hdr = s.vol
  BY <1>2, <1>4, <1>5 DEF Footing
<1>9. Sound(u, D, load) /\ Voice(s, u)
  BY <1>2, <1>3, <1>4, <1>6, <1>7, <1>8, ClaimHeaderDoneSound
<1>10. s.mode \notin {"init", "force"} /\ s.request # "format"
  BY <1>6 DEF Claimed, Recorder
<1> HIDE DEF u
<1>11. Succeeded(u, D, load) BY <1>2, <1>9, <1>10, Quiet
<1>12. QED BY <1>4, <1>9, <1>11 DEF Good, u, s, D

LEMMA ReadSafe ==
    ASSUME VolumeInv
    PROVE  /\ disk \in Disks /\ p \in Process /\ load \in Loads
           /\ Consistent(disk, load) /\ Safe(disk, disk, load)
  BY SameSafe DEF VolumeInv, Sound

LEMMA ListDone ==
    ASSUME VolumeInv, NEW r \in p.io, r.op = "list"
    PROVE  LET s == Filled(r)
           IN  Good(ListNext([s EXCEPT !.listed = Append(@, s.io_buf)]), disk, load)
<1> DEFINE s == Filled(r)
           x == Append(s.listed, s.io_buf)
           t == [s EXCEPT !.listed = x]
           u == ListNext(t)
<1>1. /\ ~p.recording /\ Accepted(disk.hdr) /\ p.vol = disk.hdr
      /\ p.mode = "list" /\ p.request = "none"
  BY Stage
<1>2. /\ s \in Process /\ s.io = {} /\ s.up /\ s.said = "none"
      /\ Footing(p, s) /\ Same(p, s)
  BY FilledIs
<1> HIDE DEF s
<1>3. x \in Seq(Entry)
  <2>1. s.listed \in Seq(Entry) /\ s.io_buf \in Entry BY <1>2 DEF Process
  <2>2. QED BY <2>1, AppendProperties
<1> HIDE DEF x
<1>4. /\ t \in Process /\ t.io = {} /\ t.up /\ t.said = "none"
      /\ t.mode = "list" /\ ~t.recording /\ t.vol = disk.hdr
      /\ t.request = "none"
  BY <1>1, <1>2, <1>3 DEF Process, Footing, Same
<1> HIDE DEF t
<1>5. Sound(u, disk, load) /\ Voice(t, u)
  BY <1>1, <1>4, ReadSafe, ListNextSound
<1> HIDE DEF u
<1>6. Succeeded(u, disk, load)
  BY <1>4, <1>5, Quiet
<1>7. Good(u, disk, load) BY <1>5, <1>6, ReadSafe DEF Good
<1>8. QED BY <1>7 DEF u, t, x, s

LEMMA EntryDone ==
    ASSUME VolumeInv, NEW r \in p.io, r.op = "entry", NEW z \in ChunkSizes
    PROVE  LET s == Filled(r)
           IN  Good(IF s.mode = "repair" THEN RepairEntryRead(s, z)
                    ELSE DumpEntryRead(s), disk, load)
<1> DEFINE s == Filled(r)
           k == p.dump_segment_id
           u == IF s.mode = "repair" THEN RepairEntryRead(s, z)
                ELSE DumpEntryRead(s)
<1>1. /\ ~p.recording /\ Accepted(disk.hdr) /\ p.vol = disk.hdr
      /\ p.request = "none" /\ p.mode \in {"dump", "repair"}
      /\ r = Rq("entry", TocStart + k, 1)
  BY Stage
<1>2. k \in Slots BY ReadSafe DEF Process
<1>3. r.at - TocStart = k
  <2>1. r.at = TocStart + k BY <1>1 DEF Rq
  <2>2. QED BY <1>2, <2>1, Geometry
<1>4. /\ s \in Process /\ s.io = {} /\ s.up /\ s.said = "none"
      /\ s.mode = p.mode /\ ~s.recording /\ s.vol = disk.hdr
      /\ s.request = "none" /\ s.io_buf = disk.toc[k] /\ s.dump_segment_id = k
  BY <1>1, <1>3, FilledIs DEF Footing, Same
<1> HIDE DEF s, k
<1>5. CASE s.mode = "repair"
  <2>1. u = RepairEntryRead(s, z) BY <1>5
  <2> HIDE DEF u
  <2>2. Sound(u, disk, load) /\ Voice(s, u)
    BY <1>1, <1>4, <1>5, <2>1, ReadSafe, RepairEntryReadSound
  <2>3. Succeeded(u, disk, load) BY <1>4, <1>5, <2>2, Quiet
  <2>4. QED BY <2>2, <2>3, ReadSafe DEF Good, u, s
<1>6. CASE s.mode = "dump"
  <2>1. u = DumpEntryRead(s) BY <1>6
  <2> HIDE DEF u
  <2>2. Sound(u, disk, load) /\ Voice(s, u)
    BY <1>1, <1>2, <1>4, <1>6, <2>1, ReadSafe, DumpEntryReadSound
  <2>3. Succeeded(u, disk, load) BY <1>4, <1>6, <2>2, Quiet
  <2>4. QED BY <2>2, <2>3, ReadSafe DEF Good, u, s
<1>7. QED BY <1>1, <1>4, <1>5, <1>6

LEMMA RepairDone ==
    ASSUME VolumeInv, NEW r \in p.io, r.op = "repair"
    PROVE  LET D == Performed(r, Blocks(r))
           IN  Good(Exit(Filled(r), "ok"), D, load)
<1> DEFINE D == Performed(r, Blocks(r))
           s == Filled(r)
           u == Exit(s, "ok")
<1>1. p.mode = "repair" BY Stage
<1>2. s \in Process /\ s.mode = "repair" BY <1>1, FilledIs DEF Footing
<1>3. Safe(disk, D, load) BY Done DEF Writes
<1> HIDE DEF s, D
<1>4. Sound(u, D, load) /\ u.mode = "repair" /\ u.said = "none"
  BY <1>2, ExitSound
<1> HIDE DEF u
<1>5. Succeeded(u, D, load) BY <1>4 DEF Succeeded
<1>6. QED BY <1>3, <1>4, <1>5 DEF Good, u, s, D

\* The blocks a reader asked for are in the data area.
LEMMA CellsTyped ==
    ASSUME VolumeInv, NEW r, NEW op, Walking(p, op), r \in p.io
    PROVE  /\ Cells(r) \in [0 .. p.cursor.chunk - 1 -> Cell]
           /\ Placed(p.cursor)
<1> DEFINE c == p.cursor
           a == c.cur_block
           n == c.chunk
<1>1. c \in Cursor BY ReadSafe DEF Process
<1>2. a \in Nat /\ n \in Nat BY <1>1, CursorTyped
<1>3. /\ a >= DataStart /\ n > 0 /\ a + n <= NumBlocks
      /\ c.records_seen <= c.target_count /\ r = Rq(op, a, n)
  BY DEF Walking
<1>4. Placed(c) BY <1>1, <1>3 DEF Placed
<1>5. r.at = a /\ r.len = n BY <1>3 DEF Rq
<1>6. disk.data \in [DataStart .. NumBlocks - 1 -> Cell]
  BY ReadSafe DEF Disks
<1> HIDE DEF a, n, c
<1>7. \A k \in 0 .. n - 1 : a + k \in DataStart .. NumBlocks - 1
  BY <1>2, <1>3, Geometry
<1>8. Cells(r) = [k \in 0 .. n - 1 |-> disk.data[a + k]]
  BY <1>5 DEF Cells
<1>9. Cells(r) \in [0 .. n - 1 -> Cell] BY <1>6, <1>7, <1>8
<1>10. QED BY <1>4, <1>9 DEF n, c

LEMMA ChunkDone ==
    ASSUME VolumeInv, NEW r \in p.io, r.op = "chunk"
    PROVE  LET s == Filled(r)
           IN  Good(Goes(s, "chunk", DumpChunkRead(s.cursor, Cells(r))), disk, load)
<1> DEFINE s == Filled(r)
           c == DumpChunkRead(s.cursor, Cells(r))
           u == Goes(s, "chunk", c)
<1>1. /\ ~p.recording /\ Accepted(disk.hdr) /\ p.vol = disk.hdr
      /\ p.request = "none" /\ p.mode = "dump" /\ Walking(p, "chunk")
  BY Stage
<1>2. /\ s \in Process /\ s.io = {} /\ s.up /\ s.said = "none"
      /\ s.mode = "dump" /\ ~s.recording /\ s.vol = disk.hdr
      /\ s.request = "none" /\ s.cursor = p.cursor
  BY <1>1, FilledIs DEF Footing, Same
<1>3. Placed(p.cursor) /\ Cells(r) \in [0 .. p.cursor.chunk - 1 -> Cell]
  BY <1>1, CellsTyped
<1> HIDE DEF s
<1>4. Placed(c) BY <1>2, <1>3, DumpChunkPlaced
<1> HIDE DEF c
<1>5. Sound(u, disk, load) /\ Voice(s, u)
  BY <1>1, <1>2, <1>4, GoesDump
<1> HIDE DEF u
<1>6. Succeeded(u, disk, load) BY <1>2, <1>5, Quiet
<1>7. Good(u, disk, load) BY <1>5, <1>6, ReadSafe DEF Good
<1>8. QED BY <1>7 DEF u, c, s

LEMMA PageEntryDone ==
    ASSUME VolumeInv, NEW r \in p.io, r.op = "pageEntry"
    PROVE  Good(PageEntryRead(Filled(r)), disk, load)
<1> DEFINE s == Filled(r)
           u == PageEntryRead(s)
<1>1. p.mode = "serve" /\ p.request = "page" /\ AtRest(p, disk, load)
  BY Stage
<1>2. PICK g \in Slots : r = Rq("pageEntry", TocStart + g, 1) BY Stage
<1>3. r.at - TocStart = g
  <2>1. r.at = TocStart + g BY <1>2 DEF Rq
  <2>2. QED BY <2>1, Geometry
<1>4. /\ s \in Process /\ s.io = {} /\ s.up /\ s.said = "none"
      /\ s.mode = "serve" /\ s.request = "page" /\ Footing(p, s)
      /\ s.io_buf = disk.toc[g]
  BY <1>1, <1>3, FilledIs DEF Footing, Same
<1> HIDE DEF s
<1>5. AtRest(s, disk, load) BY <1>1, <1>4, FootingRests DEF AtRest
<1>6. Sound(u, disk, load) /\ Voice(s, u)
  BY <1>4, <1>5, ReadSafe, PageEntryReadSound
<1> HIDE DEF u
<1>7. Succeeded(u, disk, load) BY <1>4, <1>6, Quiet
<1>8. QED BY <1>6, <1>7, ReadSafe DEF Good, u, s

LEMMA PageDone ==
    ASSUME VolumeInv, NEW r \in p.io, r.op = "page"
    PROVE  LET s == Filled(r)
           IN  Good(Goes(s, "page", PageChunkRead(s.cursor, Cells(r))), disk, load)
<1> DEFINE s == Filled(r)
           c == PageChunkRead(s.cursor, Cells(r))
           u == Goes(s, "page", c)
<1>1. /\ p.mode = "serve" /\ p.request = "page" /\ AtRest(p, disk, load)
      /\ Len(p.cursor.shown) <= p.cursor.req_limit /\ Walking(p, "page")
  BY Stage
<1>2. /\ s \in Process /\ s.io = {} /\ s.up /\ s.said = "none"
      /\ s.mode = "serve" /\ s.request = "page" /\ Footing(p, s)
      /\ s.cursor = p.cursor
  BY <1>1, FilledIs DEF Footing, Same
<1>3. Placed(p.cursor) /\ Cells(r) \in [0 .. p.cursor.chunk - 1 -> Cell]
  BY <1>1, CellsTyped
<1> HIDE DEF s
<1>4. Placed(c) /\ Len(c.shown) <= c.req_limit
  BY <1>1, <1>2, <1>3, PageChunkPlaced
<1> HIDE DEF c
<1>5. AtRest(s, disk, load) BY <1>1, <1>2, FootingRests DEF AtRest
<1>6. Sound(u, disk, load) /\ Voice(s, u)
  BY <1>2, <1>4, <1>5, GoesPage
<1> HIDE DEF u
<1>7. Succeeded(u, disk, load) BY <1>2, <1>6, Quiet
<1>8. Good(u, disk, load) BY <1>6, <1>7, ReadSafe DEF Good
<1>9. QED BY <1>8 DEF u, c, s

LEMMA IoDoneKeeps ==
    ASSUME VolumeInv, IoDone
    PROVE  VolumeInv' /\ Steady(disk, disk')
<1>1. PICK r \in p.io, z \in ChunkSizes :
         /\ r.op \notin {"finHdr", "finToc"}
         /\ disk' = IF r.op \in Writes THEN Performed(r, Blocks(r)) ELSE disk
         /\ p' = Continued(Filled(r), r, z)
         /\ load' = [load EXCEPT !.formats = IF r.op = "check" THEN @ + 1 ELSE @]
  BY DEF IoDone
<1> DEFINE D == Performed(r, Blocks(r))
           s == Filled(r)
<1>2. load \in Loads /\ r.op \in Reads \cup Writes
  <2>1. r \in Io BY Stage
  <2>2. QED BY <2>1, ReadSafe DEF Io
<1>3. ASSUME r.op # "check" PROVE load' = load
  <2>1. load' = [load EXCEPT !.formats = load.formats] BY <1>1, <1>3
  <2>2. QED BY <1>2, <2>1 DEF Loads
<1>4. CASE r.op = "check"
  <2>1. disk' = disk BY <1>1, <1>4 DEF Writes
  <2>2. p' = InitChecked(s, load.formats + 1) BY <1>1, <1>4 DEF Continued
  <2>3. load' = [load EXCEPT !.formats = load.formats + 1] BY <1>1, <1>4
  <2>4. /\ load' \in Loads /\ load'.formats = load.formats + 1
        /\ load'.faults = load.faults /\ load'.header_lost = load.header_lost
    BY <1>2, <2>3 DEF Loads
  <2>5. Good(InitChecked(s, load'.formats), disk, load')
    BY <1>4, <2>4, CheckDone
  <2>6. p' = InitChecked(s, load'.formats) BY <2>2, <2>4
  <2>7. Good(p', disk', load') BY <2>1, <2>5, <2>6
  <2>8. QED BY <2>4, <2>7, GoodIsEnough
<1>5. CASE r.op = "zero"
  <2>1. disk' = D BY <1>1, <1>5 DEF Writes
  <2>2. p' = InitZeroed(s)
    BY <1>1, <1>5 DEF Continued
  <2>3. Good(InitZeroed(s), D, load)
    BY <1>5, ZeroDone
  <2> HIDE DEF D, s
  <2>4. Good(p', disk', load') /\ load' \in Loads
    BY <1>2, <1>3, <1>5, <2>1, <2>2, <2>3
  <2>5. QED BY <2>4, GoodIsEnough
<1>6. CASE r.op = "initHdr"
  <2>1. disk' = D BY <1>1, <1>6 DEF Writes
  <2>2. p' = Exit(s, "ok")
    BY <1>1, <1>6 DEF Continued
  <2>3. Good(Exit(s, "ok"), D, load)
    BY <1>6, InitHeaderDone
  <2> HIDE DEF D, s
  <2>4. Good(p', disk', load') /\ load' \in Loads
    BY <1>2, <1>3, <1>6, <2>1, <2>2, <2>3
  <2>5. QED BY <2>4, GoodIsEnough
<1>7. CASE r.op = "header"
  <2>1. disk' = disk BY <1>1, <1>7 DEF Writes
  <2>2. p' = HeaderRead(s)
    BY <1>1, <1>7 DEF Continued
  <2>3. Good(HeaderRead(s), disk, load)
    BY <1>7, HeaderDone
  <2> HIDE DEF D, s
  <2>4. Good(p', disk', load') /\ load' \in Loads
    BY <1>2, <1>3, <1>7, <2>1, <2>2, <2>3
  <2>5. QED BY <2>4, GoodIsEnough
<1>8. CASE r.op = "qfZero"
  <2>1. disk' = D BY <1>1, <1>8 DEF Writes
  <2>2. p' = QuickFormatZeroed(s)
    BY <1>1, <1>8 DEF Continued
  <2>3. Good(QuickFormatZeroed(s), D, load)
    BY <1>8, QuickFormatZeroDone
  <2> HIDE DEF D, s
  <2>4. Good(p', disk', load') /\ load' \in Loads
    BY <1>2, <1>3, <1>8, <2>1, <2>2, <2>3
  <2>5. QED BY <2>4, GoodIsEnough
<1>9. CASE r.op = "qfHdr"
  <2>1. disk' = D BY <1>1, <1>9 DEF Writes
  <2>2. p' = QuickFormatDone(s)
    BY <1>1, <1>9 DEF Continued
  <2>3. Good(QuickFormatDone(s), D, load)
    BY <1>9, QuickFormatHeaderDone
  <2> HIDE DEF D, s
  <2>4. Good(p', disk', load') /\ load' \in Loads
    BY <1>2, <1>3, <1>9, <2>1, <2>2, <2>3
  <2>5. QED BY <2>4, GoodIsEnough
<1>10. CASE r.op = "claimToc"
  <2>1. disk' = D BY <1>1, <1>10 DEF Writes
  <2>2. p' = ClaimTocDone(s)
    BY <1>1, <1>10 DEF Continued
  <2>3. Good(ClaimTocDone(s), D, load)
    BY <1>10, ClaimEntryDone
  <2> HIDE DEF D, s
  <2>4. Good(p', disk', load') /\ load' \in Loads
    BY <1>2, <1>3, <1>10, <2>1, <2>2, <2>3
  <2>5. QED BY <2>4, GoodIsEnough
<1>11. CASE r.op = "claimHdr"
  <2>1. disk' = D BY <1>1, <1>11 DEF Writes
  <2>2. p' = ClaimHeaderDone(s)
    BY <1>1, <1>11 DEF Continued
  <2>3. Good(ClaimHeaderDone(s), D, load)
    BY <1>11, ClaimDone
  <2> HIDE DEF D, s
  <2>4. Good(p', disk', load') /\ load' \in Loads
    BY <1>2, <1>3, <1>11, <2>1, <2>2, <2>3
  <2>5. QED BY <2>4, GoodIsEnough
<1>12. CASE r.op = "list"
  <2>1. disk' = disk BY <1>1, <1>12 DEF Writes
  <2>2. p' = ListNext([s EXCEPT !.listed = Append(@, s.io_buf)])
    BY <1>1, <1>12 DEF Continued
  <2>3. Good(ListNext([s EXCEPT !.listed = Append(@, s.io_buf)]), disk, load)
    BY <1>12, ListDone
  <2> HIDE DEF D, s
  <2>4. Good(p', disk', load') /\ load' \in Loads
    BY <1>2, <1>3, <1>12, <2>1, <2>2, <2>3
  <2>5. QED BY <2>4, GoodIsEnough
<1>13. CASE r.op = "entry"
  <2>1. disk' = disk BY <1>1, <1>13 DEF Writes
  <2>2. p' = IF s.mode = "repair" THEN RepairEntryRead(s, z)
               ELSE DumpEntryRead(s)
    BY <1>1, <1>13 DEF Continued
  <2>3. Good(IF s.mode = "repair" THEN RepairEntryRead(s, z)
               ELSE DumpEntryRead(s), disk, load)
    BY <1>13, EntryDone
  <2> HIDE DEF D, s
  <2>4. Good(p', disk', load') /\ load' \in Loads
    BY <1>2, <1>3, <1>13, <2>1, <2>2, <2>3
  <2>5. QED BY <2>4, GoodIsEnough
<1>14. CASE r.op = "repair"
  <2>1. disk' = D BY <1>1, <1>14 DEF Writes
  <2>2. p' = Exit(s, "ok")
    BY <1>1, <1>14 DEF Continued
  <2>3. Good(Exit(s, "ok"), D, load)
    BY <1>14, RepairDone
  <2> HIDE DEF D, s
  <2>4. Good(p', disk', load') /\ load' \in Loads
    BY <1>2, <1>3, <1>14, <2>1, <2>2, <2>3
  <2>5. QED BY <2>4, GoodIsEnough
<1>15. CASE r.op = "chunk"
  <2>1. disk' = disk BY <1>1, <1>15 DEF Writes
  <2>2. p' = Goes(s, "chunk", DumpChunkRead(s.cursor, Cells(r)))
    BY <1>1, <1>15 DEF Continued
  <2>3. Good(Goes(s, "chunk", DumpChunkRead(s.cursor, Cells(r))), disk, load)
    BY <1>15, ChunkDone
  <2> HIDE DEF D, s
  <2>4. Good(p', disk', load') /\ load' \in Loads
    BY <1>2, <1>3, <1>15, <2>1, <2>2, <2>3
  <2>5. QED BY <2>4, GoodIsEnough
<1>16. CASE r.op = "pageEntry"
  <2>1. disk' = disk BY <1>1, <1>16 DEF Writes
  <2>2. p' = PageEntryRead(s)
    BY <1>1, <1>16 DEF Continued
  <2>3. Good(PageEntryRead(s), disk, load)
    BY <1>16, PageEntryDone
  <2> HIDE DEF D, s
  <2>4. Good(p', disk', load') /\ load' \in Loads
    BY <1>2, <1>3, <1>16, <2>1, <2>2, <2>3
  <2>5. QED BY <2>4, GoodIsEnough
<1>17. CASE r.op = "page"
  <2>1. disk' = disk BY <1>1, <1>17 DEF Writes
  <2>2. p' = Goes(s, "page", PageChunkRead(s.cursor, Cells(r)))
    BY <1>1, <1>17 DEF Continued
  <2>3. Good(Goes(s, "page", PageChunkRead(s.cursor, Cells(r))), disk, load)
    BY <1>17, PageDone
  <2> HIDE DEF D, s
  <2>4. Good(p', disk', load') /\ load' \in Loads
    BY <1>2, <1>3, <1>17, <2>1, <2>2, <2>3
  <2>5. QED BY <2>4, GoodIsEnough
<1>18. QED
  BY <1>1, <1>2, <1>4, <1>5, <1>6, <1>7, <1>8, <1>9, <1>10, <1>11, <1>12, <1>13, <1>14, <1>15, <1>16, <1>17
  DEF Reads, Writes

-----------------------------------------------------------------------------
(* An I/O fails *)

\* A fault leaves less to be said.
Grown(l, m) ==
    /\ m \in Loads /\ m.faults # 0 /\ m.formats = l.formats
    /\ l.header_lost => m.header_lost

LEMMA GrownKeeps ==
    ASSUME NEW s, NEW d \in Disks, NEW l \in Loads, NEW m, Grown(l, m)
    PROVE  /\ Consistent(d, l) => Consistent(d, m)
           /\ AtRest(s, d, l) => AtRest(s, d, m)
           /\ InStep(s, d, l) => InStep(s, d, m)
           /\ Stopping(s, d, l) => Stopping(s, d, m)
<1>1. Consistent(d, l) => Consistent(d, m) BY DEF Consistent, Grown
<1>2. InStep(s, d, l) => InStep(s, d, m) BY DEF InStep, Grown
<1>3. Open(s, d, l) => Open(s, d, m) BY DEF Open, Before, Grown
<1>4. Stopping(s, d, l) => Stopping(s, d, m) BY <1>3 DEF Stopping, Session
<1>5. AtRest(s, d, l) => AtRest(s, d, m)
  BY <1>2, <1>3 DEF AtRest, Resting, Writing, Session
<1>6. QED BY <1>1, <1>2, <1>4, <1>5

LEMMA IoFailsKeeps ==
    ASSUME VolumeInv, IoFails
    PROVE  VolumeInv' /\ Steady(disk, disk')
<1>1. PICK r \in p.io :
         /\ p' = LET s == [p EXCEPT !.io = @ \ {r}, !.faulted = TRUE]
                 IN  IF r.op = "header" THEN Exit(s, "fail") ELSE Report(s, "fail")
         /\ load' = [load EXCEPT !.faults = @ + 1]
         /\ disk' = disk /\ r.op \notin {"finHdr", "finToc"}
  BY DEF IoFails
<1> DEFINE s == [p EXCEPT !.io = @ \ {r}, !.faulted = TRUE]
           l == load'
           u == p'
<1>2. disk \in Disks /\ p \in Process /\ load \in Loads /\ Consistent(disk, load)
  BY ReadSafe
<1>3. p.io = {r} /\ p.up BY Stage
<1>4. l \in Loads /\ Grown(load, l)
  <2> DEFINE n == load.faults + 1
  <2>1. n \in Nat /\ n # 0 BY <1>2 DEF Loads
  <2>2. l = [load EXCEPT !.faults = n] BY <1>1
  <2> HIDE DEF n, l
  <2>3. QED BY <1>2, <2>1, <2>2 DEF Loads, Grown
<1>5. /\ s \in Process /\ s.io = {} /\ s.up /\ Footing(p, s)
      /\ s.mode = p.mode
  BY <1>2, <1>3 DEF Process, Footing
<1>6. u = IF r.op = "header" THEN Exit(s, "fail") ELSE Report(s, "fail")
  BY <1>1
<1> HIDE DEF s, l, u
<1>7. Safe(disk, disk, l) BY <1>2, <1>4, GrownKeeps, SameSafe
<1>8. CASE r.op = "header" \/ p.mode # "serve"
  <2>1. u = Exit(s, "fail") BY <1>5, <1>6, <1>8 DEF Report
  <2>2. Sound(u, disk, l) /\ u.rc = "fail" BY <1>5, <2>1, ExitSound
  <2>3. Succeeded(u, disk, l) BY <2>2 DEF Succeeded
  <2>4. Good(p', disk', load') BY <1>1, <1>7, <2>2, <2>3 DEF Good, u, l
  <2>5. QED BY <1>4, <2>4, GoodIsEnough DEF l
<1>9. CASE r.op # "header" /\ p.mode = "serve"
  <2>1. u = Fulfill(s, "fail") BY <1>5, <1>6, <1>9 DEF Report
  <2>2. AtRest(p, disk, l)
    <3>1. r.op \in Reads \cup Writes BY <1>2 DEF Process, Io
    <3>2. CASE r.op \in {"pageEntry", "page"}
      <4>1. AtRest(p, disk, load) BY <3>2, Stage
      <4>2. QED BY <1>2, <1>4, <4>1, GrownKeeps
    <3>3. CASE r.op \in {"qfZero", "qfHdr"}
      <4>1. AtRest(p, disk, load) BY <3>3, Stage DEF Renews, AtRest
      <4>2. QED BY <1>2, <1>4, <4>1, GrownKeeps
    <3>4. CASE r.op \in {"claimToc", "claimHdr"}
      <4>1. Claimed(p, disk, load) BY <3>4, Stage DEF EntryDue, HeaderDue
      <4>2. QED
        BY <1>4, <1>9, <4>1 DEF AtRest, Resting, Claimed, InStep, Grown
    <3>5. r.op \notin {"check", "zero", "initHdr", "list", "entry", "chunk",
                       "repair"}
      BY <1>9, Stage
    <3>6. QED BY <1>1, <1>9, <3>1, <3>2, <3>3, <3>4, <3>5 DEF Reads, Writes
  <2>3. AtRest(s, disk, l) BY <1>5, <1>9, <2>2, FootingRests DEF AtRest
  <2>4. Sound(u, disk, l) /\ u.rc = "fail"
    BY <1>5, <1>9, <2>1, <2>3, FulfillSound
  <2>5. Succeeded(u, disk, l) BY <2>4 DEF Succeeded
  <2>6. Good(p', disk', load') BY <1>1, <1>7, <2>4, <2>5 DEF Good, u, l
  <2>7. QED BY <1>4, <2>6, GoodIsEnough DEF l
<1>10. QED BY <1>8, <1>9

-----------------------------------------------------------------------------
(* The writes of finalize *)

LEMMA FinalizeIoKeeps ==
    ASSUME VolumeInv, FinalizeIo
    PROVE  VolumeInv' /\ Steady(disk, disk')
<1>1. PICK r \in p.io, ok \in BOOLEAN :
         /\ r.op \in {"finHdr", "finToc"}
         /\ disk' = IF ok THEN Performed(r, Blocks(r)) ELSE disk
         /\ p' = LET s == [p EXCEPT !.io = @ \ {r}, !.faulted = @ \/ ~ok]
                 IN  IF r.op = "finHdr" THEN FinalizeHeaderDone(s)
                     ELSE FinalizeTocDone(s, ok)
         /\ load' = [load EXCEPT !.faults = IF ok THEN @ ELSE @ + 1,
                                 !.header_lost = @ \/ (r.op = "finHdr" /\ ~ok)]
  BY DEF FinalizeIo
<1> DEFINE s == [p EXCEPT !.io = @ \ {r}, !.faulted = @ \/ ~ok]
           l == load'
           u == p'
           D == disk'
<1>2. disk \in Disks /\ p \in Process /\ load \in Loads /\ Consistent(disk, load)
  BY ReadSafe
<1>3. p.io = {r} /\ p.up /\ p.said = "none" BY Stage
<1>4. /\ s \in Process /\ s.io = {} /\ s.up /\ s.said = "none"
      /\ Footing(p, s) /\ Same(p, s) /\ s.shutting_down = p.shutting_down
  <2> DEFINE f == p.faulted \/ ~ok
  <2>1. f \in BOOLEAN OBVIOUS
  <2>2. s = [p EXCEPT !.io = @ \ {r}, !.faulted = f] OBVIOUS
  <2> HIDE DEF f, s
  <2>3. QED BY <1>2, <1>3, <2>1, <2>2 DEF Process, Footing, Same
<1>5. u = IF r.op = "finHdr" THEN FinalizeHeaderDone(s)
          ELSE FinalizeTocDone(s, ok)
  BY <1>1
<1>6. /\ ok => l = load
      /\ ~ok => /\ l \in Loads /\ Grown(load, l)
                /\ r.op = "finHdr" => l.header_lost
  <2>1. CASE ok
    <3>1. load.header_lost \in BOOLEAN BY <1>2 DEF Loads
    <3>2. (load.header_lost \/ (r.op = "finHdr" /\ ~ok)) = load.header_lost
      BY <2>1, <3>1
    <3>3. load' = [load EXCEPT !.faults = load.faults,
                               !.header_lost = load.header_lost]
      BY <1>1, <2>1, <3>2
    <3>4. QED BY <1>2, <2>1, <3>3 DEF Loads
  <2>2. CASE ~ok
    <3> DEFINE n == load.faults + 1
               h == load.header_lost \/ (r.op = "finHdr" /\ ~ok)
    <3>1. n \in Nat /\ n # 0 BY <1>2 DEF Loads
    <3>2. h \in BOOLEAN /\ (load.header_lost => h) /\ (r.op = "finHdr" => h)
      BY <2>2
    <3>3. l = [load EXCEPT !.faults = n, !.header_lost = h] BY <1>1, <2>2
    <3> HIDE DEF n, h, l
    <3>4. l \in Loads /\ l.faults = n /\ l.header_lost = h
          /\ l.formats = load.formats
      BY <1>2, <3>1, <3>2, <3>3 DEF Loads
    <3>5. QED BY <2>2, <3>1, <3>2, <3>4 DEF Grown
  <2>3. QED BY <2>1, <2>2
<1> HIDE DEF s, l, u, D
<1>7. l \in Loads BY <1>2, <1>6
<1>8. Safe(disk, D, l)
  <2>1. CASE ok
    <3>1. Safe(disk, Performed(r, Blocks(r)), load)
      BY <1>1, Done DEF Writes
    <3>2. QED BY <1>1, <1>6, <2>1, <3>1 DEF D
  <2>2. CASE ~ok
    <3>1. D = disk BY <1>1, <2>2 DEF D
    <3>2. QED BY <1>2, <1>6, <2>2, <3>1, GrownKeeps, SameSafe
  <2>3. QED BY <2>1, <2>2
<1>9. Stopping(p, disk, load) BY <1>1, Stage
<1>10. p.mode \notin {"init", "force"} /\ p.request # "format"
  BY <1>9 DEF Stopping, Session, Recorder
<1>11. CASE r.op = "finHdr"
  <2>1. p.vol_buf = p.vol /\ r = Rq("finHdr", 0, 1) BY <1>11, Stage
  <2>2. Stopping(s, D, l) /\ InStep(s, D, l)
    <3>1. CASE ok
      <4>1. D = Performed(r, Blocks(r)) BY <1>1, <3>1 DEF D
      <4>2. D.toc = disk.toc /\ D.hdr = p.vol
        BY <1>2, <2>1, <4>1, HeaderWritten
      <4>3. p.vol.next_segment_id = p.segment_id + 1
            /\ p.segment_id + 1 \in Nat
        BY <1>2, <1>9, Geometry DEF Stopping, Session, Process
      <4>4. Mounted(s, D)
        BY <1>4, <1>9, <4>2, <4>3
        DEF Stopping, Session, Mounted, Footing
      <4>5. Open(s, D, load)
        BY <1>4, <1>9, <4>2
        DEF Stopping, Session, Open, Before, Fin, Footing
      <4>6. Stopping(s, D, load)
        BY <1>4, <1>9, <4>2, <4>3, <4>4, <4>5
        DEF Stopping, Session, Recorder, Footing, Same
      <4>7. InStep(s, D, load) BY <1>4, <4>2 DEF InStep, Footing
      <4>8. QED BY <1>6, <3>1, <4>6, <4>7
    <3>2. CASE ~ok
      <4>1. D = disk BY <1>1, <3>2 DEF D
      <4>2. Stopping(p, disk, l) BY <1>2, <1>6, <1>9, <3>2, GrownKeeps
      <4>3. Stopping(s, disk, l)
        BY <1>4, <4>2
        DEF Stopping, Session, Mounted, Open, Before, Recorder, Footing, Same
      <4>4. InStep(s, disk, l) BY <1>6, <1>11, <3>2 DEF InStep, Grown
      <4>5. QED BY <4>1, <4>3, <4>4
    <3>3. QED BY <3>1, <3>2
  <2>3. u = FinalizeHeaderDone(s) BY <1>5, <1>11
  <2>4. D \in Disks BY <1>8 DEF Safe
  <2>5. Sound(u, D, l) /\ Voice(s, u)
    BY <1>4, <1>7, <2>2, <2>3, <2>4, FinalizeHeaderDoneSound
  <2>6. Voice(p, u) BY <1>4, <2>5 DEF Voice, Same
  <2>7. Succeeded(u, D, l) BY <1>2, <1>10, <2>6, Quiet
  <2>8. Good(p', disk', load') BY <1>8, <2>5, <2>7 DEF Good, u, D, l
  <2>9. QED BY <1>7, <2>8, GoodIsEnough DEF l
<1>12. CASE r.op = "finToc"
  <2>1. InStep(p, disk, load) /\ r = Rq("finToc", TocStart + p.segment_id, 1)
        /\ p.segment_id \in Slots
    BY <1>2, <1>12, Stage DEF Process
  <2>2. D.hdr = disk.hdr
    <3>1. CASE ok
      <4>1. D = Performed(r, Blocks(r)) BY <1>1, <3>1 DEF D
      <4>2. QED BY <1>2, <2>1, <4>1, EntryWritten
    <3>2. CASE ~ok BY <1>1, <3>2 DEF D
    <3>3. QED BY <3>1, <3>2
  <2>3. Mounted(p, disk) /\ InStep(p, disk, l)
    BY <1>2, <1>6, <1>9, <2>1, GrownKeeps DEF Stopping, Session
  <2>4. Mounted(s, D) /\ InStep(s, D, l)
    BY <1>4, <2>2, <2>3 DEF Mounted, InStep, Footing
  <2>5. u = FinalizeTocDone(s, ok) BY <1>5, <1>12
  <2>6. D \in Disks BY <1>8 DEF Safe
  <2>7. Sound(u, D, l) /\ u.mode = s.mode /\ u.said \in {"none", s.request}
    BY <1>4, <1>7, <2>4, <2>5, <2>6, FinalizeTocDoneSound
  <2>8. Voice(p, u) BY <1>4, <2>7 DEF Voice, Same
  <2>9. Succeeded(u, D, l) BY <1>2, <1>10, <2>8, Quiet
  <2>10. Good(p', disk', load') BY <1>8, <2>7, <2>9 DEF Good, u, D, l
  <2>11. QED BY <1>7, <2>10, GoodIsEnough DEF l
<1>13. QED BY <1>1, <1>11, <1>12

-----------------------------------------------------------------------------
(* Requests to the daemon *)

\* An answer that has been taken leaves nothing behind that a chain looks at.
LEMMA TakenIs ==
    ASSUME NEW s \in Process
    PROVE  LET t == Taken(s)
           IN  /\ t \in Process /\ Footing(s, t) /\ t.said = "none"
               /\ t.io = s.io /\ t.request = s.request
               /\ t.shutting_down = s.shutting_down
               /\ t.record_count = s.record_count
<1>1. NoCursor \in Cursor BY DEF NoCursor, Cursor
<1>2. FreeEntry \in Entry BY Plain
<1>3. CASE s.said = "none"
  <2>1. Taken(s) = s BY <1>3 DEF Taken
  <2>2. QED BY <1>3, <2>1 DEF Footing
<1>4. CASE s.said # "none"
  <2> DEFINE t == Taken(s)
  <2>1. t = [s EXCEPT !.rc = "none", !.said = "none", !.cursor = NoCursor,
                      !.target = FreeEntry]
    BY <1>4 DEF Taken
  <2> HIDE DEF t
  <2>2. /\ t \in Process /\ Footing(s, t) /\ t.said = "none"
        /\ t.io = s.io /\ t.request = s.request
        /\ t.shutting_down = s.shutting_down
        /\ t.record_count = s.record_count
    BY <1>1, <1>2, <2>1 DEF Process, Footing
  <2>3. QED BY <2>2 DEF t
<1>5. QED BY <1>3, <1>4

\* A daemon that takes requests is in no chain: it rests, or records.
LEMMA Idle ==
    ASSUME VolumeInv, Ready
    PROVE  p.up /\ p.mode = "serve" /\ p.io = {} /\ AtRest(p, disk, load)
<1>1. p.up /\ p.mode = "serve" /\ p.vol.kind = "V2" /\ ~p.shutting_down
      /\ p.request = "none"
  BY DEF Ready
<1>2. Phase(p, disk, load) BY DEF VolumeInv, Sound
<1>3. ~Formatting(p, disk, load) /\ ~Reading(p, disk)
  BY <1>1 DEF Formatting, Reading
<1>4. ~Opening(p) BY <1>1, Plain DEF Opening
<1>5. ~Claiming(p, disk, load)
  BY <1>1 DEF Claiming, EntryDue, HeaderDue, Claimed
<1>6. ~Finalizing(p, disk, load) BY <1>1 DEF Finalizing, Stopping
<1>7. ~Renewing(p, disk, load) /\ ~Paging(p, disk, load)
  BY <1>1 DEF Renewing, Paging
<1>8. QED
  BY <1>1, <1>2, <1>3, <1>4, <1>5, <1>6, <1>7 DEF Phase, AtRest

LEMMA AskedIs ==
    ASSUME VolumeInv, Ready, NEW q \in {"start", "stop", "format", "page"}
    PROVE  LET x == Asked(q)
           IN  /\ x \in Process /\ x.up /\ x.mode = "serve" /\ x.io = {}
               /\ x.said = "none" /\ x.request = q /\ Footing(p, x)
               /\ ~x.shutting_down /\ AtRest(x, disk, load)
<1> DEFINE t == Taken(p)
           x == Asked(q)
<1>1. p.up /\ p.mode = "serve" /\ p.io = {} /\ AtRest(p, disk, load)
      /\ ~p.shutting_down /\ p \in Process
  BY Idle, ReadSafe DEF Ready
<1>2. /\ t \in Process /\ Footing(p, t) /\ t.said = "none" /\ t.io = p.io
      /\ t.shutting_down = p.shutting_down
  BY <1>1, TakenIs
<1>3. x = [t EXCEPT !.request = q] BY DEF Asked
<1> HIDE DEF t, x
<1>4. /\ x \in Process /\ Footing(p, x) /\ x.said = "none" /\ x.io = {}
      /\ x.request = q /\ ~x.shutting_down /\ x.up /\ x.mode = "serve"
  BY <1>1, <1>2, <1>3 DEF Process, Footing
<1>5. AtRest(x, disk, load) BY <1>1, <1>4, FootingRests DEF AtRest
<1>6. QED BY <1>4, <1>5 DEF x

LEMMA RefusedGood ==
    ASSUME VolumeInv, Ready, NEW q \in {"start", "stop", "format", "page"},
           NEW l \in Loads, AtRest(Asked(q), disk, l), Consistent(disk, l)
    PROVE  Good(Fulfill(Asked(q), "fail"), disk, l)
<1> DEFINE x == Asked(q)
           u == Fulfill(x, "fail")
<1>1. x \in Process /\ x.up /\ x.mode = "serve" /\ x.io = {} BY AskedIs
<1> HIDE DEF x
<1>2. AtRest(x, disk, l) BY DEF x
<1>3. Sound(u, disk, l) /\ u.rc = "fail" BY <1>1, <1>2, FulfillSound
<1> HIDE DEF u
<1>4. Succeeded(u, disk, l) BY <1>3 DEF Succeeded
<1>5. disk \in Disks BY ReadSafe
<1>6. Safe(disk, disk, l) BY <1>5, SameSafe
<1>7. QED BY <1>3, <1>4, <1>6 DEF Good, u, x

LEMMA RecordingStartKeeps ==
    ASSUME VolumeInv, RecordingStart
    PROVE  VolumeInv' /\ Steady(disk, disk')
<1> DEFINE x == Asked("start")
           u == ClaimSegmentStart(x)
<1>1. Ready /\ p' = u /\ disk' = disk /\ load' = load BY DEF RecordingStart
<1>2. /\ x \in Process /\ x.up /\ x.mode = "serve" /\ x.io = {}
      /\ x.said = "none" /\ x.request = "start" /\ ~x.shutting_down
      /\ AtRest(x, disk, load)
  BY <1>1, AskedIs
<1>3. disk \in Disks /\ load \in Loads /\ Consistent(disk, load)
      /\ Safe(disk, disk, load)
  BY ReadSafe
<1>4. CASE x.recording
  <2>1. u = Fulfill(x, "fail") BY <1>4 DEF ClaimSegmentStart
  <2>2. Good(Fulfill(x, "fail"), disk, load)
    BY <1>1, <1>2, <1>3, RefusedGood
  <2> HIDE DEF x, u
  <2>3. Good(p', disk', load') BY <1>1, <2>1, <2>2
  <2>4. QED BY <1>1, <1>3, <2>3, GoodIsEnough
<1>5. CASE ~x.recording
  <2> HIDE DEF x
  <2>1. Resting(x, disk, load)
    BY <1>2, <1>5 DEF AtRest, Writing, Session
  <2>2. MayClaim(x, disk, load)
    BY <1>2, <1>5, <2>1 DEF MayClaim, Recorder, Resting
  <2>3. Sound(u, disk, load) /\ Voice(x, u)
    BY <1>2, <2>2, ClaimSegmentStartSound
  <2>4. Succeeded(u, disk, load) BY <1>2, <2>3, Quiet
  <2> HIDE DEF u
  <2>5. Good(p', disk', load') BY <1>1, <1>3, <2>3, <2>4 DEF Good
  <2>6. QED BY <1>1, <1>3, <2>5, GoodIsEnough
<1>6. QED BY <1>4, <1>5

LEMMA LeftOverTyped ==
    ASSUME NEW s \in Process
    PROVE  LeftOver(s) \subseteq Nat
<1> DEFINE a == s.buf_size \div RecLen
           b == MaxRecords - s.record_count
           m == Min({a, b})
<1>1. s.buf_size \in Nat /\ s.record_count \in Nat
  BY Geometry DEF Process
<1>2. MaxRecords \in Nat BY VolumeAssumption
<1>3. a \in Int /\ b \in Int BY <1>1, <1>2, Geometry
<1>4. m = IF a <= b THEN a ELSE b
  <2> HIDE DEF a, b
  <2>1. QED BY <1>3, MinOfTwo
<1>5. m \in Int BY <1>3, <1>4
<1> HIDE DEF m
<1>6. 0 .. m \subseteq Nat BY <1>5
<1>7. CASE LeftOver(s) = 0 .. m BY <1>6, <1>7
<1>8. CASE LeftOver(s) = {0} BY <1>8
<1>9. LeftOver(s) = 0 .. m \/ LeftOver(s) = {0} BY DEF LeftOver, m
<1>10. QED BY <1>7, <1>8, <1>9

LEMMA RecordingStopKeeps ==
    ASSUME VolumeInv, RecordingStop
    PROVE  VolumeInv' /\ Steady(disk, disk')
<1> DEFINE x == Asked("stop")
<1>1. Ready /\ p.recording /\ disk' = disk /\ load' = load
  BY DEF RecordingStop
<1>2. PICK n \in LeftOver(p) : p' = StopRecording(x, n) BY DEF RecordingStop
<1> DEFINE u == StopRecording(x, n)
<1>3. /\ disk \in Disks /\ p \in Process /\ load \in Loads
      /\ Safe(disk, disk, load)
  BY ReadSafe
<1>4. n \in Nat BY <1>3, LeftOverTyped
<1>5. /\ x \in Process /\ x.up /\ x.mode = "serve" /\ x.io = {}
      /\ x.said = "none" /\ x.request = "stop" /\ x.recording
      /\ AtRest(x, disk, load)
  BY <1>1, AskedIs DEF Footing
<1> HIDE DEF x
<1>6. Writing(x, disk, load) BY <1>5 DEF AtRest, Resting
<1>7. Sound(u, disk, load) /\ Voice(x, u)
  BY <1>3, <1>4, <1>5, <1>6, StopRecordingSound
<1>8. Succeeded(u, disk, load) BY <1>5, <1>7, Quiet
<1> HIDE DEF u
<1>9. Good(p', disk', load') BY <1>1, <1>2, <1>3, <1>7, <1>8 DEF Good, u
<1>10. QED BY <1>1, <1>3, <1>9, GoodIsEnough

LEMMA QuickFormatAskedKeeps ==
    ASSUME VolumeInv, QuickFormatAsked
    PROVE  VolumeInv' /\ Steady(disk, disk')
<1> DEFINE x == Asked("format")
           era == load.formats + 1
           u == QuickFormat(x, era)
           l == load'
<1>1. /\ Ready /\ p' = u /\ disk' = disk
      /\ load' = [load EXCEPT !.formats = era]
  BY DEF QuickFormatAsked
<1>2. /\ x \in Process /\ x.up /\ x.mode = "serve" /\ x.io = {}
      /\ x.said = "none" /\ x.request = "format" /\ AtRest(x, disk, load)
  BY <1>1, AskedIs
<1>3. disk \in Disks /\ load \in Loads /\ Consistent(disk, load)
  BY ReadSafe
<1>4. /\ l \in Loads /\ l.formats = era /\ l.faults = load.faults
      /\ l.header_lost = load.header_lost
  BY <1>1, <1>3 DEF Loads
<1> HIDE DEF x, era, l
<1>5. Consistent(disk, l) BY <1>3, <1>4 DEF Consistent
<1>6. AtRest(x, disk, l)
  BY <1>2, <1>4
  DEF AtRest, Resting, Writing, Session, Mounted, InStep, Open, Before
<1>7. CASE x.recording
  <2>1. u = Fulfill(x, "fail") BY <1>7 DEF QuickFormat
  <2>2. Good(Fulfill(x, "fail"), disk, l)
    BY <1>1, <1>4, <1>5, <1>6, RefusedGood DEF x
  <2> HIDE DEF u
  <2>3. Good(p', disk', load') BY <1>1, <2>1, <2>2 DEF l
  <2>4. QED BY <1>4, <2>3, GoodIsEnough DEF l
<1>8. CASE ~x.recording
  <2> DEFINE v == FreshHeader(era)
             t == [x EXCEPT !.staged = v, !.init_cur_block = TocStart]
  <2>1. u = QuickFormatZero(t) BY <1>8 DEF QuickFormat
  <2>2. v \in Header /\ v = FreshHeader(l.formats)
    BY <1>4, Fresh DEF Loads
  <2>3. TocStart \in Nat /\ TocStart <= DataStart /\ TocStart <= TocStart
    BY Geometry
  <2>4. Resting(x, disk, l)
    BY <1>6, <1>8 DEF AtRest, Writing, Session
  <2> HIDE DEF v
  <2>5. /\ t \in Process /\ t.io = {} /\ t.up /\ t.said = "none"
        /\ t.request = "format" /\ t.mode = "serve" /\ t.staged = v
        /\ t.init_cur_block = TocStart /\ Footing(x, t)
    BY <1>2, <2>2, <2>3 DEF Process, Footing
  <2> HIDE DEF t, u
  <2>6. Cleared(disk, t.init_cur_block) BY <2>5, Geometry DEF Cleared
  <2>7. Resting(t, disk, l) BY <1>2, <2>4, <2>5, FootingRests
  <2>8. Sound(u, disk, l) /\ u.said = "none" /\ u.up
    BY <1>4, <2>1, <2>2, <2>3, <2>5, <2>6, <2>7, QuickFormatZeroSound
  <2>9. Succeeded(u, disk, l) BY <2>8 DEF Succeeded
  <2>10. Safe(disk, disk, l) BY <1>3, <1>5, SameSafe
  <2>11. Good(p', disk', load') BY <1>1, <2>8, <2>9, <2>10 DEF Good, l
  <2>12. QED BY <1>4, <2>11, GoodIsEnough DEF l
<1>9. QED BY <1>7, <1>8

LEMMA PageAskedKeeps ==
    ASSUME VolumeInv, PageAsked
    PROVE  VolumeInv' /\ Steady(disk, disk')
<1> DEFINE x == Asked("page")
<1>1. PICK seg \in Slots, offset \in 0 .. MaxRecords - 1,
           limit \in 1 .. MaxRecords :
         /\ Ready
         /\ p' = Submit([x EXCEPT
                           !.cursor = [NoCursor EXCEPT !.req_offset = offset,
                                                       !.req_limit = limit]],
                        "pageEntry", p.vol.toc_start + seg, 1)
         /\ disk' = disk /\ load' = load
  BY DEF PageAsked
<1> DEFINE c == [NoCursor EXCEPT !.req_offset = offset, !.req_limit = limit]
           t == [x EXCEPT !.cursor = c]
           at == TocStart + seg
           u == Submit(t, "pageEntry", at, 1)
<1>2. /\ x \in Process /\ x.up /\ x.mode = "serve" /\ x.io = {}
      /\ x.said = "none" /\ x.request = "page" /\ Footing(p, x)
      /\ AtRest(x, disk, load)
  BY <1>1, AskedIs
<1>3. disk \in Disks /\ load \in Loads /\ Safe(disk, disk, load)
  BY ReadSafe
<1>4. c \in Cursor /\ c.shown = <<>> /\ c.req_limit \in Nat
  <2>1. offset \in Nat /\ limit \in Nat
    <3>1. MaxRecords \in Nat BY VolumeAssumption
    <3>2. QED BY <3>1
  <2>2. NoCursor \in Cursor /\ NoCursor.shown = <<>> BY DEF NoCursor, Cursor
  <2>3. QED BY <2>1, <2>2 DEF Cursor
<1>5. p.vol.toc_start = TocStart
  <2>1. x.vol.toc_start = TocStart
    BY <1>2 DEF AtRest, Resting, Writing, Session, Mounted
  <2>2. QED BY <1>2, <2>1 DEF Footing
<1>6. p' = u BY <1>1, <1>5
<1>7. at \in 0 .. NumBlocks - 1 BY SlotBlock
<1> HIDE DEF x, c
<1>8. /\ t \in Process /\ t.io = {} /\ t.up /\ t.mode = "serve"
      /\ t.said = "none" /\ t.request = "page" /\ t.cursor = c
      /\ Footing(x, t)
  BY <1>2, <1>4 DEF Process, Footing
<1>9. "pageEntry" \in Reads \cup Writes /\ 1 \in Nat BY DEF Reads
<1> HIDE DEF t, at
<1>10. u = [t EXCEPT !.io = {Rq("pageEntry", at, 1)}] /\ u \in Process
  BY <1>7, <1>8, <1>9, SubmitIs
<1>11. /\ u.up /\ u.mode = "serve" /\ u.said = "none" /\ u.request = "page"
       /\ u.cursor = c /\ Footing(x, u)
       /\ u.io = {Rq("pageEntry", at, 1)}
  BY <1>8, <1>10 DEF Process, Footing
<1> HIDE DEF u
<1>12. AtRest(u, disk, load) BY <1>2, <1>11, FootingRests DEF AtRest
<1>13. Len(u.cursor.shown) <= u.cursor.req_limit
  <2>1. Len(<<>>) = 0 OBVIOUS
  <2>2. QED BY <1>4, <1>11, <2>1
<1>14. \E g \in Slots : u.io = {Rq("pageEntry", TocStart + g, 1)}
  BY <1>11 DEF at
<1>15. Paging(u, disk, load)
  BY <1>4, <1>11, <1>12, <1>13, <1>14 DEF Paging, AtRest
<1>16. Phase(u, disk, load) /\ Mute(u) BY <1>11, <1>15 DEF Phase, Mute
<1>17. Succeeded(u, disk, load) BY <1>11 DEF Succeeded
<1>18. Good(p', disk', load')
  BY <1>1, <1>3, <1>6, <1>10, <1>16, <1>17 DEF Good, Sound
<1>19. QED BY <1>1, <1>3, <1>18, GoodIsEnough

-----------------------------------------------------------------------------
(* Records, signals, deaths, starts *)

LEMMA BlankTyped == Blank \in Cell
  BY DEF Blank, Cell

LEMMA LaidTyped ==
    ASSUME NEW era \in Nat, NEW seg \in Nat, NEW first \in Nat, NEW n
    PROVE  Laid(era, seg, first, n) \in [0 .. n * RecLen - 1 -> Cell]
<1> DEFINE K == 0 .. n * RecLen - 1
           at(k) == IF k % RecLen = 0
                    THEN [era |-> era, seg |-> seg, seq |-> first + k \div RecLen,
                          len |-> RecLen]
                    ELSE Blank
<1>1. ASSUME NEW k \in K PROVE at(k) \in Cell
  <2>1. k \in Nat OBVIOUS
  <2>2. RecLen \in Nat /\ RecLen > 0 BY Geometry
  <2>3. k \div RecLen \in Nat BY <2>1, <2>2
  <2> DEFINE x == first + k \div RecLen
  <2>4. x \in Nat BY <2>3
  <2>5. at(k) = IF k % RecLen = 0
                THEN [era |-> era, seg |-> seg, seq |-> x, len |-> RecLen]
                ELSE Blank
    OBVIOUS
  <2> HIDE DEF x, at, K
  <2>6. [era |-> era, seg |-> seg, seq |-> x, len |-> RecLen] \in Cell
    BY <2>2, <2>4 DEF Cell
  <2>7. QED BY <2>5, <2>6, BlankTyped
<1>2. Laid(era, seg, first, n) = [k \in K |-> at(k)] BY DEF Laid
<1> HIDE DEF at, K
<1>3. [k \in K |-> at(k)] \in [K -> Cell] BY <1>1
<1>4. QED BY <1>2, <1>3 DEF K

LEMMA StoredTyped ==
    ASSUME NEW D, NEW data \in [D -> Cell], NEW S, NEW chunk \in [S -> Cell],
           NEW b, NEW size
    PROVE  Stored(data, b, chunk, size) \in [D -> Cell]
<1> DEFINE at(k) == IF k \in b .. b + size - 1
                    THEN IF k - b \in DOMAIN chunk THEN chunk[k - b] ELSE Blank
                    ELSE data[k]
<1>1. ASSUME NEW k \in D PROVE at(k) \in Cell
  <2>1. data[k] \in Cell OBVIOUS
  <2>2. DOMAIN chunk = S OBVIOUS
  <2> DEFINE m == k - b
  <2>3. m \in S => chunk[m] \in Cell OBVIOUS
  <2> HIDE DEF m
  <2>4. at(k) = IF k \in b .. b + size - 1
                THEN IF m \in S THEN chunk[m] ELSE Blank
                ELSE data[k]
    BY <2>2 DEF m
  <2> HIDE DEF at
  <2>5. QED BY <2>1, <2>3, <2>4, BlankTyped
<1>2. DOMAIN data = D OBVIOUS
<1>3. Stored(data, b, chunk, size) = [k \in D |-> at(k)] BY <1>2 DEF Stored
<1> HIDE DEF at
<1>4. QED BY <1>1, <1>3

\* Nothing but records written.
LEMMA RecordedSafe ==
    ASSUME NEW d \in Disks, NEW D \in Disks, NEW l, Consistent(d, l),
           D.hdr = d.hdr, D.toc = d.toc
    PROVE  Safe(d, D, l)
  BY ThinnerSafe

LEMMA RecordKeeps ==
    ASSUME VolumeInv, Record
    PROVE  VolumeInv' /\ Steady(disk, disk')
<1> DEFINE chunk(n) == Laid(p.vol.era, p.segment_id, p.record_count, n)
           data(n) == Stored(disk.data, p.next_write_block, chunk(n), p.buf_size)
           a(n) == p.record_count + n
           b == p.next_write_block + p.buf_size
           t == Taken(p)
           D == disk'
           u == p'
<1>1. disk \in Disks /\ p \in Process /\ load \in Loads
      /\ Consistent(disk, load)
  BY ReadSafe
<1>2. /\ t \in Process /\ Footing(p, t) /\ t.said = "none" /\ t.io = p.io
      /\ t.request = p.request /\ t.shutting_down = p.shutting_down
      /\ t.record_count = p.record_count
  BY <1>1, TakenIs
<1>3. PICK n \in 1 .. p.buf_size \div RecLen :
         /\ p.up /\ p.mode = "serve" /\ p.recording /\ ~p.stopping
         /\ disk' = [disk EXCEPT !.data = data(n)]
         /\ p' = [t EXCEPT !.record_count = @ + n,
                           !.next_write_block = @ + p.buf_size]
         /\ load' = load
  BY DEF Record
<1>4. /\ p.buf_size \in Nat /\ p.next_write_block \in Nat
      /\ p.record_count \in Nat /\ p.segment_id \in Nat /\ p.vol.era \in Nat
      /\ p.segment_start_block \in Nat
  <2>1. /\ p.buf_size \in ChunkSizes /\ p.segment_id \in Slots
        /\ p.vol \in Header /\ p.next_write_block \in Nat
        /\ p.record_count \in Nat /\ p.segment_start_block \in Nat
    BY <1>1 DEF Process
  <2>2. p.buf_size \in Nat BY <2>1, Geometry
  <2>3. p.segment_id \in Nat BY <2>1, SlotBlock
  <2>4. p.vol.era \in Nat BY <2>1 DEF Header
  <2>5. QED BY <2>1, <2>2, <2>3, <2>4
<1>5. b \in Nat /\ b >= p.next_write_block BY <1>4
<1>6. a(n) \in Nat
  <2>1. n \in Nat OBVIOUS
  <2>2. QED BY <1>4, <2>1
<1>7. u = [t EXCEPT !.record_count = a(n), !.next_write_block = b]
  BY <1>2, <1>3 DEF Footing
<1>8. data(n) \in [DataStart .. NumBlocks - 1 -> Cell]
  <2>1. chunk(n) \in [0 .. n * RecLen - 1 -> Cell] BY <1>4, LaidTyped
  <2>2. disk.data \in [DataStart .. NumBlocks - 1 -> Cell]
    BY <1>1 DEF Disks
  <2> HIDE DEF chunk
  <2>3. QED BY <2>1, <2>2, StoredTyped
<1> HIDE DEF data, a, b, t, u, D
<1>9. D \in Disks /\ D.hdr = disk.hdr /\ D.toc = disk.toc
  BY <1>1, <1>3, <1>8 DEF Disks, D
<1>10. Safe(disk, D, load) BY <1>1, <1>9, RecordedSafe
<1>11. /\ u \in Process /\ u.up = p.up /\ u.mode = p.mode /\ u.vol = p.vol
       /\ u.recording = p.recording /\ u.stopping = p.stopping
       /\ u.segment_id = p.segment_id /\ u.next_write_block = b
       /\ u.segment_start_block = p.segment_start_block
       /\ u.said = "none" /\ u.io = p.io /\ u.request = p.request
       /\ u.cursor = t.cursor
  BY <1>2, <1>5, <1>6, <1>7 DEF Process, Footing
<1>12. ASSUME Writing(p, disk, load) PROVE Writing(u, D, load)
  <2>1. /\ Session(p, disk, load) /\ InStep(p, disk, load)
        /\ p.segment_start_block = p.vol.next_data_block
        /\ Open(p, disk, load) /\ Mounted(p, disk)
    BY <1>12 DEF Writing, Session
  <2>2. Mounted(u, D) /\ InStep(u, D, load)
    BY <1>9, <1>11, <2>1 DEF Mounted, InStep
  <2>3. Open(u, D, load)
    <3>1. u.segment_start_block <= u.next_write_block
      BY <1>4, <1>5, <1>11, <2>1 DEF Open
    <3>2. Before(u, D, load)
      BY <1>9, <1>11, <2>1 DEF Open, Before, Fin
    <3>3. QED BY <1>11, <2>1, <3>1, <3>2 DEF Open
  <2>4. Session(u, D, load)
    BY <1>9, <1>11, <2>1, <2>2, <2>3 DEF Session, Recorder
  <2>5. QED BY <1>3, <1>11, <2>1, <2>2, <2>4 DEF Writing
<1>13. Phase(p, disk, load) /\ Mute(p) BY DEF VolumeInv, Sound
<1>14. \/ Writing(p, disk, load) /\ p.io = {} /\ p.request = "none"
       \/ Paging(p, disk, load)
  <2>1. ~Formatting(p, disk, load) /\ ~Opening(p) /\ ~Reading(p, disk)
    BY <1>3 DEF Formatting, Opening, Reading
  <2>2. ~Claiming(p, disk, load) /\ ~Renewing(p, disk, load)
        /\ ~Resting(p, disk, load)
    BY <1>3 DEF Claiming, EntryDue, HeaderDue, Claimed, Renewing, Resting
  <2>3. ~Finalizing(p, disk, load) BY <1>3 DEF Finalizing, Stopping
  <2>4. QED BY <1>3, <1>13, <2>1, <2>2, <2>3 DEF Phase
<1>15. Phase(u, D, load)
  <2>1. CASE Writing(p, disk, load) /\ p.io = {} /\ p.request = "none"
    BY <1>3, <1>11, <1>12, <2>1 DEF Phase
  <2>2. CASE Paging(p, disk, load)
    <3>1. ~Resting(p, disk, load) BY <1>3 DEF Resting
    <3>2. Writing(u, D, load) BY <1>12, <2>2, <3>1 DEF Paging
    <3>3. p.io # {} BY <2>2 DEF Paging, Walking
    <3>4. t = p BY <1>13, <3>3 DEF Mute, Taken, t
    <3>5. Paging(u, D, load)
      BY <1>11, <2>2, <3>2, <3>4 DEF Paging, Walking
    <3>6. QED BY <1>3, <1>11, <3>5 DEF Phase
  <2>3. QED BY <1>14, <2>1, <2>2
<1>16. Mute(u) BY <1>11 DEF Mute
<1>17. Succeeded(u, D, load) BY <1>3, <1>11 DEF Succeeded
<1>18. Good(p', disk', load')
  BY <1>3, <1>10, <1>11, <1>15, <1>16, <1>17 DEF Good, Sound, u, D
<1>19. QED BY <1>1, <1>3, <1>18, GoodIsEnough

\* A SIGINT that finds nothing to finalize ends a daemon, and nothing else.
LEMMA InterruptKeeps ==
    ASSUME VolumeInv, Interrupt, Signals = FALSE
    PROVE  VolumeInv' /\ Steady(disk, disk')
<1> DEFINE t == Taken(p)
           s == [t EXCEPT !.shutting_down = TRUE]
           u == p'
<1>1. /\ p.up /\ ~p.shutting_down /\ disk' = disk /\ load' = load
      /\ Recording \/ (p.mode = "serve" /\ ~p.recording)
  BY DEF Interrupt
<1>2. PICK n \in LeftOver(p) :
         u = IF s.mode = "serve" /\ ~s.recording THEN Exit(s, "ok")
             ELSE StopRecording(s, n)
  BY DEF Interrupt
<1>3. disk \in Disks /\ p \in Process /\ load \in Loads
      /\ Consistent(disk, load) /\ Safe(disk, disk, load)
  BY ReadSafe
<1>4. n \in Nat BY <1>3, LeftOverTyped
<1>5. /\ t \in Process /\ Footing(p, t) /\ t.said = "none" /\ t.io = p.io
      /\ t.request = p.request /\ t.shutting_down = p.shutting_down
      /\ t.record_count = p.record_count
  BY <1>3, TakenIs
<1> HIDE DEF t
<1>6. /\ s \in Process /\ Footing(p, s) /\ s.said = "none" /\ s.io = p.io
      /\ s.request = p.request /\ s.shutting_down
      /\ s.record_count = p.record_count
      /\ t = p => s.buf_size = p.buf_size /\ s.vol_buf = p.vol_buf
                  /\ s.io_buf = p.io_buf
  BY <1>5 DEF Process, Footing
<1>7. s.mode = p.mode /\ s.recording = p.recording /\ s.up
      /\ s.stopping = p.stopping
  BY <1>1, <1>6 DEF Footing
<1> HIDE DEF s, u
<1>8. CASE p.mode = "serve" /\ ~p.recording
  <2>1. u = Exit(s, "ok") BY <1>2, <1>7, <1>8
  <2>2. Sound(u, disk, load) /\ u.said = "none" /\ u.mode = p.mode
    BY <1>6, <1>7, <2>1, ExitSound
  <2>3. Succeeded(u, disk, load) BY <1>8, <2>2 DEF Succeeded
  <2>4. Good(p', disk', load') BY <1>1, <1>3, <2>2, <2>3 DEF Good, u
  <2>5. QED BY <1>1, <1>3, <2>4, GoodIsEnough
<1>9. CASE p.recording /\ (p.mode = "serve" => p.request = "none")
  <2>1. u = StopRecording(s, n) BY <1>2, <1>7, <1>9
  <2>2. Phase(p, disk, load) /\ Mute(p) BY DEF VolumeInv, Sound
  <2>3. \/ Writing(p, disk, load) /\ p.io = {} /\ p.request = "none"
        \/ Finalizing(p, disk, load)
    <3>1. ~Formatting(p, disk, load) /\ ~Opening(p) /\ ~Reading(p, disk)
      BY <1>9 DEF Formatting, Opening, Reading
    <3>2. ~Claiming(p, disk, load) /\ ~Renewing(p, disk, load)
          /\ ~Resting(p, disk, load)
      BY <1>9 DEF Claiming, EntryDue, HeaderDue, Claimed, Renewing, Resting
    <3>3. ~Paging(p, disk, load) BY <1>9 DEF Paging
    <3>4. QED BY <1>1, <2>2, <3>1, <3>2, <3>3 DEF Phase
  <2>4. p.mode \in {"serve", "capture"}
        /\ (p.mode = "capture" => p.request = "none")
    BY <2>3 DEF Writing, Finalizing, Stopping, Session, Recorder
  <2>5. Sound(u, disk, load) /\ Voice(s, u)
    <3>1. CASE Writing(p, disk, load) /\ p.io = {} /\ p.request = "none"
      <4>1. Writing(s, disk, load)
        BY <1>6, <3>1
        DEF Footing, Writing, Session, Mounted, InStep, Open, Before, Recorder
      <4>2. QED
        BY <1>3, <1>4, <1>6, <1>7, <2>1, <3>1, <4>1, StopRecordingSound
    <3>2. CASE Finalizing(p, disk, load)
      <4>1. Stopping(p, disk, load) BY <3>2 DEF Finalizing
      <4>2. p.mode = "capture" /\ p.stopping
        BY <1>1, <1>9, <2>4, <4>1 DEF Stopping
      <4>3. u = s BY <1>7, <2>1, <4>2 DEF StopRecording
      <4>4. p.io # {} BY <3>2 DEF Finalizing
      <4>5. t = p BY <2>2, <4>4 DEF Mute, Taken, t
      <4>6. Stopping(s, disk, load)
        BY <1>6, <4>1, <4>2
        DEF Footing, Stopping, Session, Mounted, Open, Before, Recorder
      <4>7. InStep(p, disk, load) => InStep(s, disk, load)
        BY <1>6 DEF Footing, InStep
      <4>8. Entered(s) = Entered(p)
        BY <1>6, <4>5 DEF Footing, Entered
      <4>9. Finalizing(s, disk, load)
        BY <1>6, <3>2, <4>5, <4>6, <4>7, <4>8 DEF Finalizing, Footing
      <4>10. Phase(s, disk, load) /\ Mute(s)
        BY <1>6, <1>7, <4>9 DEF Phase, Mute
      <4>11. QED BY <1>6, <4>3, <4>10 DEF Sound, Voice
    <3>3. QED BY <2>3, <3>1, <3>2
  <2>6. s.mode \notin {"init", "force"} /\ s.request # "format"
    BY <1>6, <1>7, <1>9, <2>4
  <2>7. Succeeded(u, disk, load) BY <1>6, <2>5, <2>6, Quiet
  <2>8. Good(p', disk', load') BY <1>1, <1>3, <2>5, <2>7 DEF Good, u
  <2>9. QED BY <1>1, <1>3, <2>8, GoodIsEnough
<1>10. QED BY <1>1, <1>8, <1>9 DEF Recording

LEMMA BootedTyped ==
    ASSUME NEW mode \in Modes, NEW size \in ChunkSizes, NEW seg \in Slots
    PROVE  LET s == Booted(mode, size, seg)
               op == IF mode \in {"init", "force"} THEN "check" ELSE "header"
           IN  /\ s \in Process /\ s.up /\ s.mode = mode /\ ~s.recording
               /\ ~s.stopping /\ s.request = "none" /\ s.rc = "none"
               /\ s.said = "none" /\ s.vol = NoHeader /\ s.io_buf = FreeEntry
               /\ s.io = {Rq(op, 0, 1)}
<1> DEFINE op == IF mode \in {"init", "force"} THEN "check" ELSE "header"
           q == {[op |-> op, at |-> 0, len |-> 1]}
           s == Booted(mode, size, seg)
<1>1. q = {Rq(op, 0, 1)} BY DEF Rq
<1>2. q \in SUBSET Io
  <2>1. op \in Reads \cup Writes BY DEF Reads
  <2>2. 0 \in 0 .. NumBlocks - 1 /\ 1 \in Nat BY Requests, Geometry
  <2> HIDE DEF op
  <2>3. Rq(op, 0, 1) \in Io BY <2>1, <2>2, Requests
  <2>4. QED BY <1>1, <2>3
<1>3. /\ NoHeader \in Header /\ FreeEntry \in Entry /\ NoCursor \in Cursor
      /\ <<>> \in Seq(Entry) /\ 0 \in Nat /\ 0 \in Slots
  <2>1. NoCursor \in Cursor BY DEF NoCursor, Cursor
  <2>2. 0 \in Slots BY Geometry
  <2>3. QED BY <2>1, <2>2, Plain
<1>4. s = [up |-> TRUE, mode |-> mode, buf_size |-> size,
           dump_segment_id |-> seg, io |-> q,
           vol |-> NoHeader, vol_buf |-> NoHeader, io_buf |-> FreeEntry,
           staged |-> NoHeader, init_cur_block |-> 0,
           segment_id |-> 0, segment_start_block |-> 0, next_write_block |-> 0,
           record_count |-> 0, recording |-> FALSE, stopping |-> FALSE,
           shutting_down |-> FALSE, cursor |-> NoCursor, target |-> FreeEntry,
           listed |-> <<>>, request |-> "none", rc |-> "none",
           said |-> "none", faulted |-> FALSE]
  BY DEF Booted
<1> HIDE DEF q, s
<1>5. s \in Process BY <1>2, <1>3, <1>4 DEF Process
<1>6. QED BY <1>1, <1>4, <1>5 DEF s, op

LEMMA OffSound ==
    ASSUME NEW d, NEW l
    PROVE  Sound(Off, d, l) /\ ~Off.up /\ Off.rc = "none"
<1> DEFINE z == Min(ChunkSizes)
           b == Booted("list", z, 0)
<1>1. b \in Process /\ b.rc = "none"
  <2>1. "list" \in Modes /\ 0 \in Slots BY Geometry DEF Modes
  <2>2. z \in ChunkSizes BY MinChunk
  <2> HIDE DEF z
  <2>3. QED BY <2>1, <2>2, BootedTyped
<1>2. Off = [b EXCEPT !.up = FALSE, !.io = {}] BY DEF Off
<1> HIDE DEF b
<1>3. Off \in Process /\ ~Off.up /\ Off.io = {} /\ Off.rc = "none"
  BY <1>1, <1>2 DEF Process
<1>4. Phase(Off, d, l) /\ Mute(Off) BY <1>3 DEF Phase, Mute
<1>5. QED BY <1>3, <1>4 DEF Sound

LEMMA BootKeeps ==
    ASSUME VolumeInv, Boot
    PROVE  VolumeInv' /\ Steady(disk, disk')
<1>1. PICK mode \in Modes, size \in ChunkSizes, seg \in Slots :
         /\ p' = Booted(mode, size, seg) /\ disk' = disk
         /\ load' = [load EXCEPT !.boots = @ + 1]
  BY DEF Boot
<1> DEFINE u == p'
           l == load'
           n == load.boots + 1
<1>2. disk \in Disks /\ load \in Loads /\ Consistent(disk, load) BY ReadSafe
<1>3. /\ l \in Loads /\ l.faults = load.faults
      /\ l.header_lost = load.header_lost
  <2>1. n \in Nat BY <1>2 DEF Loads
  <2>2. l = [load EXCEPT !.boots = n] BY <1>1
  <2> HIDE DEF n, l
  <2>3. QED BY <1>2, <2>1, <2>2 DEF Loads
<1> HIDE DEF l
<1>4. Consistent(disk, l) BY <1>2, <1>3 DEF Consistent
<1>5. Safe(disk, disk, l) BY <1>2, <1>4, SameSafe
<1>6. /\ u \in Process /\ u.up /\ u.mode = mode /\ ~u.recording
      /\ ~u.stopping /\ u.request = "none" /\ u.rc = "none"
      /\ u.said = "none" /\ u.vol = NoHeader /\ u.io_buf = FreeEntry
      /\ u.io = {Rq(IF mode \in {"init", "force"} THEN "check" ELSE "header",
                    0, 1)}
  BY <1>1, BootedTyped
<1> HIDE DEF u
<1>7. Formatting(u, disk, l) \/ Opening(u)
  <2>1. CASE mode \in {"init", "force"} BY <1>6, <2>1 DEF Formatting
  <2>2. CASE mode \notin {"init", "force"} BY <1>6, <2>2 DEF Opening
  <2>3. QED BY <2>1, <2>2
<1>8. Phase(u, disk, l) /\ Mute(u) BY <1>6, <1>7 DEF Phase, Mute
<1>9. Succeeded(u, disk, l) BY <1>6 DEF Succeeded
<1>10. Good(p', disk', load')
  BY <1>1, <1>5, <1>6, <1>8, <1>9 DEF Good, Sound, u, l
<1>11. QED BY <1>3, <1>10, GoodIsEnough DEF l

\* A process dies between two writes or in the middle of one.
LEMMA CrashKeeps ==
    ASSUME VolumeInv, Crash
    PROVE  VolumeInv' /\ Steady(disk, disk')
<1>1. p' = Off /\ load' = load BY DEF Crash
<1>0. PICK r \in p.io : \E B \in SUBSET Blocks(r) :
         disk' = IF r.op \in Writes THEN Performed(r, B) ELSE disk
  BY DEF Crash
<1>2. PICK B \in SUBSET Blocks(r) :
         disk' = IF r.op \in Writes THEN Performed(r, B) ELSE disk
  BY <1>0
<1>3. load \in Loads /\ Safe(disk, disk, load) BY ReadSafe
<1>4. Safe(disk, disk', load)
  <2>1. CASE r.op \in Writes
    <3>1. Safe(disk, Performed(r, B), load) BY <2>1, WriteSafe
    <3>2. QED BY <1>2, <2>1, <3>1
  <2>2. CASE r.op \notin Writes BY <1>2, <1>3, <2>2
  <2>3. QED BY <2>1, <2>2
<1>5. Sound(Off, disk', load) /\ Off.rc = "none" BY OffSound
<1>6. Succeeded(Off, disk', load) BY <1>5 DEF Succeeded
<1>7. Good(p', disk', load') BY <1>1, <1>4, <1>5, <1>6 DEF Good
<1>8. QED BY <1>1, <1>3, <1>7, GoodIsEnough

-----------------------------------------------------------------------------
(* The devices a process may find *)

LEMMA StaleTyped ==
    ASSUME NEW size \in ChunkSizes, NEW chunk \in Nat, NEW era \in Nat
    PROVE  LET e == StaleEntry(size, chunk, era)
           IN  /\ e \in Entry /\ e.segment_id = 0 /\ e.start_block = DataStart
               /\ e.block_count = 2 * size /\ e.era = era
<1> DEFINE b == 2 * size
           n == 2 * (size \div RecLen)
           e == StaleEntry(size, chunk, era)
<1>1. size \in Nat /\ RecLen \in Nat /\ RecLen > 0 /\ DataStart \in Nat
  BY Geometry
<1>2. b \in Nat /\ b \in Int BY <1>1
<1>3. n \in Nat
  <2>1. size \div RecLen \in Nat BY <1>1
  <2>2. QED BY <2>1
<1>4. e = [magic |-> TRUE, state |-> "FINALIZED", segment_id |-> 0,
           start_block |-> DataStart, block_count |-> b, record_count |-> n,
           chunk |-> chunk, laid |-> size, era |-> era]
  BY DEF StaleEntry
<1> HIDE DEF b, n, e
<1>5. e \in Entry BY <1>1, <1>2, <1>3, <1>4 DEF Entry
<1>6. QED BY <1>4, <1>5 DEF e, b

LEMMA EmptyData ==
    [b \in DataStart .. NumBlocks - 1 |-> Blank]
       \in [DataStart .. NumBlocks - 1 -> Cell]
  BY BlankTyped

LEMMA UnformattedConsistent ==
    ASSUME NEW d \in Unformatted, NEW l
    PROVE  d \in Disks /\ Consistent(d, l)
<1> DEFINE H == {NoHeader, [NoHeader EXCEPT !.kind = "V1"],
                 [FreshHeader(0) EXCEPT !.kind = "V2other"],
                 [FreshHeader(0) EXCEPT !.block_size = BlockSize + 1]}
           z == Min(ChunkSizes)
           e == StaleEntry(z, 0, 0)
           T == {[g \in Slots |-> e]}
           A == {[b \in DataStart .. NumBlocks - 1 |-> Blank]}
<1>1. d \in [hdr : H, toc : T, data : A] BY DEF Unformatted
<1>2. \A h \in H : h \in Header /\ ~Accepted(h)
  <2>1. NoHeader \in Header /\ NoHeader.kind = "none" BY Plain
  <2>2. FreshHeader(0) \in Header BY Fresh
  <2>3. BlockSize + 1 \in Nat /\ BlockSize + 1 # BlockSize BY Geometry
  <2> DEFINE f == FreshHeader(0)
             k == BlockSize + 1
  <2> HIDE DEF f, k
  <2>4. ~Accepted(NoHeader) BY <2>1 DEF Accepted
  <2>5. [NoHeader EXCEPT !.kind = "V1"] \in Header
        /\ ~Accepted([NoHeader EXCEPT !.kind = "V1"])
    BY <2>1 DEF Accepted, Header
  <2>6. [f EXCEPT !.kind = "V2other"] \in Header
        /\ ~Accepted([f EXCEPT !.kind = "V2other"])
    BY <2>2 DEF Accepted, Header, f
  <2>7. [f EXCEPT !.block_size = k] \in Header
        /\ ~Accepted([f EXCEPT !.block_size = k])
    <3>1. k \in Nat /\ k # BlockSize BY <2>3 DEF k
    <3>2. f \in Header BY <2>2 DEF f
    <3>3. QED BY <3>1, <3>2 DEF Accepted, Header
  <2>8. QED BY <2>1, <2>4, <2>5, <2>6, <2>7 DEF f, k
<1>3. T \subseteq [Slots -> Entry]
  <2>1. z \in ChunkSizes BY MinChunk
  <2> HIDE DEF z
  <2>2. e \in Entry BY <2>1, StaleTyped
  <2> HIDE DEF e
  <2>3. QED BY <2>2
<1>4. A \subseteq [DataStart .. NumBlocks - 1 -> Cell] BY EmptyData
<1> HIDE DEF H, T, A
<1>5. d \in Disks /\ ~Accepted(d.hdr)
  BY <1>1, <1>2, <1>3, <1>4 DEF Disks
<1>6. QED BY <1>5 DEF Consistent

\* The volume an older program recorded one segment to.
LEMMA OlderConsistent ==
    ASSUME NEW size \in ChunkSizes, NEW l
    PROVE  Older(size) \in Disks /\ Consistent(Older(size), l)
<1> DEFINE d == Older(size)
           n == size \div RecLen
           none == [b \in DataStart .. NumBlocks - 1 |-> Blank]
           first == Laid(1, 0, 0, n)
           second == Laid(1, 0, n, n)
           one == Stored(none, DataStart, first, size)
           data == Stored(one, DataStart + size, second, size)
           f == FreshHeader(1)
           b == DataStart + 2 * size
           hdr == [f EXCEPT !.next_segment_id = 1, !.next_data_block = b]
           e == StaleEntry(size, 0, 1)
           toc == [g \in Slots |-> IF g = 0 THEN e ELSE FreeEntry]
<1>1. size \in Nat /\ n \in Nat
  <2>1. size \in Nat /\ RecLen \in Nat /\ RecLen > 0 BY Geometry
  <2>2. QED BY <2>1
<1>2. d = [hdr |-> hdr, toc |-> toc, data |-> data]
  <2>1. f.next_data_block = DataStart /\ f \in Header BY Fresh
  <2>2. [f EXCEPT !.next_segment_id = 1, !.next_data_block = @ + 2 * size]
        = hdr
    <3> HIDE DEF f
    <3>1. QED BY <2>1 DEF Header
  <2> HIDE DEF hdr
  <2>3. QED BY <2>2 DEF Older
<1>3. data \in [DataStart .. NumBlocks - 1 -> Cell]
  <2>1. none \in [DataStart .. NumBlocks - 1 -> Cell] BY EmptyData
  <2> HIDE DEF n
  <2>2. first \in [0 .. n * RecLen - 1 -> Cell] BY <1>1, LaidTyped
  <2>3. second \in [0 .. n * RecLen - 1 -> Cell] BY <1>1, LaidTyped
  <2> HIDE DEF none, first, second
  <2>4. one \in [DataStart .. NumBlocks - 1 -> Cell]
    BY <2>1, <2>2, StoredTyped
  <2> HIDE DEF one
  <2>5. QED BY <2>3, <2>4, StoredTyped
<1>4. /\ hdr \in Header /\ hdr.toc_start = TocStart /\ hdr.era = 1
      /\ hdr.next_segment_id = 1 /\ hdr.next_data_block = b
      /\ b \in Nat /\ b >= DataStart
  <2>1. b \in Nat /\ b >= DataStart BY <1>1, Geometry
  <2>2. f \in Header /\ f.toc_start = TocStart /\ f.era = 1 BY Fresh
  <2> HIDE DEF b, f
  <2>3. QED BY <2>1, <2>2 DEF Header
<1>5. /\ e \in Entry /\ e.segment_id = 0 /\ e.start_block = DataStart
      /\ e.block_count = 2 * size /\ e.era = 1
  BY StaleTyped
<1>6. End(e) = b BY <1>5 DEF End
<1> HIDE DEF hdr, data, e, b
<1>7. toc \in [Slots -> Entry] /\ \A g \in Slots :
         (g = 0 /\ toc[g] = e) \/ (g # 0 /\ ~Visible(toc[g]))
  <2>1. FreeEntry \in Entry /\ ~Visible(FreeEntry) BY Plain
  <2>2. \A g \in Slots : toc[g] = IF g = 0 THEN e ELSE FreeEntry OBVIOUS
  <2>3. toc \in [Slots -> Entry] BY <1>5, <2>1
  <2> HIDE DEF toc
  <2>4. \A g \in Slots : (g = 0 /\ toc[g] = e) \/ (g # 0 /\ ~Visible(toc[g]))
    <3> TAKE g \in Slots
    <3>1. CASE g = 0 BY <2>2, <3>1
    <3>2. CASE g # 0
      <4>1. toc[g] = FreeEntry BY <2>2, <3>2
      <4>2. QED BY <2>1, <3>2, <4>1
    <3>3. QED BY <3>1, <3>2
  <2>5. QED BY <2>3, <2>4
<1> HIDE DEF toc
<1>8. d \in Disks /\ d.hdr = hdr /\ d.toc = toc
  BY <1>2, <1>3, <1>4, <1>7 DEF Disks
<1> HIDE DEF d
<1>9. \A g \in Slots : Visible(d.toc[g]) => g = 0 /\ d.toc[g] = e
  BY <1>7, <1>8
<1>10. \A g \in Slots : Fin(d, g) => g = 0 /\ d.toc[g] = e
  BY <1>9 DEF Fin
<1>11. Apart(d)
  <2>1. b <= d.hdr.next_data_block BY <1>4, <1>8
  <2>2. \A g \in Slots : Fin(d, g) => End(d.toc[g]) <= d.hdr.next_data_block
    BY <1>6, <1>10, <2>1
  <2>3. \A g, h \in Slots : ~(Fin(d, g) /\ Fin(d, h) /\ g < h) BY <1>10
  <2>4. QED BY <2>2, <2>3 DEF Apart
<1>12. d.hdr.next_segment_id <= SegmentSlots BY <1>4, <1>8, Geometry
<1>13. \A g \in Slots : Visible(d.toc[g]) =>
          /\ d.toc[g].era = d.hdr.era
          /\ l.faults = 0 => g <= d.hdr.next_segment_id
  BY <1>4, <1>5, <1>8, <1>9
<1>14. \A g \in Slots : Fin(d, g) =>
          /\ g < d.hdr.next_segment_id /\ d.toc[g].segment_id = g
          /\ d.toc[g].start_block >= DataStart
  BY <1>4, <1>5, <1>8, <1>10, Geometry
<1>15. Consistent(d, l)
  BY <1>4, <1>8, <1>11, <1>12, <1>13, <1>14 DEF Consistent
<1>16. QED BY <1>8, <1>15 DEF d

LEMMA InitVolumeInv == Init => VolumeInv
<1> SUFFICES ASSUME Init PROVE VolumeInv OBVIOUS
<1>1. load \in Loads BY DEF Init, Loads
<1>2. disk \in Disks /\ Consistent(disk, load)
  <2>1. CASE disk \in Unformatted BY <2>1, UnformattedConsistent
  <2>2. CASE \E size \in ChunkSizes : disk = Older(size)
    <3>1. PICK size \in ChunkSizes : disk = Older(size) BY <2>2
    <3>2. QED BY <3>1, OlderConsistent
  <2>3. QED BY <2>1, <2>2 DEF Init
<1>3. Sound(p, disk, load) /\ p.rc = "none" BY OffSound DEF Init
<1>4. Succeeded(p, disk, load) BY <1>3 DEF Succeeded
<1>5. QED BY <1>1, <1>2, <1>3, <1>4 DEF VolumeInv

-----------------------------------------------------------------------------
(* Every step *)

LEMMA NextVolumeInv ==
    ASSUME VolumeInv, Signals = FALSE, [Next]_vars
    PROVE  VolumeInv' /\ Steady(disk, disk')
<1>1. CASE Boot BY <1>1, BootKeeps
<1>2. CASE IoDone BY <1>2, IoDoneKeeps
<1>3. CASE IoFails BY <1>3, IoFailsKeeps
<1>4. CASE FinalizeIo BY <1>4, FinalizeIoKeeps
<1>5. CASE RecordingStart BY <1>5, RecordingStartKeeps
<1>6. CASE RecordingStop BY <1>6, RecordingStopKeeps
<1>7. CASE QuickFormatAsked BY <1>7, QuickFormatAskedKeeps
<1>8. CASE PageAsked BY <1>8, PageAskedKeeps
<1>9. CASE Record BY <1>9, RecordKeeps
<1>10. CASE Interrupt BY <1>10, InterruptKeeps
<1>11. CASE Crash BY <1>11, CrashKeeps
<1>12. CASE UNCHANGED vars
  <2>1. disk' = disk /\ p' = p /\ load' = load BY <1>12 DEF vars
  <2>2. load \in Loads /\ Safe(disk, disk, load) BY ReadSafe
  <2>3. Sound(p, disk, load) /\ Succeeded(p, disk, load) BY DEF VolumeInv
  <2>4. Good(p', disk', load') BY <2>1, <2>2, <2>3 DEF Good
  <2>5. QED BY <2>1, <2>2, <2>4, GoodIsEnough
<1>13. QED
  BY <1>1, <1>2, <1>3, <1>4, <1>5, <1>6, <1>7, <1>8, <1>9, <1>10, <1>11,
     <1>12 DEF Next

\* Whatever processes are started, fail or die, and in whatever order, the
\* device stays consistent and every process knows where it stands on it.
THEOREM VolumeInvAlways ==
    ASSUME Signals = FALSE PROVE Spec => []VolumeInv
<1>1. VolumeInv /\ [Next]_vars => VolumeInv' BY NextVolumeInv
<1>2. QED BY <1>1, InitVolumeInv, PTL DEF Spec

\* The program's state and the device's keep their types: no process reads or
\* writes beyond the device, claims a slot past the TOC, or walks off a segment.
THEOREM VolumeTyped ==
    ASSUME Signals = FALSE PROVE Spec => []TypeOK
<1>1. VolumeInv => TypeOK
  BY DEF VolumeInv, Sound, TypeOK, Disks, Loads
<1>2. QED BY <1>1, VolumeInvAlways, PTL

\* A format zeroes the TOC before it writes the header, and a claim writes the
\* entry before it counts it: an accepted volume never shows an entry of an
\* earlier format, wherever a process was cut short.
THEOREM NoEntryOfAnEarlierFormat ==
    ASSUME Signals = FALSE PROVE Spec => []NoForeignSegment
<1>1. VolumeInv => NoForeignSegment
  BY DEF VolumeInv, Consistent, NoForeignSegment
<1>2. QED BY <1>1, VolumeInvAlways, PTL

\* What a claim hands out is never the header or the TOC, as long as a SIGINT
\* only finalizes what was opened.
THEOREM MarkInDataArea ==
    ASSUME Signals = FALSE PROVE Spec => []HighWaterInDataArea
<1>1. VolumeInv => HighWaterInDataArea
  BY DEF VolumeInv, Consistent, HighWaterInDataArea
<1>2. QED BY <1>1, VolumeInvAlways, PTL

\* Finalized segments keep apart and below the high-water mark, across formats,
\* sessions of the daemon and of the CLI, repairs and deaths in any order.
THEOREM VolumeSegmentsApart ==
    ASSUME Signals = FALSE PROVE Spec => []SegmentsKeepApart
<1>1. ASSUME VolumeInv PROVE SegmentsKeepApart
  <2>1. SUFFICES ASSUME Accepted(disk.hdr), ~load.header_lost,
                        NEW g \in Finalized, NEW h \in Finalized
                 PROVE  /\ disk.toc[g].start_block + disk.toc[g].block_count
                              <= disk.hdr.next_data_block
                        /\ g # h => Extent(disk.toc[g]) \cap
                                    Extent(disk.toc[h]) = {}
    BY DEF SegmentsKeepApart
  <2>2. /\ disk \in Disks /\ Apart(disk) BY <1>1, <2>1 DEF VolumeInv, Consistent
  <2>3. /\ g \in Slots /\ h \in Slots /\ Fin(disk, g) /\ Fin(disk, h)
    BY DEF Finalized, Fin
  <2>4. \A i \in Slots : disk.toc[i].start_block \in Int
                         /\ disk.toc[i].block_count \in Int
    <3>1. \A i \in Slots : disk.toc[i] \in Entry BY <2>2 DEF Disks
    <3>2. QED BY <3>1 DEF Entry
  <2>5. \A i \in Slots : \A x \in Extent(disk.toc[i]) :
           x \in Int /\ disk.toc[i].start_block <= x /\ x < End(disk.toc[i])
    BY <2>4 DEF Extent, End
  <2>6. ASSUME NEW i \in Slots, NEW j \in Slots, Fin(disk, i), Fin(disk, j),
               i < j
        PROVE  Extent(disk.toc[i]) \cap Extent(disk.toc[j]) = {}
    <3>1. End(disk.toc[i]) <= disk.toc[j].start_block
      BY <2>2, <2>6 DEF Apart
    <3>2. End(disk.toc[i]) \in Int /\ disk.toc[j].start_block \in Int
      BY <2>4 DEF End
    <3>3. SUFFICES ASSUME NEW x \in Extent(disk.toc[i]),
                          x \in Extent(disk.toc[j])
                   PROVE  FALSE
      OBVIOUS
    <3>4. x \in Int /\ x < End(disk.toc[i]) /\ disk.toc[j].start_block <= x
      BY <2>5, <3>3
    <3>5. QED BY <3>1, <3>2, <3>4
  <2>7. g # h => Extent(disk.toc[g]) \cap Extent(disk.toc[h]) = {}
    <3>1. g = h \/ g < h \/ h < g BY <2>3, SlotBlock
    <3>2. CASE g < h BY <2>3, <2>6, <3>2
    <3>3. CASE h < g
      <4>1. Extent(disk.toc[h]) \cap Extent(disk.toc[g]) = {}
        BY <2>3, <2>6, <3>3
      <4>2. QED BY <4>1
    <3>4. QED BY <3>1, <3>2, <3>3
  <2>8. End(disk.toc[g]) <= disk.hdr.next_data_block
    BY <2>2, <2>3 DEF Apart
  <2>9. QED BY <2>7, <2>8 DEF End
<1>2. VolumeInv => SegmentsKeepApart BY <1>1
<1>3. QED BY <1>2, VolumeInvAlways, PTL

\* The daemon works on the volume its device holds: a QUICK_FORMAT takes effect
\* in memory when its header is written, and not before.
THEOREM VolumeIsOnDevice ==
    ASSUME Signals = FALSE PROVE Spec => []LiveVolumeIsOnDevice
<1>1. ASSUME VolumeInv, p.up, p.mode = "serve", p.vol.kind = "V2"
      PROVE  p.vol.era = disk.hdr.era
  <2>1. Phase(p, disk, load) BY <1>1 DEF VolumeInv, Sound
  <2>2. ~Formatting(p, disk, load) /\ ~Reading(p, disk)
    BY <1>1 DEF Formatting, Reading
  <2>3. ~Opening(p) BY <1>1, Plain DEF Opening
  <2>4. Mounted(p, disk)
    BY <1>1, <2>1, <2>2, <2>3
    DEF Phase, Claiming, EntryDue, HeaderDue, Claimed, Resting, Writing,
        Session, Finalizing, Stopping, Renewing, Paging
  <2>5. QED BY <2>4 DEF Mounted
<1>2. VolumeInv => LiveVolumeIsOnDevice
  BY <1>1 DEF LiveVolumeIsOnDevice
<1>3. QED BY <1>2, VolumeInvAlways, PTL

\* A format that reports success - --init, with or without --force, or the
\* daemon's QUICK_FORMAT - has left an empty volume with the header it made.
THEOREM FormatLeavesFresh ==
    ASSUME Signals = FALSE PROVE Spec => []FormatSucceedsFresh
<1>1. \A g \in Slots : TocStart + g < DataStart BY SlotBlock
<1>2. VolumeInv => FormatSucceedsFresh
  BY <1>1 DEF VolumeInv, Succeeded, Cleared, FormatSucceedsFresh
<1>3. QED BY <1>2, VolumeInvAlways, PTL

\* No step of any process changes what a finalized entry of the volume in use
\* says, but for the chunk size a repair gives it.
THEOREM FinalizedEntriesKept ==
    ASSUME Signals = FALSE PROVE Spec => FinalizedEntryKept
<1>1. ASSUME VolumeInv, [Next]_vars
      PROVE  \A g \in Finalized :
                Accepted(disk.hdr) /\ Visible(disk'.toc[g]) =>
                   disk'.toc[g] = [disk.toc[g] EXCEPT !.chunk = disk'.toc[g].chunk]
  <2>1. Steady(disk, disk') BY <1>1, NextVolumeInv
  <2>2. QED BY <2>1 DEF Steady, Fin, Finalized
<1>2. VolumeInv /\ [Next]_vars =>
        [\A g \in Finalized :
            Accepted(disk.hdr) /\ Visible(disk'.toc[g]) =>
               disk'.toc[g] = [disk.toc[g] EXCEPT !.chunk = disk'.toc[g].chunk]]_vars
  BY <1>1
<1>3. QED BY <1>2, VolumeInvAlways, PTL DEF Spec, FinalizedEntryKept
=============================================================================
