--------------------------- MODULE Recorder_proofs ---------------------------
(***************************************************************************)
(* Type correctness of Recorder for every value of its constants: no       *)
(* record is ever copied past the end of a write buffer, every buffer      *)
(* index, counter and request stays in its range, and a run of write       *)
(* failures always stops the recording.                                    *)
(*                                                                         *)
(* TypeOK is not inductive: that a record fits the next buffer of the ring *)
(* follows only if every buffer but the current one is empty or in flight  *)
(* (Spare).  The operators of Recorder are treated one lemma each, from    *)
(* the innermost call outwards; Keeps is what every one of them preserves. *)
(*                                                                         *)
(* The second part, from Ample on, is about a daemon's sessions.           *)
(***************************************************************************)
EXTENDS RecorderProperties, FiniteSetTheorems, TLAPS

\* Every buffer but the current one is empty or in flight.
Spare(s) == \A i \in Buffers :
    i # s.cur_buf /\ s.buffers[i].used > 0 => s.buffers[i].in_flight

\* So is the current one.
Quiet(s) == \A i \in Buffers :
    s.buffers[i].used > 0 => s.buffers[i].in_flight

\* FailuresStopRecording, of a context.
Alert(s) ==
    s.recording /\ s.consecutive_write_failures >= Threshold => s.stopping

Good(s) == s \in Context /\ Spare(s)

\* The open segment's slot, and the next one.
Placed(s, t) ==
    /\ t.segment_id = s.segment_id
    /\ t.vol.next_segment_id = s.vol.next_segment_id

Keeps(s, t) ==
    /\ Good(t) /\ Placed(s, t)
    /\ t.cur_buf = s.cur_buf
    /\ Quiet(s) => Quiet(t)
    /\ s.stopping => t.stopping
    /\ Alert(s) => Alert(t)

-----------------------------------------------------------------------------
(* The constants, and what a step leaves alone *)

LEMMA Sizes ==
    /\ WriteBufCount \in Nat /\ WriteBufCount > 0
    /\ BufSize \in Nat /\ BufSize > 0 /\ 0 \in 0 .. BufSize
    /\ Threshold \in Nat /\ Threshold > 0
    /\ 0 \in Buffers
    /\ ServeMode \in BOOLEAN
  BY RecorderAssumption DEF Buffers

LEMMA KeepsReflexive ==
    ASSUME NEW s, Good(s)
    PROVE  Keeps(s, s)
  BY DEF Keeps, Placed

LEMMA KeepsTransitive ==
    ASSUME NEW s, NEW t, NEW u, Keeps(s, t), Keeps(t, u)
    PROVE  Keeps(s, u)
  BY DEF Keeps, Placed

\* A change of fields that say nothing of the buffers, and that leaves the
\* stop as it is, keeps everything.
LEMMA OtherFields ==
    ASSUME NEW s, Good(s), NEW t \in Context,
           t.buffers = s.buffers, t.cur_buf = s.cur_buf,
           t.stopping = s.stopping,
           t.recording = s.recording \/ ~t.recording,
           t.consecutive_write_failures = s.consecutive_write_failures,
           Placed(s, t)
    PROVE  Keeps(s, t)
  BY DEF Good, Keeps, Spare, Quiet, Alert

\* A buffer may be replaced by one that is empty or in flight.
LEMMA PutBuffer ==
    ASSUME NEW s, Good(s), NEW i \in Buffers, NEW b \in WriteBuf,
           b.used = 0 \/ b.in_flight
    PROVE  Keeps(s, [s EXCEPT !.buffers[i] = b])
<1> DEFINE t == [s EXCEPT !.buffers[i] = b]
<1>1. s \in Context /\ s.buffers \in [Buffers -> WriteBuf]
  BY DEF Good, Context
<1>2. t \in Context
  BY <1>1 DEF Context
<1>3. /\ t.cur_buf = s.cur_buf /\ t.stopping = s.stopping
      /\ t.recording = s.recording
      /\ t.consecutive_write_failures = s.consecutive_write_failures
      /\ t.buffers = [s.buffers EXCEPT ![i] = b] /\ Placed(s, t)
  BY <1>1 DEF Context, Placed
<1> HIDE DEF t
<1>4. b.used \in Nat /\ \A j \in Buffers : s.buffers[j].used \in Nat
  BY <1>1, Sizes DEF WriteBuf
<1>5. Spare(t) /\ (Quiet(s) => Quiet(t))
  BY <1>1, <1>3, <1>4 DEF Good, Spare, Quiet
<1>6. Keeps(s, t)
  BY <1>2, <1>3, <1>5 DEF Good, Keeps, Alert
<1>7. QED BY <1>6 DEF t

LEMMA ReleasedKeeps ==
    ASSUME NEW s, Good(s), NEW i \in Buffers
    PROVE  Keeps(s, Released(s, i))
<1> DEFINE b == [s.buffers[i] EXCEPT !.in_flight = FALSE, !.used = 0]
<1>1. s \in Context /\ s.buffers[i] \in WriteBuf BY DEF Good, Context
<1>2. b \in WriteBuf BY <1>1, Sizes DEF WriteBuf
<1>3. Released(s, i) = [s EXCEPT !.buffers[i] = b]
  BY <1>1 DEF Released, Context
<1>4. b.used = 0 BY <1>1 DEF WriteBuf
<1> HIDE DEF b
<1>5. QED BY <1>2, <1>3, <1>4, PutBuffer

LEMMA EmptiedKeeps ==
    ASSUME NEW s, Good(s), NEW i \in Buffers
    PROVE  Keeps(s, [s EXCEPT !.buffers[i].used = 0])
<1> DEFINE b == [s.buffers[i] EXCEPT !.used = 0]
<1>1. s \in Context /\ s.buffers[i] \in WriteBuf BY DEF Good, Context
<1>2. b \in WriteBuf BY <1>1, Sizes DEF WriteBuf
<1>3. [s EXCEPT !.buffers[i].used = 0] = [s EXCEPT !.buffers[i] = b]
  BY <1>1 DEF Context
<1>4. b.used = 0 BY <1>1 DEF WriteBuf
<1> HIDE DEF b
<1>5. QED BY <1>2, <1>3, <1>4, PutBuffer

\* pending_writes may be counted up or down.
LEMMA PendingKeeps ==
    ASSUME NEW s, Good(s), NEW n \in Int
    PROVE  Keeps(s, [s EXCEPT !.pending_writes = n])
<1>1. s \in Context BY DEF Good
<1>2. [s EXCEPT !.pending_writes = n] \in Context BY <1>1 DEF Context
<1>3. QED BY <1>1, <1>2, OtherFields DEF Context, Placed

LEMMA AdvancedKeeps ==
    ASSUME NEW s, Good(s)
    PROVE  Keeps(s, Advanced(s))
<1>1. s \in Context /\ s.next_write_block + 1 \in Nat BY DEF Good, Context
<1>2. Advanced(s) \in Context BY <1>1 DEF Context, Advanced
<1>3. QED BY <1>1, <1>2, OtherFields DEF Context, Advanced, Placed

LEMMA SubmittedKeeps ==
    ASSUME NEW s, Good(s), NEW op \in Ops, NEW id \in Nat, NEW at \in Nat,
           op = "data" => id \in Buffers
    PROVE  Keeps(s, Submitted(s, op, id, at))
<1> DEFINE r == [op |-> op, id |-> id, at |-> at]
<1>1. s \in Context BY DEF Good
<1>2. r \in Request BY DEF Request
<1> HIDE DEF r
<1>3. Submitted(s, op, id, at) = [s EXCEPT !.io = s.io \cup {r}]
  BY <1>1 DEF Submitted, Context, r
<1>4. s.io \cup {r} \in SUBSET Request BY <1>1, <1>2 DEF Context
<1>5. Submitted(s, op, id, at) \in Context BY <1>1, <1>3, <1>4 DEF Context
<1>6. QED BY <1>1, <1>3, <1>5, OtherFields DEF Context, Placed

LEMMA TeardownKeeps ==
    ASSUME NEW s, Good(s)
    PROVE  Keeps(s, Teardown(s))
<1> DEFINE t == Teardown(s)
<1>1. s \in Context BY DEF Good
<1>2. t \in Context BY <1>1 DEF Context, Teardown
<1>3. /\ t.buffers = s.buffers /\ t.cur_buf = s.cur_buf
      /\ t.stopping = s.stopping /\ t.recording = s.recording
      /\ t.consecutive_write_failures = s.consecutive_write_failures
      /\ Placed(s, t)
  BY <1>1 DEF Teardown, Context, Placed
<1> HIDE DEF t
<1>4. Keeps(s, t) BY <1>2, <1>3, OtherFields
<1>5. QED BY <1>4 DEF t

-----------------------------------------------------------------------------
(* Finalize *)

LEMMA FinalizeTocDoneKeeps ==
    ASSUME NEW s, Good(s)
    PROVE  Keeps(s, FinalizeTocDone(s))
<1> DEFINE t == [s EXCEPT !.recording = FALSE]
           u == [t EXCEPT !.admin_req = "none"]
<1>1. s \in Context BY DEF Good
<1>2. t \in Context BY <1>1 DEF Context
<1>3. /\ t.buffers = s.buffers /\ t.cur_buf = s.cur_buf
      /\ t.stopping = s.stopping /\ t.recording = FALSE
      /\ t.consecutive_write_failures = s.consecutive_write_failures
      /\ Placed(s, t)
  BY <1>1 DEF Context, Placed
<1>4. u \in Context BY <1>1 DEF Context
<1>5. /\ u.buffers = s.buffers /\ u.cur_buf = s.cur_buf
      /\ u.stopping = s.stopping /\ u.recording = FALSE
      /\ u.consecutive_write_failures = s.consecutive_write_failures
      /\ Placed(s, u)
  BY <1>1 DEF Context, Placed
<1>6. FinalizeTocDone(s) = Teardown(t) \/ FinalizeTocDone(s) = u
  BY DEF FinalizeTocDone
<1> HIDE DEF t, u
<1>7. Keeps(s, t) /\ Keeps(s, u) BY <1>2, <1>3, <1>4, <1>5, OtherFields
<1>8. Keeps(s, Teardown(t)) BY <1>7, TeardownKeeps, KeepsTransitive DEF Keeps
<1>9. QED BY <1>6, <1>7, <1>8

LEMMA FinalizedEntryType ==
    ASSUME NEW s, Good(s)
    PROVE  FinalizedEntry(s) \in Entry
<1>1. /\ s.segment_start_block \in Nat /\ s.next_write_block \in Nat
      /\ s.record_count \in Nat /\ s.dropped_count \in Nat
  BY DEF Good, Context
<1>2. s.next_write_block - s.segment_start_block \in Int BY <1>1
<1>3. QED BY <1>1, <1>2 DEF FinalizedEntry, Entry

LEMMA FinalizeHeaderDoneKeeps ==
    ASSUME NEW s, Good(s), NEW chain \in Nat, NEW refuse
    PROVE  Keeps(s, FinalizeHeaderDone(s, chain, refuse))
<1> DEFINE e == FinalizedEntry(s)
           t == [s EXCEPT !.io_buf = e]
<1>1. s \in Context BY DEF Good
<1>2. e \in Entry BY FinalizedEntryType
<1> HIDE DEF e
<1>3. t \in Context BY <1>1, <1>2 DEF Context
<1>4. /\ t.buffers = s.buffers /\ t.cur_buf = s.cur_buf
      /\ t.stopping = s.stopping /\ t.recording = s.recording
      /\ t.consecutive_write_failures = s.consecutive_write_failures
      /\ Placed(s, t)
  BY <1>1 DEF Context, Placed
<1>5. \/ FinalizeHeaderDone(s, chain, refuse)
            = Submitted(t, "finToc", chain, s.segment_id)
      \/ FinalizeHeaderDone(s, chain, refuse) = FinalizeTocDone(t)
  BY DEF FinalizeHeaderDone, e
<1> HIDE DEF t
<1>6. Keeps(s, t) BY <1>3, <1>4, OtherFields
<1>7. s.segment_id \in Nat /\ "finToc" \in Ops \ {"data"} BY <1>1 DEF Context, Ops
<1>8. /\ Keeps(t, Submitted(t, "finToc", chain, s.segment_id))
      /\ Keeps(t, FinalizeTocDone(t))
  BY <1>6, <1>7, SubmittedKeeps, FinalizeTocDoneKeeps DEF Keeps
<1>9. QED BY <1>5, <1>6, <1>8, KeepsTransitive

LEMMA FinalizeSegmentKeeps ==
    ASSUME NEW s, Good(s), NEW refuse
    PROVE  Keeps(s, FinalizeSegment(s, refuse))
<1> DEFINE v == [s.vol EXCEPT !.next_data_block = s.next_write_block]
           n == s.chains + 1
           t == [s EXCEPT !.vol = v, !.vol_buf = v, !.chains = n]
<1>1. s \in Context /\ s.vol \in Header /\ s.next_write_block \in Nat
      /\ n \in Nat
  BY DEF Good, Context
<1>2. v \in Header /\ v.next_segment_id = s.vol.next_segment_id
  BY <1>1 DEF Header
<1>3. FinalizeSegment(s, refuse) =
        IF Accepts(t, "hdr", refuse)
        THEN Submitted(t, "finHdr", t.chains, 0)
        ELSE FinalizeHeaderDone(t, t.chains, refuse)
  BY <1>1 DEF FinalizeSegment, Context
<1> HIDE DEF v, n
<1>4. t \in Context BY <1>1, <1>2 DEF Context
<1>5. /\ t.buffers = s.buffers /\ t.cur_buf = s.cur_buf
      /\ t.stopping = s.stopping /\ t.recording = s.recording
      /\ t.consecutive_write_failures = s.consecutive_write_failures
      /\ Placed(s, t)
  BY <1>1, <1>2 DEF Context, Placed
<1> HIDE DEF t
<1>6. Keeps(s, t) BY <1>4, <1>5, OtherFields
<1>7. t.chains \in Nat /\ "finHdr" \in Ops \ {"data"} BY <1>4 DEF Context, Ops
<1>8. /\ Keeps(t, Submitted(t, "finHdr", t.chains, 0))
      /\ Keeps(t, FinalizeHeaderDone(t, t.chains, refuse))
  BY <1>6, <1>7, SubmittedKeeps, FinalizeHeaderDoneKeeps DEF Keeps
<1>9. QED BY <1>3, <1>6, <1>8, KeepsTransitive

LEMMA FinalizeIfDrainedKeeps ==
    ASSUME NEW s, Good(s), NEW refuse
    PROVE  Keeps(s, FinalizeIfDrained(s, refuse))
  BY FinalizeSegmentKeeps, KeepsReflexive DEF FinalizeIfDrained

-----------------------------------------------------------------------------
(* The write path *)

LEMMA HandedOffKeeps ==
    ASSUME NEW s, Good(s), NEW i \in Buffers
    PROVE  /\ Keeps(s, HandedOff(s, i))
           /\ i = s.cur_buf => Quiet(HandedOff(s, i))
<1> DEFINE d == [k \in 0 .. BufSize - 1 |->
                   IF k < s.buffers[i].used THEN s.buffers[i].data[k]
                   ELSE Blank]
           b == [used |-> s.buffers[i].used, in_flight |-> TRUE,
                 target_block |-> s.next_write_block, data |-> d]
           t == [s EXCEPT !.buffers[i] = b]
           n == t.pending_writes + 1
           u == [t EXCEPT !.pending_writes = n]
<1>1. /\ s \in Context /\ s.buffers \in [Buffers -> WriteBuf]
      /\ s.buffers[i] \in WriteBuf /\ s.next_write_block \in Nat
  BY DEF Good, Context
<1>2. Blank \in Cell BY DEF Blank, Cell
<1>3. d \in Chunk BY <1>1, <1>2 DEF WriteBuf, Chunk
<1>4. HandedOff(s, i) = u BY <1>1 DEF HandedOff, Context
<1> HIDE DEF d
<1>5. b \in WriteBuf BY <1>1, <1>3 DEF WriteBuf
<1>6. b.in_flight OBVIOUS
<1> HIDE DEF b
<1>7. Keeps(s, t) BY <1>5, <1>6, PutBuffer
<1>8. t.buffers = [s.buffers EXCEPT ![i] = b] BY <1>1 DEF Context
<1> HIDE DEF t
<1>9. t \in Context /\ n \in Int BY <1>7 DEF Keeps, Good, Context
<1> HIDE DEF n
<1>10. Keeps(t, u) BY <1>7, <1>9, PendingKeeps DEF Keeps
<1>11. u.buffers = t.buffers BY <1>9 DEF Context
<1> HIDE DEF u
<1>12. ASSUME i = s.cur_buf PROVE Quiet(u)
  BY <1>1, <1>6, <1>8, <1>11, <1>12 DEF Quiet, Good, Spare
<1>13. QED BY <1>4, <1>7, <1>10, <1>12, KeepsTransitive
LEMMA WaitForIoKeeps ==
    ASSUME NEW s, Good(s), NEW i \in Buffers
    PROVE  Keeps(s, WaitForIo(s, i))
<1> DEFINE w == s.wait_requeued \/ s.bdev_io_wait # NoBuf
           t == [s EXCEPT !.bdev_io_wait = i, !.wait_requeued = w]
<1>1. s \in Context BY DEF Good
<1>2. w \in BOOLEAN BY <1>1 DEF Context
<1>3. WaitForIo(s, i) = t BY <1>1 DEF WaitForIo, Context
<1> HIDE DEF w
<1>4. t \in Context BY <1>1, <1>2 DEF Context
<1>5. /\ t.buffers = s.buffers /\ t.cur_buf = s.cur_buf
      /\ t.stopping = s.stopping /\ t.recording = s.recording
      /\ t.consecutive_write_failures = s.consecutive_write_failures
      /\ Placed(s, t)
  BY <1>1 DEF Context, Placed
<1> HIDE DEF t
<1>6. QED BY <1>3, <1>4, <1>5, OtherFields

LEMMA IssuedKeeps ==
    ASSUME NEW s, Good(s), NEW i \in Buffers, NEW kind, NEW refuse
    PROVE  Keeps(s, Issued(s, i, kind, refuse))
<1> DEFINE r == Released(s, i)
           n == r.pending_writes - 1
           t == [r EXCEPT !.pending_writes = n]
<1>1. Keeps(s, WaitForIo(s, i)) BY WaitForIoKeeps
<1>2. s.buffers[i].target_block \in Nat
  BY DEF Good, Context, WriteBuf
<1>0. i \in Nat BY Sizes DEF Buffers
<1>3. "data" \in Ops BY DEF Ops
<1>4. Keeps(s, Submitted(s, "data", i, s.buffers[i].target_block))
  BY <1>0, <1>2, <1>3, SubmittedKeeps
<1>5. Issued(s, i, kind, refuse) \in
        {t, WaitForIo(s, i), Submitted(s, "data", i, s.buffers[i].target_block)}
  BY DEF Issued
<1>6. Keeps(s, r) BY ReleasedKeeps
<1> HIDE DEF r
<1>7. n \in Int BY <1>6 DEF Keeps, Good, Context
<1> HIDE DEF n
<1>8. Keeps(r, t) BY <1>6, <1>7, PendingKeeps DEF Keeps
<1> HIDE DEF t
<1>9. QED BY <1>1, <1>4, <1>5, <1>6, <1>8, KeepsTransitive

\* Counting a failure keeps the alert only when the stop has begun.
LEMMA FailureCountedType ==
    ASSUME NEW s, Good(s)
    PROVE  /\ FailureCounted(s) \in Context
           /\ FailureCounted(s).buffers = s.buffers
           /\ FailureCounted(s).cur_buf = s.cur_buf
           /\ FailureCounted(s).stopping = s.stopping
           /\ FailureCounted(s).recording = s.recording
           /\ Placed(s, FailureCounted(s))
<1> DEFINE n == s.consecutive_write_failures + 1
           w == IF n >= Threshold THEN "WRITE_FAILURES" ELSE s.last_stop_reason
           t == [s EXCEPT !.consecutive_write_failures = n,
                          !.last_stop_reason = w]
<1>1. s \in Context /\ n \in Nat BY DEF Good, Context
<1>2. w \in {"NONE", "USER", "DISK_FULL", "COUNT_LIMIT", "WRITE_FAILURES"}
  BY <1>1 DEF Context
<1>3. FailureCounted(s) = t BY <1>1 DEF FailureCounted, Context
<1> HIDE DEF n, w
<1>4. t \in Context BY <1>1, <1>2 DEF Context
<1>5. /\ t.buffers = s.buffers /\ t.cur_buf = s.cur_buf
      /\ t.stopping = s.stopping /\ t.recording = s.recording
      /\ Placed(s, t)
  BY <1>1 DEF Context, Placed
<1> HIDE DEF t
<1>6. QED BY <1>3, <1>4, <1>5

LEMMA FailureCountedKeeps ==
    ASSUME NEW s, Good(s)
    PROVE  /\ Good(FailureCounted(s))
           /\ s.stopping => Keeps(s, FailureCounted(s))
           /\ Quiet(s) => Quiet(FailureCounted(s))
           /\ Placed(s, FailureCounted(s))
  BY FailureCountedType DEF Good, Keeps, Spare, Quiet, Alert

LEMMA FinalFlushKeeps ==
    ASSUME NEW s, Good(s), s.stopping, NEW i \in Buffers, NEW refuse
    PROVE  Keeps(s, FinalFlush(s, i, refuse))
<1> DEFINE e == [s EXCEPT !.buffers[i].used = 0]
           h == HandedOff(s, i)
           t == Issued(h, i, "data", refuse)
           u == FinalizeIfDrained(FailureCounted(t), refuse)
<1>1. FinalFlush(s, i, refuse) \in {s, e, Advanced(u), Advanced(t)}
  BY DEF FinalFlush
<1>2. Keeps(s, s) /\ Keeps(s, e) BY KeepsReflexive, EmptiedKeeps
<1>3. Keeps(s, h) BY HandedOffKeeps
<1> HIDE DEF e, h
<1>4. Keeps(h, t) BY <1>3, IssuedKeeps DEF Keeps
<1>5. Keeps(s, t) BY <1>3, <1>4, KeepsTransitive
<1> HIDE DEF t
<1>6. Keeps(t, FailureCounted(t)) BY <1>5, FailureCountedKeeps DEF Keeps
<1>7. Keeps(FailureCounted(t), u)
  BY <1>6, FinalizeIfDrainedKeeps DEF Keeps
<1> HIDE DEF u
<1>8. Keeps(s, u) BY <1>5, <1>6, <1>7, KeepsTransitive
<1>9. Keeps(s, Advanced(t)) /\ Keeps(s, Advanced(u))
  BY <1>5, <1>8, AdvancedKeeps, KeepsTransitive DEF Keeps
<1>10. QED BY <1>1, <1>2, <1>9

\* A stop keeps everything and leaves the context stopping, so that the alert
\* holds whatever the failure count.
LEMMA StopRecordingKeeps ==
    ASSUME NEW s, Good(s), NEW refuse
    PROVE  /\ Keeps(s, StopRecording(s, refuse))
           /\ StopRecording(s, refuse).stopping
<1> DEFINE p == s.rx_poller /\ ServeMode
           b == [s EXCEPT !.stopping = TRUE, !.rx_poller = p]
           t == FinalFlush(b, s.cur_buf, refuse)
<1>1. s \in Context /\ s.cur_buf \in Buffers /\ s.stopping \in BOOLEAN
  BY DEF Good, Context
<1>2. p \in BOOLEAN BY <1>1, Sizes DEF Context
<1>3. \/ s.stopping /\ StopRecording(s, refuse) = s
      \/ StopRecording(s, refuse) = t
      \/ StopRecording(s, refuse) = FinalizeSegment(t, refuse)
  BY <1>1 DEF StopRecording, Context
<1> HIDE DEF p
<1>4. b \in Context BY <1>1, <1>2 DEF Context
<1>5. /\ b.buffers = s.buffers /\ b.cur_buf = s.cur_buf /\ b.stopping
      /\ Placed(s, b)
  BY <1>1 DEF Context, Placed
<1> HIDE DEF b
<1>6. Keeps(s, b) BY <1>4, <1>5 DEF Good, Keeps, Spare, Quiet, Alert
<1>7. Keeps(b, t) BY <1>1, <1>5, <1>6, FinalFlushKeeps DEF Keeps
<1> HIDE DEF t
<1>8. Keeps(s, t) BY <1>6, <1>7, KeepsTransitive
<1>9. Keeps(t, FinalizeSegment(t, refuse))
  BY <1>8, FinalizeSegmentKeeps DEF Keeps
<1>10. Keeps(s, FinalizeSegment(t, refuse))
  BY <1>8, <1>9, KeepsTransitive
<1>11. t.stopping BY <1>5, <1>7 DEF Keeps
<1>12. FinalizeSegment(t, refuse).stopping BY <1>9, <1>11 DEF Keeps
<1>13. QED BY <1>3, <1>8, <1>10, <1>11, <1>12, KeepsReflexive

LEMMA NoteWriteFailureKeeps ==
    ASSUME NEW s, Good(s), NEW refuse
    PROVE  Keeps(s, NoteWriteFailure(s, refuse))
<1> DEFINE t == FailureCounted(s)
           u == StopRecording(t, refuse)
<1>1. Good(t) /\ (Quiet(s) => Quiet(t)) /\ Placed(s, t)
  BY FailureCountedKeeps
<1>2. t.cur_buf = s.cur_buf /\ t.stopping = s.stopping
  BY FailureCountedType
<1>3. NoteWriteFailure(s, refuse) =
        IF t.consecutive_write_failures >= Threshold THEN u ELSE t
  BY DEF NoteWriteFailure
<1> HIDE DEF t
<1>4. Keeps(t, u) /\ u.stopping BY <1>1, StopRecordingKeeps
<1> HIDE DEF u
<1>5. Keeps(s, u) BY <1>1, <1>2, <1>4 DEF Keeps, Alert, Placed
<1>6. ~(t.consecutive_write_failures >= Threshold) => Keeps(s, t)
  BY <1>1, <1>2 DEF Keeps, Alert
<1>7. QED BY <1>3, <1>5, <1>6

LEMMA RetryFlushKeeps ==
    ASSUME NEW s, Good(s), NEW i \in Buffers, NEW kind, NEW refuse
    PROVE  Keeps(s, RetryFlush(s, i, kind, refuse))
<1> DEFINE t == Issued(s, i, kind, refuse)
           u == NoteWriteFailure(t, refuse)
           v == FinalizeIfDrained(u, refuse)
<1>1. RetryFlush(s, i, kind, refuse) \in {t, v} BY DEF RetryFlush
<1>2. Keeps(s, t) BY IssuedKeeps
<1> HIDE DEF t
<1>3. Keeps(t, u) BY <1>2, NoteWriteFailureKeeps DEF Keeps
<1> HIDE DEF u
<1>4. Keeps(u, v) BY <1>3, FinalizeIfDrainedKeeps DEF Keeps
<1> HIDE DEF v
<1>5. QED BY <1>1, <1>2, <1>3, <1>4, KeepsTransitive

\* Flushing the current buffer, with room on the device, leaves no buffer
\* that holds records and is not in flight.
LEMMA FlushBufferKeeps ==
    ASSUME NEW s, Good(s), HasRoom(s), NEW refuse
    PROVE  /\ Keeps(s, FlushBuffer(s, s.cur_buf, refuse))
           /\ Quiet(FlushBuffer(s, s.cur_buf, refuse))
<1> DEFINE h == HandedOff(s, s.cur_buf)
           t == RetryFlush(h, s.cur_buf, "data", refuse)
<1>1. s.cur_buf \in Buffers BY DEF Good, Context
<1>2. FlushBuffer(s, s.cur_buf, refuse) =
        IF s.buffers[s.cur_buf].used = 0 THEN s ELSE Advanced(t)
  BY DEF FlushBuffer
<1>3. Keeps(s, h) /\ Quiet(h) BY <1>1, HandedOffKeeps
<1> HIDE DEF h
<1>4. Keeps(h, t) BY <1>1, <1>3, RetryFlushKeeps DEF Keeps
<1> HIDE DEF t
<1>5. Keeps(t, Advanced(t)) BY <1>4, AdvancedKeeps DEF Keeps
<1>6. Keeps(s, Advanced(t)) /\ Quiet(Advanced(t))
  BY <1>3, <1>4, <1>5, KeepsTransitive DEF Keeps
<1>7. s.buffers[s.cur_buf].used = 0 => Quiet(s)
  BY DEF Good, Spare, Quiet
<1>8. QED BY <1>2, <1>6, <1>7, KeepsReflexive

LEMMA FreeIoKeeps ==
    ASSUME NEW s, Good(s), NEW r, NEW refuse
    PROVE  Keeps(s, FreeIo(s, r, refuse))
<1> DEFINE o == s.io \ {r}
           t == [s EXCEPT !.io = o]
           w == IF s.wait_requeued THEN s.bdev_io_wait ELSE NoBuf
           u == [t EXCEPT !.bdev_io_wait = w]
           v == RetryFlush(u, s.bdev_io_wait, "retry", refuse)
<1>1. /\ s \in Context /\ o \in SUBSET Request
      /\ s.bdev_io_wait \in Buffers \cup {NoBuf}
  BY DEF Good, Context
<1>2. FreeIo(s, r, refuse) = IF s.bdev_io_wait = NoBuf THEN t ELSE v
  BY <1>1 DEF FreeIo, Context
<1>3. w \in Buffers \cup {NoBuf} BY <1>1
<1> HIDE DEF o, w
<1>4. t \in Context BY <1>1 DEF Context
<1>5. /\ t.buffers = s.buffers /\ t.cur_buf = s.cur_buf
      /\ t.stopping = s.stopping /\ t.recording = s.recording
      /\ t.consecutive_write_failures = s.consecutive_write_failures
      /\ Placed(s, t)
  BY <1>1 DEF Context, Placed
<1> HIDE DEF t
<1>6. Keeps(s, t) BY <1>4, <1>5, OtherFields
<1>7. u \in Context BY <1>3, <1>4 DEF Context
<1>8. /\ u.buffers = t.buffers /\ u.cur_buf = t.cur_buf
      /\ u.stopping = t.stopping /\ u.recording = t.recording
      /\ u.consecutive_write_failures = t.consecutive_write_failures
      /\ Placed(t, u)
  BY <1>4 DEF Context, Placed
<1> HIDE DEF u
<1>9. Keeps(t, u) BY <1>6, <1>7, <1>8, OtherFields DEF Keeps
<1>10. s.bdev_io_wait # NoBuf => Keeps(u, v)
  BY <1>1, <1>9, RetryFlushKeeps DEF Keeps
<1> HIDE DEF v
<1>11. QED BY <1>2, <1>6, <1>9, <1>10, KeepsTransitive

LEMMA WriteCompleteKeeps ==
    ASSUME NEW s, Good(s), NEW r, r.id \in Buffers, NEW ok \in BOOLEAN,
           NEW refuse
    PROVE  Keeps(s, WriteComplete(s, r, ok, refuse))
<1> DEFINE f == FreeIo(s, r, refuse)
           t == Released(f, r.id)
           z == [t EXCEPT !.consecutive_write_failures = 0]
           u == IF ok THEN z ELSE NoteWriteFailure(t, refuse)
           n == u.pending_writes - 1
           v == [u EXCEPT !.pending_writes = n]
<1>1. WriteComplete(s, r, ok, refuse) = FinalizeIfDrained(v, refuse)
  BY DEF WriteComplete
<1>2. Keeps(s, f) BY FreeIoKeeps
<1> HIDE DEF f
<1>3. Keeps(f, t) BY <1>2, ReleasedKeeps DEF Keeps
<1> HIDE DEF t
<1>4. t \in Context BY <1>3 DEF Keeps, Good
<1>5. z \in Context BY <1>4, Sizes DEF Context
<1>6. /\ z.buffers = t.buffers /\ z.cur_buf = t.cur_buf
      /\ z.stopping = t.stopping /\ z.recording = t.recording
      /\ z.consecutive_write_failures = 0 /\ Placed(t, z)
  BY <1>4 DEF Context, Placed
<1> HIDE DEF z
<1>7. Keeps(t, z)
  BY <1>3, <1>5, <1>6, Sizes DEF Good, Keeps, Spare, Quiet, Alert
<1>8. Keeps(t, NoteWriteFailure(t, refuse))
  BY <1>3, NoteWriteFailureKeeps DEF Keeps
<1>9. Keeps(t, u) BY <1>7, <1>8
<1> HIDE DEF u
<1>10. n \in Int BY <1>9 DEF Keeps, Good, Context
<1> HIDE DEF n
<1>11. Keeps(u, v) BY <1>9, <1>10, PendingKeeps DEF Keeps
<1> HIDE DEF v
<1>12. Keeps(v, FinalizeIfDrained(v, refuse))
  BY <1>11, FinalizeIfDrainedKeeps DEF Keeps
<1>13. Keeps(s, v) BY <1>2, <1>3, <1>9, <1>11, KeepsTransitive
<1>14. QED BY <1>1, <1>12, <1>13, KeepsTransitive

-----------------------------------------------------------------------------
(* The capture path: the current buffer moves, so what is preserved is Good *)
(* and the alert; a claim keeps no more, and takes another slot.            *)

Follows(s, t) == Good(t) /\ (Alert(s) => Alert(t))

LEMMA FollowsKeeps ==
    ASSUME NEW s, NEW t, NEW u, Follows(s, t), Keeps(t, u)
    PROVE  Follows(s, u) /\ (Placed(s, t) => Placed(s, u))
  BY DEF Follows, Keeps, Placed

LEMMA OtherFollows ==
    ASSUME NEW s, Good(s), NEW t \in Context,
           t.buffers = s.buffers, t.cur_buf = s.cur_buf,
           t.recording = s.recording, t.stopping = s.stopping,
           t.consecutive_write_failures = s.consecutive_write_failures
    PROVE  Follows(s, t)
  BY DEF Good, Follows, Spare, Alert

LEMMA DroppedKeeps ==
    ASSUME NEW s, Good(s)
    PROVE  Keeps(s, Dropped(s))
<1> DEFINE n == s.dropped_count + 1
           t == [s EXCEPT !.dropped_count = n]
<1>1. s \in Context /\ n \in Nat BY DEF Good, Context
<1>2. Dropped(s) = t BY <1>1 DEF Dropped, Context
<1> HIDE DEF n
<1>3. t \in Context BY <1>1 DEF Context
<1>4. /\ t.buffers = s.buffers /\ t.cur_buf = s.cur_buf
      /\ t.stopping = s.stopping /\ t.recording = s.recording
      /\ t.consecutive_write_failures = s.consecutive_write_failures
      /\ Placed(s, t)
  BY <1>1 DEF Context, Placed
<1> HIDE DEF t
<1>5. QED BY <1>2, <1>3, <1>4, OtherFields

LEMMA ReasonKeeps ==
    ASSUME NEW s, Good(s),
           NEW w \in {"NONE", "USER", "DISK_FULL", "COUNT_LIMIT",
                      "WRITE_FAILURES"}
    PROVE  Keeps(s, [s EXCEPT !.last_stop_reason = w])
<1> DEFINE t == [s EXCEPT !.last_stop_reason = w]
<1>1. s \in Context BY DEF Good
<1>2. t \in Context BY <1>1 DEF Context
<1>3. /\ t.buffers = s.buffers /\ t.cur_buf = s.cur_buf
      /\ t.stopping = s.stopping /\ t.recording = s.recording
      /\ t.consecutive_write_failures = s.consecutive_write_failures
      /\ Placed(s, t)
  BY <1>1 DEF Context, Placed
<1> HIDE DEF t
<1>4. Keeps(s, t) BY <1>2, <1>3, OtherFields
<1>5. QED BY <1>4 DEF t

\* Copying a record into a buffer it fits stays within the buffer.
LEMMA AppendedFollows ==
    ASSUME NEW s, Good(s), NEW size \in Nat,
           s.buffers[s.cur_buf].used + size <= BufSize
    PROVE  Follows(s, Appended(s, size)) /\ Placed(s, Appended(s, size))
<1> DEFINE c == s.cur_buf
           rec == [seg |-> s.segment_id, seq |-> s.record_count, len |-> size]
           d == PutRecord(s.buffers[c].data, s.buffers[c].used, rec)
           m == s.buffers[c].used + size
           b == [s.buffers[c] EXCEPT !.data = d, !.used = m]
           n == s.record_count + 1
           f == [s.buffers EXCEPT ![c] = b]
           t == [s EXCEPT !.record_count = n, !.buffers = f]
<1>1. /\ s \in Context /\ s.buffers \in [Buffers -> WriteBuf]
      /\ c \in Buffers /\ s.buffers[c] \in WriteBuf /\ n \in Nat
      /\ s.segment_id \in Nat /\ s.record_count \in Nat
  BY DEF Good, Context
<1>2. /\ s.buffers[c].used \in 0 .. BufSize /\ s.buffers[c].data \in Chunk
      /\ s.buffers[c].in_flight \in BOOLEAN
  BY <1>1 DEF WriteBuf
<1>3. rec \in Cell /\ Blank \in Cell BY <1>1 DEF Cell, Blank
<1>4. m \in 0 .. BufSize BY <1>2, Sizes
<1>5. Appended(s, size) = t BY <1>1 DEF Appended, Context
<1> HIDE DEF rec, n, c
<1>6. d \in Chunk BY <1>2, <1>3 DEF PutRecord, Chunk
<1> HIDE DEF d, m
<1>7. b \in WriteBuf BY <1>1, <1>4, <1>6 DEF WriteBuf
<1> HIDE DEF b
<1>8. f \in [Buffers -> WriteBuf] BY <1>1, <1>7
<1>9. \A j \in Buffers \ {c} : f[j] = s.buffers[j] BY <1>1
<1> HIDE DEF f
<1>10. t \in Context BY <1>1, <1>8 DEF Context
<1>11. /\ t.buffers = f /\ t.cur_buf = s.cur_buf
       /\ t.stopping = s.stopping /\ t.recording = s.recording
       /\ t.consecutive_write_failures = s.consecutive_write_failures
       /\ Placed(s, t)
  BY <1>1 DEF Context, Placed
<1> HIDE DEF t
<1>12. Spare(t) BY <1>9, <1>11 DEF Spare, Good, c
<1>13. QED BY <1>5, <1>10, <1>11, <1>12 DEF Follows, Good, Alert, Placed

LEMMA RecordedFollows ==
    ASSUME NEW s, Good(s), NEW size \in Nat, NEW refuse,
           s.buffers[s.cur_buf].used + size <= BufSize
    PROVE  /\ Follows(s, Recorded(s, size, refuse))
           /\ Placed(s, Recorded(s, size, refuse))
<1> DEFINE t == Appended(s, size)
           u == [t EXCEPT !.last_stop_reason = "COUNT_LIMIT"]
           v == StopRecording(u, refuse)
<1>1. Recorded(s, size, refuse) \in {t, v} BY DEF Recorded
<1>2. Follows(s, t) /\ Placed(s, t) BY AppendedFollows
<1> HIDE DEF t
<1>3. Keeps(t, u) BY <1>2, ReasonKeeps DEF Follows
<1> HIDE DEF u
<1>4. Keeps(u, v) BY <1>3, StopRecordingKeeps DEF Keeps
<1> HIDE DEF v
<1>5. QED BY <1>1, <1>2, <1>3, <1>4, FollowsKeeps, KeepsTransitive

\* Past the flush every buffer is empty or in flight, so the ring may turn; the
\* buffer it turns to, if it is not in flight, takes any record of its size.
LEMMA NextBufferFollows ==
    ASSUME NEW s, Good(s), HasRoom(s), NEW size \in Nat, NEW refuse
    PROVE  /\ Follows(s, NextBuffer(s, size, refuse))
           /\ Placed(s, NextBuffer(s, size, refuse))
<1> DEFINE f == FlushBuffer(s, s.cur_buf, refuse)
           c == (s.cur_buf + 1) % WriteBufCount
           t == [f EXCEPT !.cur_buf = c]
<1>1. s.cur_buf \in Buffers BY DEF Good, Context
<1>2. c \in Buffers BY <1>1, Sizes DEF Buffers
<1>3. NextBuffer(s, size, refuse) =
        IF t.buffers[t.cur_buf].in_flight \/ size > BufSize
        THEN Dropped(t) ELSE Recorded(t, size, refuse)
  BY DEF NextBuffer
<1> HIDE DEF c
<1>4. Keeps(s, f) /\ Quiet(f) BY FlushBufferKeeps
<1> HIDE DEF f
<1>5. f \in Context BY <1>4 DEF Keeps, Good
<1>6. t \in Context BY <1>2, <1>5 DEF Context
<1>7. /\ t.buffers = f.buffers /\ t.cur_buf = c
      /\ t.stopping = f.stopping /\ t.recording = f.recording
      /\ t.consecutive_write_failures = f.consecutive_write_failures
      /\ Placed(f, t)
  BY <1>5 DEF Context, Placed
<1> HIDE DEF t
<1>8. Follows(s, t) /\ Placed(s, t)
  BY <1>4, <1>6, <1>7 DEF Follows, Keeps, Good, Spare, Quiet, Alert, Placed
<1>9. t.buffers[t.cur_buf].used \in 0 .. BufSize
  BY <1>2, <1>6, <1>7 DEF Context, WriteBuf
<1>10. CASE t.buffers[t.cur_buf].in_flight \/ size > BufSize
  <2>1. Keeps(t, Dropped(t)) BY <1>8, DroppedKeeps DEF Follows
  <2>2. QED BY <1>3, <1>8, <1>10, <2>1, FollowsKeeps
<1>11. CASE ~(t.buffers[t.cur_buf].in_flight \/ size > BufSize)
  <2>1. ~(t.buffers[t.cur_buf].used > 0)
    BY <1>2, <1>4, <1>7, <1>11 DEF Quiet
  <2>2. t.buffers[t.cur_buf].used + size <= BufSize
    BY <1>9, <1>11, <2>1, Sizes
  <2>3. /\ Follows(t, Recorded(t, size, refuse))
        /\ Placed(t, Recorded(t, size, refuse))
    BY <1>8, <2>2, RecordedFollows DEF Follows
  <2>4. QED BY <1>3, <1>8, <1>11, <2>3 DEF Follows, Placed
<1>12. QED BY <1>10, <1>11

LEMMA CapturePollFollows ==
    ASSUME NEW s, Good(s), NEW size \in Nat, NEW refuse
    PROVE  /\ Follows(s, CapturePoll(s, size, refuse))
           /\ Placed(s, CapturePoll(s, size, refuse))
<1> DEFINE b == s.buffers[s.cur_buf]
           d == Dropped(s)
           u == [d EXCEPT !.last_stop_reason = "DISK_FULL"]
           v == StopRecording(u, refuse)
<1>1. CASE b.in_flight
  <2>1. CapturePoll(s, size, refuse) = d BY <1>1 DEF CapturePoll
  <2>2. QED BY <2>1, DroppedKeeps DEF Follows, Keeps
<1>2. CASE ~b.in_flight /\ Fits(b, size)
  <2>1. CapturePoll(s, size, refuse) = Recorded(s, size, refuse)
    BY <1>2 DEF CapturePoll
  <2>2. QED BY <1>2, <2>1, RecordedFollows DEF Fits
<1>3. CASE ~b.in_flight /\ ~Fits(b, size) /\ HasRoom(s)
  <2>1. CapturePoll(s, size, refuse) = NextBuffer(s, size, refuse)
    BY <1>3 DEF CapturePoll
  <2>2. QED BY <1>3, <2>1, NextBufferFollows
<1>4. CASE ~b.in_flight /\ ~Fits(b, size) /\ ~HasRoom(s)
  <2>1. CapturePoll(s, size, refuse) = v BY <1>4 DEF CapturePoll
  <2>2. Keeps(s, d) BY DroppedKeeps
  <2> HIDE DEF d
  <2>3. Keeps(d, u) BY <2>2, ReasonKeeps DEF Keeps
  <2> HIDE DEF u
  <2>4. Keeps(u, v) BY <2>3, StopRecordingKeeps DEF Keeps
  <2> HIDE DEF v
  <2>5. QED BY <2>1, <2>2, <2>3, <2>4, KeepsTransitive DEF Follows, Keeps
<1>5. QED BY <1>1, <1>2, <1>3, <1>4

-----------------------------------------------------------------------------
(* Claiming and starting *)

LEMMA ClaimFailedKeeps ==
    ASSUME NEW s, Good(s)
    PROVE  Keeps(s, ClaimFailed(s))
<1> DEFINE t == [s EXCEPT !.admin_req = "none"]
<1>1. s \in Context BY DEF Good
<1>2. t \in Context BY <1>1 DEF Context
<1>3. /\ t.buffers = s.buffers /\ t.cur_buf = s.cur_buf
      /\ t.stopping = s.stopping /\ t.recording = s.recording
      /\ t.consecutive_write_failures = s.consecutive_write_failures
      /\ Placed(s, t)
  BY <1>1 DEF Context, Placed
<1>4. ClaimFailed(s) \in {t, Teardown(s)} BY DEF ClaimFailed
<1> HIDE DEF t
<1>5. Keeps(s, t) BY <1>2, <1>3, OtherFields
<1>6. QED BY <1>4, <1>5, TeardownKeeps

LEMMA ClaimSegmentStartFollows ==
    ASSUME NEW s, Good(s), NEW refuse
    PROVE  Follows(s, ClaimSegmentStart(s, refuse))
<1> DEFINE e == EmptyEntry("OPEN", s.vol.next_data_block)
           t == [s EXCEPT !.segment_id = s.vol.next_segment_id,
                          !.segment_start_block = s.vol.next_data_block,
                          !.io_buf = e]
<1>1. /\ s \in Context /\ s.vol.next_segment_id \in Nat
      /\ s.vol.next_data_block \in Nat
  BY DEF Good, Context, Header
<1>2. e \in Entry BY <1>1 DEF Entry, EmptyEntry
<1>3. ClaimSegmentStart(s, refuse) \in
        {ClaimFailed(s), ClaimFailed(t),
         Submitted(t, "claimToc", 0, t.segment_id)}
  BY DEF ClaimSegmentStart
<1> HIDE DEF e
<1>4. t \in Context BY <1>1, <1>2 DEF Context
<1>5. /\ t.buffers = s.buffers /\ t.cur_buf = s.cur_buf
      /\ t.stopping = s.stopping /\ t.recording = s.recording
      /\ t.consecutive_write_failures = s.consecutive_write_failures
  BY <1>1 DEF Context
<1> HIDE DEF t
<1>6. Follows(s, t) BY <1>4, <1>5, OtherFollows
<1>7. t.segment_id \in Nat /\ "claimToc" \in Ops \ {"data"} BY <1>4 DEF Context, Ops
<1>8. /\ Keeps(t, ClaimFailed(t))
      /\ Keeps(t, Submitted(t, "claimToc", 0, t.segment_id))
  BY <1>6, <1>7, ClaimFailedKeeps, SubmittedKeeps DEF Follows
<1>9. Keeps(s, ClaimFailed(s)) BY ClaimFailedKeeps
<1>10. QED BY <1>3, <1>6, <1>8, <1>9, FollowsKeeps DEF Follows, Keeps

LEMMA ClaimTocDoneFollows ==
    ASSUME NEW s, Good(s), NEW ok \in BOOLEAN, NEW refuse
    PROVE  Follows(s, ClaimTocDone(s, ok, refuse))
<1> DEFINE n == s.vol.next_segment_id + 1
           v == [s.vol EXCEPT !.next_segment_id = n]
           t == [s EXCEPT !.vol = v, !.vol_buf = v]
<1>1. s \in Context /\ s.vol \in Header /\ n \in Nat
  BY DEF Good, Context, Header
<1>2. v \in Header BY <1>1 DEF Header
<1>3. ClaimTocDone(s, ok, refuse) \in
        {ClaimFailed(s), ClaimFailed(t), Submitted(t, "claimHdr", 0, 0)}
  BY <1>1 DEF ClaimTocDone, Header
<1> HIDE DEF n, v
<1>4. t \in Context BY <1>1, <1>2 DEF Context
<1>5. /\ t.buffers = s.buffers /\ t.cur_buf = s.cur_buf
      /\ t.stopping = s.stopping /\ t.recording = s.recording
      /\ t.consecutive_write_failures = s.consecutive_write_failures
  BY <1>1 DEF Context
<1> HIDE DEF t
<1>6. Follows(s, t) BY <1>4, <1>5, OtherFollows
<1>7. "claimHdr" \in Ops \ {"data"} BY DEF Ops
<1>8. /\ Keeps(t, ClaimFailed(t))
      /\ Keeps(t, Submitted(t, "claimHdr", 0, 0))
  BY <1>6, <1>7, ClaimFailedKeeps, SubmittedKeeps DEF Follows
<1>9. Keeps(s, ClaimFailed(s)) BY ClaimFailedKeeps
<1>10. QED BY <1>3, <1>6, <1>8, <1>9, FollowsKeeps DEF Follows, Keeps

\* A new session begins with every buffer empty and no failure counted.
LEMMA ClaimHeaderDoneFollows ==
    ASSUME NEW s, Good(s), NEW ok \in BOOLEAN
    PROVE  Follows(s, ClaimHeaderDone(s, ok))
<1> DEFINE f == [i \in Buffers |->
                   [s.buffers[i] EXCEPT !.used = 0, !.in_flight = FALSE]]
           t == [s EXCEPT
                   !.next_write_block = s.segment_start_block, !.cur_buf = 0,
                   !.buffers = f, !.record_count = 0, !.dropped_count = 0,
                   !.last_stop_reason = "NONE",
                   !.consecutive_write_failures = 0,
                   !.stopping = FALSE, !.recording = TRUE,
                   !.admin_req = "none"]
           u == [s EXCEPT !.next_write_block = s.segment_start_block,
                          !.rx_poller = TRUE]
<1>1. /\ s \in Context /\ s.buffers \in [Buffers -> WriteBuf]
      /\ s.segment_start_block \in Nat
  BY DEF Good, Context
<1>2. f \in [Buffers -> WriteBuf] BY <1>1, Sizes DEF WriteBuf
<1>3. \A i \in Buffers : f[i].used = 0 BY <1>1 DEF WriteBuf
<1>4. ClaimHeaderDone(s, ok) \in {ClaimFailed(s), t, u}
  BY DEF ClaimHeaderDone
<1> HIDE DEF f
<1>5. t \in Context BY <1>1, <1>2, Sizes DEF Context
<1>6. t.buffers = f /\ t.consecutive_write_failures = 0
  BY <1>1 DEF Context
<1>7. u \in Context BY <1>1 DEF Context
<1>8. /\ u.buffers = s.buffers /\ u.cur_buf = s.cur_buf
      /\ u.stopping = s.stopping /\ u.recording = s.recording
      /\ u.consecutive_write_failures = s.consecutive_write_failures
      /\ Placed(s, u)
  BY <1>1 DEF Context, Placed
<1> HIDE DEF t, u
<1>9. Spare(t) BY <1>3, <1>6 DEF Spare
<1>10. Alert(t) BY <1>6, Sizes DEF Alert
<1>11. Keeps(s, u) BY <1>7, <1>8, OtherFields
<1>12. QED
  BY <1>4, <1>5, <1>9, <1>10, <1>11, ClaimFailedKeeps
  DEF Follows, Keeps, Good

LEMMA FreshGood ==
    ASSUME NEW hdr \in Header
    PROVE  Good(Fresh(hdr)) /\ Alert(Fresh(hdr))
<1> DEFINE b == [used |-> 0, in_flight |-> FALSE, target_block |-> 0,
                 data |-> EmptyChunk]
<1>1. EmptyChunk \in Chunk BY DEF EmptyChunk, Chunk, Blank, Cell
<1>2. b \in WriteBuf BY <1>1, Sizes DEF WriteBuf
<1>3. /\ EmptyBuffers \in [Buffers -> WriteBuf]
      /\ \A i \in Buffers : EmptyBuffers[i].used = 0
  BY <1>2 DEF EmptyBuffers
<1>4. FreeEntry \in Entry BY DEF FreeEntry, EmptyEntry, Entry
<1>5. Fresh(hdr) \in Context BY <1>3, <1>4, Sizes DEF Context, Fresh
<1>6. Fresh(hdr).buffers = EmptyBuffers /\ ~Fresh(hdr).recording
  BY DEF Fresh
<1>7. QED BY <1>3, <1>5, <1>6 DEF Good, Spare, Alert

LEMMA StartedGood ==
    ASSUME NEW hdr \in Header, NEW refuse
    PROVE  Good(Started(hdr, refuse)) /\ Alert(Started(hdr, refuse))
  BY FreshGood, ClaimSegmentStartFollows DEF Started, Follows

LEMMA PerformedType ==
    ASSUME TypeOK, NEW W
    PROVE  Performed(W) \in [hdr : Header, toc : [Slots -> Entry],
                             data : [0 .. NumBlocks - 1 -> Chunk]]
<1>1. /\ ctx.vol_buf \in Header /\ ctx.io_buf \in Entry
      /\ ctx.buffers \in [Buffers -> WriteBuf]
      /\ disk.hdr \in Header /\ disk.toc \in [Slots -> Entry]
      /\ disk.data \in [0 .. NumBlocks - 1 -> Chunk]
  BY DEF TypeOK, Context
<1>2. \A i \in Buffers : ctx.buffers[i].data \in Chunk
  BY <1>1 DEF WriteBuf
<1>3. ASSUME NEW b \in 0 .. NumBlocks - 1,
             \E i \in Buffers : [op |-> "data", id |-> i, at |-> b] \in W
      PROVE  ctx.buffers[CHOOSE i \in Buffers :
               [op |-> "data", id |-> i, at |-> b] \in W].data \in Chunk
  BY <1>2, <1>3
<1>4. QED BY <1>1, <1>3 DEF Performed

-----------------------------------------------------------------------------
(* The invariant *)

IInv == TypeOK /\ Spare(ctx) /\ Alert(ctx)

LEMMA InitIInv == Init => IInv
<1> SUFFICES ASSUME Init PROVE IInv OBVIOUS
<1>1. FormattedHeader \in Header
  BY DEF FormattedHeader, DataStart, Header
<1>2. Good(ctx) /\ Alert(ctx) BY <1>1, StartedGood DEF Init
<1>3. FreeEntry \in Entry BY DEF FreeEntry, EmptyEntry, Entry
<1>4. StaleChunk \in Chunk
  BY RecorderAssumption
  DEF StaleChunk, EmptyChunk, Chunk, Blank, Cell
<1>5. disk \in [hdr : Header, toc : [Slots -> Entry],
                data : [0 .. NumBlocks - 1 -> Chunk]]
  BY <1>1, <1>3, <1>4 DEF Init
<1>6. load \in Load BY DEF Init, Load
<1>7. QED BY <1>2, <1>5, <1>6 DEF IInv, TypeOK, Good

\* The environment's counters only go up.
LEMMA ChargeType ==
    ASSUME load \in Load, NEW refuse, NEW ok, Charge(refuse, ok)
    PROVE  load' \in Load
<1> DEFINE n == IF refuse = {} THEN load.refusals ELSE load.refusals + 1
           m == IF ok THEN load.io_errors ELSE load.io_errors + 1
<1>1. n \in Nat /\ m \in Nat BY DEF Load
<1>2. load' = [load EXCEPT !.refusals = n, !.io_errors = m]
  BY DEF Charge, Load
<1> HIDE DEF n, m
<1>3. QED BY <1>1, <1>2 DEF Load

\* A step that leaves the context a handler leaves preserves the invariant.
LEMMA Step ==
    ASSUME IInv, Follows(ctx, ctx'), load' \in Load,
           disk' \in [hdr : Header, toc : [Slots -> Entry],
                      data : [0 .. NumBlocks - 1 -> Chunk]]
    PROVE  IInv'
  BY DEF IInv, TypeOK, Follows, Good, Spare, Alert

\* What an answer of the device does, whatever its callback then runs.
LEMMA AnsweredType ==
    ASSUME IInv, NEW r, NEW ok \in BOOLEAN, NEW refuse, Answered(r, ok, refuse)
    PROVE  /\ Good(ctx) /\ r \in Request /\ load' \in Load
           /\ disk' \in [hdr : Header, toc : [Slots -> Entry],
                         data : [0 .. NumBlocks - 1 -> Chunk]]
           /\ Keeps(ctx, FreeIo(ctx, r, refuse))
<1>1. Good(ctx) /\ disk \in [hdr : Header, toc : [Slots -> Entry],
                             data : [0 .. NumBlocks - 1 -> Chunk]]
  BY DEF IInv, TypeOK, Good
<1>2. r \in Request BY DEF IInv, TypeOK, Context, Answered
<1>3. load' \in Load BY ChargeType DEF Answered, IInv, TypeOK
<1>4. Performed({r}) \in [hdr : Header, toc : [Slots -> Entry],
                          data : [0 .. NumBlocks - 1 -> Chunk]]
  BY PerformedType DEF IInv
<1>5. disk' = Performed({r}) \/ disk' = disk BY DEF Answered
<1>6. QED BY <1>1, <1>2, <1>3, <1>4, <1>5, FreeIoKeeps

LEMMA NextIInv == IInv /\ [Next]_vars => IInv'
<1> SUFFICES ASSUME IInv, [Next]_vars PROVE IInv' OBVIOUS
<1>1. /\ Good(ctx) /\ load \in Load
      /\ disk \in [hdr : Header, toc : [Slots -> Entry],
                   data : [0 .. NumBlocks - 1 -> Chunk]]
  BY DEF IInv, TypeOK, Good
<1>2. ctx \in Context /\ disk.hdr \in Header BY <1>1 DEF Good
<1>3. CASE Packet
  <2>1. PICK size \in RecSizes, refuse \in SUBSET {"data", "hdr", "toc"} :
          /\ ctx' = CapturePoll(ctx, size, refuse)
          /\ load' = [load EXCEPT !.packets = @ + 1,
                        !.refusals = IF refuse = {} THEN @ ELSE @ + 1]
          /\ UNCHANGED disk
    BY <1>3 DEF Packet
  <2>2. size \in Nat BY RecorderAssumption
  <2>3. Follows(ctx, ctx') BY <1>1, <2>1, <2>2, CapturePollFollows
  <2> DEFINE n == load.packets + 1
             m == IF refuse = {} THEN load.refusals ELSE load.refusals + 1
  <2>4. n \in Nat /\ m \in Nat BY <1>1 DEF Load
  <2>5. load' = [load EXCEPT !.packets = n, !.refusals = m]
    BY <1>1, <2>1 DEF Load
  <2> HIDE DEF n, m
  <2>6. load' \in Load BY <1>1, <2>4, <2>5 DEF Load
  <2>7. QED BY <1>1, <2>1, <2>3, <2>6, Step
<1>4. CASE RecordingStart
  <2> DEFINE s == [ctx EXCEPT !.admin_req = "start"]
  <2>1. PICK refuse \in SUBSET {"toc"} :
          Charge(refuse, TRUE) /\ ctx' = ClaimSegmentStart(s, refuse)
            /\ UNCHANGED disk
    BY <1>4 DEF RecordingStart
  <2>2. Keeps(ctx, s)
    <3>1. s \in Context BY <1>2 DEF Context
    <3>2. /\ s.buffers = ctx.buffers /\ s.cur_buf = ctx.cur_buf
          /\ s.stopping = ctx.stopping /\ s.recording = ctx.recording
          /\ s.consecutive_write_failures = ctx.consecutive_write_failures
          /\ Placed(ctx, s)
      BY <1>2 DEF Context, Placed
    <3> HIDE DEF s
    <3>3. QED BY <1>1, <3>1, <3>2, OtherFields
  <2> HIDE DEF s
  <2>3. Follows(s, ctx') BY <2>1, <2>2, ClaimSegmentStartFollows DEF Keeps
  <2>4. Follows(ctx, ctx') BY <2>2, <2>3 DEF Follows, Keeps
  <2>5. QED BY <1>1, <2>1, <2>4, ChargeType, Step
<1>5. CASE RecordingStop
  <2> DEFINE s == [ctx EXCEPT !.admin_req = "stop",
                              !.last_stop_reason = "USER"]
  <2>1. PICK refuse \in SUBSET {"data", "hdr", "toc"} :
          Charge(refuse, TRUE) /\ ctx' = StopRecording(s, refuse)
            /\ UNCHANGED disk
    BY <1>5 DEF RecordingStop
  <2>2. Keeps(ctx, s)
    <3>1. s \in Context BY <1>2 DEF Context
    <3>2. /\ s.buffers = ctx.buffers /\ s.cur_buf = ctx.cur_buf
          /\ s.stopping = ctx.stopping /\ s.recording = ctx.recording
          /\ s.consecutive_write_failures = ctx.consecutive_write_failures
          /\ Placed(ctx, s)
      BY <1>2 DEF Context, Placed
    <3> HIDE DEF s
    <3>3. QED BY <1>1, <3>1, <3>2, OtherFields
  <2> HIDE DEF s
  <2>3. Keeps(s, ctx') BY <2>1, <2>2, StopRecordingKeeps DEF Keeps
  <2>4. Follows(ctx, ctx') BY <2>2, <2>3 DEF Follows, Keeps
  <2>5. QED BY <1>1, <2>1, <2>4, ChargeType, Step
<1>6. CASE Shutdown
  <2> DEFINE s == [ctx EXCEPT !.shutting_down = TRUE]
  <2>1. PICK refuse \in SUBSET {"data", "hdr", "toc"} :
          /\ Charge(refuse, TRUE) /\ UNCHANGED disk
          /\ ctx' \in {Teardown(s), StopRecording(s, refuse)}
    BY <1>6 DEF Shutdown
  <2>2. Keeps(ctx, s)
    <3>1. s \in Context BY <1>2 DEF Context
    <3>2. /\ s.buffers = ctx.buffers /\ s.cur_buf = ctx.cur_buf
          /\ s.stopping = ctx.stopping /\ s.recording = ctx.recording
          /\ s.consecutive_write_failures = ctx.consecutive_write_failures
          /\ Placed(ctx, s)
      BY <1>2 DEF Context, Placed
    <3> HIDE DEF s
    <3>3. QED BY <1>1, <3>1, <3>2, OtherFields
  <2> HIDE DEF s
  <2>3. Keeps(s, ctx')
    BY <2>1, <2>2, StopRecordingKeeps, TeardownKeeps DEF Keeps
  <2>4. Follows(ctx, ctx') BY <2>2, <2>3 DEF Follows, Keeps
  <2>5. QED BY <1>1, <2>1, <2>4, ChargeType, Step
<1>7. CASE DataWritten
  <2>1. PICK r \in ctx.io, ok \in BOOLEAN, refuse \in SUBSET Refusable :
          /\ Answered(r, ok, refuse) /\ r.op = "data"
          /\ ctx' = WriteComplete(ctx, r, ok, refuse)
    BY <1>7 DEF DataWritten
  <2>2. r.id \in Buffers BY <2>1, AnsweredType DEF Request
  <2>3. Keeps(ctx, ctx') BY <1>1, <2>1, <2>2, WriteCompleteKeeps
  <2>4. QED BY <2>1, <2>3, AnsweredType, Step DEF Keeps, Follows
<1>8. CASE ClaimTocWritten
  <2>1. PICK r \in ctx.io, ok \in BOOLEAN, refuse \in SUBSET Refusable :
          /\ Answered(r, ok, refuse)
          /\ ctx' = ClaimTocDone(FreeIo(ctx, r, refuse), ok, refuse)
    BY <1>8 DEF ClaimTocWritten
  <2>2. Keeps(ctx, FreeIo(ctx, r, refuse)) BY <2>1, AnsweredType
  <2>3. Follows(FreeIo(ctx, r, refuse), ctx')
    BY <2>1, <2>2, ClaimTocDoneFollows DEF Keeps
  <2>4. Follows(ctx, ctx') BY <2>2, <2>3 DEF Keeps, Follows
  <2>5. QED BY <2>1, <2>4, AnsweredType, Step
<1>9. CASE ClaimHeaderWritten
  <2>1. PICK r \in ctx.io, ok \in BOOLEAN, refuse \in SUBSET Refusable :
          /\ Answered(r, ok, refuse)
          /\ ctx' = ClaimHeaderDone(FreeIo(ctx, r, refuse), ok)
    BY <1>9 DEF ClaimHeaderWritten
  <2>2. Keeps(ctx, FreeIo(ctx, r, refuse)) BY <2>1, AnsweredType
  <2>3. Follows(FreeIo(ctx, r, refuse), ctx')
    BY <2>1, <2>2, ClaimHeaderDoneFollows DEF Keeps
  <2>4. Follows(ctx, ctx') BY <2>2, <2>3 DEF Keeps, Follows
  <2>5. QED BY <2>1, <2>4, AnsweredType, Step
<1>10. CASE FinalizeHeaderWritten
  <2>1. PICK r \in ctx.io, ok \in BOOLEAN, refuse \in SUBSET Refusable :
          /\ Answered(r, ok, refuse)
          /\ ctx' = FinalizeHeaderDone(FreeIo(ctx, r, refuse), r.id, refuse)
    BY <1>10 DEF FinalizeHeaderWritten
  <2>2. Keeps(ctx, FreeIo(ctx, r, refuse)) BY <2>1, AnsweredType
  <2>3. r.id \in Nat BY <2>1, AnsweredType DEF Request
  <2>4. Keeps(FreeIo(ctx, r, refuse), ctx')
    BY <2>1, <2>2, <2>3, FinalizeHeaderDoneKeeps DEF Keeps
  <2>5. Keeps(ctx, ctx') BY <2>2, <2>4, KeepsTransitive
  <2>6. QED BY <2>1, <2>5, AnsweredType, Step DEF Keeps, Follows
<1>11. CASE FinalizeTocWritten
  <2>1. PICK r \in ctx.io, ok \in BOOLEAN, refuse \in SUBSET Refusable :
          /\ Answered(r, ok, refuse)
          /\ ctx' = FinalizeTocDone(FreeIo(ctx, r, refuse))
    BY <1>11 DEF FinalizeTocWritten
  <2>2. Keeps(ctx, FreeIo(ctx, r, refuse)) BY <2>1, AnsweredType
  <2>3. Keeps(FreeIo(ctx, r, refuse), ctx')
    BY <2>1, <2>2, FinalizeTocDoneKeeps DEF Keeps
  <2>4. Keeps(ctx, ctx') BY <2>2, <2>3, KeepsTransitive
  <2>5. QED BY <2>1, <2>4, AnsweredType, Step DEF Keeps, Follows
<1>12. CASE Crash
  <2> DEFINE s == Teardown(ctx)
             t == [s EXCEPT !.io = {}]
  <2>1. PICK W \in SUBSET ctx.io :
          disk' = Performed(W) /\ ctx' = t /\ UNCHANGED load
    BY <1>12 DEF Crash
  <2>2. Keeps(ctx, s) BY <1>1, TeardownKeeps
  <2> HIDE DEF s
  <2>3. s \in Context BY <2>2 DEF Keeps, Good
  <2>4. t \in Context BY <2>3 DEF Context
  <2>5. /\ t.buffers = s.buffers /\ t.cur_buf = s.cur_buf
        /\ t.stopping = s.stopping /\ t.recording = s.recording
        /\ t.consecutive_write_failures = s.consecutive_write_failures
        /\ Placed(s, t)
    BY <2>3 DEF Context, Placed
  <2> HIDE DEF t
  <2>6. Keeps(s, t) BY <2>2, <2>4, <2>5, OtherFields DEF Keeps
  <2>7. Keeps(ctx, ctx') BY <2>1, <2>2, <2>6, KeepsTransitive
  <2>8. disk' \in [hdr : Header, toc : [Slots -> Entry],
                   data : [0 .. NumBlocks - 1 -> Chunk]]
    BY <2>1, PerformedType DEF IInv
  <2>9. QED BY <1>1, <2>1, <2>7, <2>8, Step DEF Keeps, Follows
<1>13. CASE Boot
  <2>1. PICK refuse \in SUBSET {"toc"} :
          /\ ctx' = Started(disk.hdr, refuse)
          /\ load' = [load EXCEPT !.boots = @ + 1,
                        !.refusals = IF refuse = {} THEN @ ELSE @ + 1]
          /\ UNCHANGED disk
    BY <1>13 DEF Boot
  <2>2. Follows(ctx, ctx') BY <1>2, <2>1, StartedGood DEF Follows
  <2> DEFINE n == load.boots + 1
             m == IF refuse = {} THEN load.refusals ELSE load.refusals + 1
  <2>3. n \in Nat /\ m \in Nat BY <1>1 DEF Load
  <2>4. load' = [load EXCEPT !.boots = n, !.refusals = m]
    BY <1>1, <2>1 DEF Load
  <2> HIDE DEF n, m
  <2>5. load' \in Load BY <1>1, <2>3, <2>4 DEF Load
  <2>6. QED BY <1>1, <2>1, <2>2, <2>5, Step
<1>14. CASE UNCHANGED vars
  BY <1>14 DEF IInv, TypeOK, Spare, Alert, vars
<1>15. QED
  BY <1>3, <1>4, <1>5, <1>6, <1>7, <1>8, <1>9, <1>10, <1>11, <1>12, <1>13,
     <1>14 DEF Next

\* Type correctness: whatever arrives and whatever fails, every index, counter
\* and request stays in its range; above all no buffer's used passes BufSize,
\* that is, capture_poll never copies a record past the end of a buffer.
THEOREM TypeCorrect == Spec => []TypeOK
<1>1. IInv => TypeOK BY DEF IInv
<1>2. QED BY <1>1, InitIInv, NextIInv, PTL DEF Spec

\* A run of CHRONO_WRITE_FAILURE_THRESHOLD failed writes always stops the
\* recording, in whatever handler the last of them is reported.
THEOREM FailuresStop == Spec => []FailuresStopRecording
<1>1. IInv => FailuresStopRecording
  BY DEF IInv, Alert, FailuresStopRecording
<1>2. QED BY <1>1, InitIInv, NextIInv, PTL DEF Spec

-----------------------------------------------------------------------------
(***************************************************************************)
(* What a daemon's sessions do to the device, for every value of the       *)
(* constants but three: a daemon (ServeMode), a device that refuses no     *)
(* submission (MaxRefusals = 0; with refusals the properties below are     *)
(* false) and a bdev_io pool no smaller than the ring of write buffers.    *)
(* Writes may fail, the process may die and start again, at any point.     *)
(*                                                                         *)
(* The inductive invariant is Session: a running daemon is idle, claiming, *)
(* writing or finalizing, and each of the four says what the device has    *)
(* been asked to do, what pending_writes counts, where the writes go and   *)
(* what the next claim will start from.                                    *)
(***************************************************************************)

\* The hypothesis of this part.  MAX_WRITE_BUFFERS is 32, SPDK's default pool
\* holds 65535 bdev_ios.
Ample == ServeMode /\ MaxRefusals = 0 /\ WriteBufCount <= PoolSize

-----------------------------------------------------------------------------
(* The phases of a session *)

Waiters(s) == IF s.bdev_io_wait = NoBuf THEN 0 ELSE 1

\* No write of a buffer is in progress.
Rest(s) ==
    /\ s.bdev_io_wait = NoBuf /\ ~s.wait_requeued /\ s.pending_writes = 0
    /\ \A i \in Buffers : ~s.buffers[i].in_flight

Idle(s) == ~s.recording /\ s.io = {} /\ Rest(s)

\* A claim keeps the admin slot, so there is one at a time.
Claiming(s) ==
    /\ ~s.recording /\ s.admin_req = "start" /\ Rest(s)
    /\ s.segment_start_block = s.vol.next_data_block
    /\ \/ /\ s.io = {[op |-> "claimToc", id |-> 0, at |-> s.segment_id]}
          /\ s.io_buf = EmptyEntry("OPEN", s.segment_start_block)
       \/ /\ s.io = {[op |-> "claimHdr", id |-> 0, at |-> 0]}
          /\ s.vol_buf = s.vol

\* Block b is the open segment's own.
Inside(s, b) == s.segment_start_block <= b /\ b < s.next_write_block

\* The unused end of a buffer is zero.
Padded(s, i) == \A k \in 0 .. BufSize - 1 :
    s.buffers[i].used <= k => s.buffers[i].data[k] = Blank

\* n completions have been taken from the device and are not yet counted.
Counted(s, n) ==
    /\ ~s.wait_requeued
    /\ IsFiniteSet(s.io) /\ Cardinality(s.io) <= PoolSize
    /\ s.pending_writes = Cardinality(s.io) + Waiters(s) + n

Charted(s) ==
    /\ s.segment_start_block <= s.next_write_block
    /\ s.next_write_block <= NumBlocks
    /\ s.segment_start_block = s.vol.next_data_block
    /\ \A r \in s.io : r.op = "data" /\ Inside(s, r.at)
    /\ \A q, r \in s.io : q.at = r.at => q = r

Held(s) == \A i \in Buffers : s.buffers[i].in_flight =>
    i = s.bdev_io_wait \/ \E r \in s.io : r.id = i

\* Only the flush a stop makes can find the pool empty: it may write a buffer
\* that is in flight a second time.
Queued(s) == s.bdev_io_wait # NoBuf =>
    /\ s.stopping
    /\ Inside(s, s.buffers[s.bdev_io_wait].target_block)
    /\ \A r \in s.io : r.at # s.buffers[s.bdev_io_wait].target_block

\* Up to the stop each write is of a buffer of its own.
Single(s) == ~s.stopping =>
    /\ \A r \in s.io : s.buffers[r.id].in_flight /\ Padded(s, r.id)
    /\ \A q, r \in s.io : q.id = r.id => q = r

Writing(s, n) ==
    /\ s.recording /\ Counted(s, n) /\ Charted(s) /\ Held(s)
    /\ Queued(s) /\ Single(s)

Finalizing(s) ==
    /\ s.recording /\ s.stopping /\ Rest(s)
    /\ s.segment_start_block <= s.next_write_block
    /\ s.next_write_block <= NumBlocks
    /\ s.vol.next_data_block = s.next_write_block

FinalizingHeader(s) ==
    /\ Finalizing(s) /\ s.vol_buf = s.vol
    /\ s.io = {[op |-> "finHdr", id |-> s.chains, at |-> 0]}

FinalizingToc(s) ==
    /\ Finalizing(s) /\ s.io_buf = FinalizedEntry(s)
    /\ s.io = {[op |-> "finToc", id |-> s.chains, at |-> s.segment_id]}

\* A recording: writing, and not yet drained if it is stopping, or at the
\* first write of its finalize chain.
Running(s, n) ==
    \/ Writing(s, n) /\ (s.stopping => s.pending_writes > 0)
    \/ n = 0 /\ FinalizingHeader(s)

Line(s) ==
    /\ s.vol.next_data_block <= NumBlocks
    /\ Idle(s) \/ Claiming(s) \/ Running(s, 0) \/ FinalizingToc(s)

\* A step of a recording stays in its segment.
Stays(s, t) == t.up = s.up /\ t.segment_start_block = s.segment_start_block

\* A buffer in flight stays so and is not changed.
Firm(s, t) == \A i \in Buffers : s.buffers[i].in_flight =>
    t.buffers[i].in_flight /\ t.buffers[i].data = s.buffers[i].data

\* Nor is one that holds nothing.
Untouched(s, t) ==
    /\ Firm(s, t)
    /\ \A i \in Buffers : s.buffers[i].used = 0 =>
          t.buffers[i].data = s.buffers[i].data

SameData(s, t) == \A i \in Buffers : t.buffers[i].data = s.buffers[i].data

-----------------------------------------------------------------------------
(* Handing one buffer to the device *)

LEMMA AmpleSizes ==
    ASSUME Ample
    PROVE  /\ ServeMode /\ PoolSize \in Nat /\ WriteBufCount \in Nat
           /\ WriteBufCount > 0 /\ NumBlocks \in Nat /\ NumBlocks > 0
           /\ BufSize \in Nat /\ BufSize > 0 /\ PoolSize > 0
           /\ WriteBufCount <= PoolSize
           /\ CachedNumBlocks = NumBlocks /\ NoBuf \notin Buffers
           /\ \A i \in Buffers : i \in Nat
  BY RecorderAssumption DEF Ample, CachedNumBlocks, NoBuf, Buffers

LEMMA WritingRests ==
    ASSUME NEW s, NEW t, NEW n, Writing(s, n),
           t.recording = s.recording, t.stopping = s.stopping,
           t.wait_requeued = s.wait_requeued, t.io = s.io,
           t.bdev_io_wait = s.bdev_io_wait, t.buffers = s.buffers,
           t.pending_writes = s.pending_writes, t.vol = s.vol,
           t.next_write_block = s.next_write_block,
           t.segment_start_block = s.segment_start_block
    PROVE  Writing(t, n)
<1>1. Waiters(t) = Waiters(s) BY DEF Waiters
<1>2. \A b : Inside(t, b) <=> Inside(s, b) BY DEF Inside
<1>3. \A i : Padded(t, i) <=> Padded(s, i) BY DEF Padded
<1>4. Counted(t, n) BY <1>1 DEF Writing, Counted
<1>5. Charted(t) BY <1>2 DEF Writing, Charted
<1>6. Held(t) BY DEF Writing, Held
<1>7. Queued(t) BY <1>2 DEF Writing, Queued
<1>8. Single(t) BY <1>3 DEF Writing, Single
<1>9. QED BY <1>4, <1>5, <1>6, <1>7, <1>8 DEF Writing

Handed(s, i) ==
    [used |-> s.buffers[i].used, in_flight |-> TRUE,
     target_block |-> s.next_write_block,
     data |-> [k \in 0 .. BufSize - 1 |->
                 IF k < s.buffers[i].used THEN s.buffers[i].data[k]
                 ELSE Blank]]

\* flush_buffer where the device does not refuse.
Flushed(s, i) == Advanced(Issued(HandedOff(s, i), i, "data", {}))

LEMMA HandedOffFields ==
    ASSUME NEW s, Good(s), NEW i \in Buffers
    PROVE  LET h == HandedOff(s, i)
           IN  /\ Good(h) /\ h.up = s.up /\ h.recording = s.recording
               /\ h.stopping = s.stopping
               /\ h.wait_requeued = s.wait_requeued /\ h.io = s.io
               /\ h.bdev_io_wait = s.bdev_io_wait /\ h.vol = s.vol
               /\ h.next_write_block = s.next_write_block
               /\ h.segment_start_block = s.segment_start_block
               /\ h.pending_writes = s.pending_writes + 1
               /\ h.buffers = [s.buffers EXCEPT ![i] = Handed(s, i)]
               /\ h.cur_buf = s.cur_buf
<1> DEFINE b == Handed(s, i)
           t == [s EXCEPT !.buffers[i] = b]
           n == s.pending_writes + 1
           u == [t EXCEPT !.pending_writes = n]
<1>1. s \in Context BY DEF Good
<1>2. HandedOff(s, i) = u BY <1>1 DEF HandedOff, Context, Handed
<1>3. Good(HandedOff(s, i)) BY HandedOffKeeps DEF Keeps
<1> HIDE DEF b, n
<1>4. /\ u.up = s.up /\ u.recording = s.recording /\ u.stopping = s.stopping
      /\ u.wait_requeued = s.wait_requeued /\ u.io = s.io
      /\ u.bdev_io_wait = s.bdev_io_wait /\ u.vol = s.vol
      /\ u.next_write_block = s.next_write_block
      /\ u.segment_start_block = s.segment_start_block
      /\ u.pending_writes = n /\ u.cur_buf = s.cur_buf
      /\ u.buffers = [s.buffers EXCEPT ![i] = b]
  BY <1>1 DEF Context
<1> HIDE DEF u
<1>5. QED BY <1>2, <1>3, <1>4 DEF b, n

LEMMA FlushedFields ==
    ASSUME Ample, NEW s, Good(s), NEW i \in Buffers, HasRoom(s)
    PROVE  LET u == Flushed(s, i)
               r == [op |-> "data", id |-> i, at |-> s.next_write_block]
           IN  /\ ~Refused(HandedOff(s, i), i, "data", {})
               /\ Good(u) /\ u.up = s.up /\ u.recording = s.recording
               /\ u.stopping = s.stopping /\ u.vol = s.vol
               /\ u.next_write_block = s.next_write_block + 1
               /\ u.segment_start_block = s.segment_start_block
               /\ u.pending_writes = s.pending_writes + 1
               /\ u.buffers = [s.buffers EXCEPT ![i] = Handed(s, i)]
               /\ u.cur_buf = s.cur_buf
               /\ IF Cardinality(s.io) >= PoolSize
                  THEN /\ u.io = s.io /\ u.bdev_io_wait = i
                       /\ u.wait_requeued =
                            (s.wait_requeued \/ s.bdev_io_wait # NoBuf)
                  ELSE /\ u.io = s.io \cup {r}
                       /\ u.bdev_io_wait = s.bdev_io_wait
                       /\ u.wait_requeued = s.wait_requeued
<1> DEFINE h == HandedOff(s, i)
           r == [op |-> "data", id |-> i, at |-> s.next_write_block]
           w == h.wait_requeued \/ h.bdev_io_wait # NoBuf
           p == [h EXCEPT !.bdev_io_wait = i, !.wait_requeued = w]
           q == [h EXCEPT !.io = h.io \cup {r}]
           t == Issued(h, i, "data", {})
           n == s.next_write_block + 1
           u == [t EXCEPT !.next_write_block = n]
<1>1. /\ s.buffers \in [Buffers -> WriteBuf] /\ s.next_write_block \in Nat
      /\ n \in Nat
  BY DEF Good, Context
<1>2. /\ Good(h) /\ h.up = s.up /\ h.recording = s.recording
      /\ h.stopping = s.stopping /\ h.wait_requeued = s.wait_requeued
      /\ h.io = s.io /\ h.bdev_io_wait = s.bdev_io_wait /\ h.vol = s.vol
      /\ h.next_write_block = s.next_write_block
      /\ h.segment_start_block = s.segment_start_block
      /\ h.pending_writes = s.pending_writes + 1
      /\ h.buffers = [s.buffers EXCEPT ![i] = Handed(s, i)]
      /\ h.cur_buf = s.cur_buf
  BY HandedOffFields
<1>3. Handed(s, i).target_block = s.next_write_block BY DEF Handed
<1>4. /\ h.buffers[i].target_block = s.next_write_block
      /\ ~Refused(h, i, "data", {})
  <2> HIDE DEF h
  <2>1. h.buffers[i].target_block = s.next_write_block
    BY <1>1, <1>2, <1>3
  <2>2. QED BY <1>1, <2>1, AmpleSizes DEF Refused, HasRoom
<1>5. Good(t) BY <1>2, IssuedKeeps DEF Keeps
<1> HIDE DEF h
<1>6. t = IF Cardinality(h.io) >= PoolSize THEN p ELSE q
  BY <1>2, <1>4 DEF Issued, WaitForIo, Submitted, Good, Context
<1> HIDE DEF r, w
<1>7. /\ t.up = h.up /\ t.recording = h.recording
      /\ t.stopping = h.stopping /\ t.vol = h.vol
      /\ t.next_write_block = h.next_write_block
      /\ t.segment_start_block = h.segment_start_block
      /\ t.pending_writes = h.pending_writes
      /\ t.buffers = h.buffers /\ t.cur_buf = h.cur_buf
      /\ IF Cardinality(h.io) >= PoolSize
         THEN t.io = h.io /\ t.bdev_io_wait = i /\ t.wait_requeued = w
         ELSE /\ t.io = h.io \cup {r} /\ t.bdev_io_wait = h.bdev_io_wait
              /\ t.wait_requeued = h.wait_requeued
  BY <1>2, <1>6 DEF Good, Context
<1> HIDE DEF t, p, q
<1>8. Flushed(s, i) = u
  BY <1>2, <1>5, <1>7 DEF Flushed, Advanced, Good, Context, h, t
<1>9. Good(Advanced(t)) BY <1>5, AdvancedKeeps DEF Keeps
<1>10. Good(u) BY <1>8, <1>9 DEF Flushed, t, h
<1> HIDE DEF n
<1>11. /\ u.up = t.up /\ u.recording = t.recording
       /\ u.stopping = t.stopping /\ u.vol = t.vol
       /\ u.next_write_block = n
       /\ u.segment_start_block = t.segment_start_block
       /\ u.pending_writes = t.pending_writes
       /\ u.buffers = t.buffers /\ u.cur_buf = t.cur_buf
       /\ u.io = t.io /\ u.bdev_io_wait = t.bdev_io_wait
       /\ u.wait_requeued = t.wait_requeued
  BY <1>5 DEF Good, Context
<1> HIDE DEF u
<1>12. QED BY <1>2, <1>4, <1>7, <1>8, <1>10, <1>11 DEF r, w, n, h

\* Up to the stop, a buffer that is not in flight finds the pool with room.
LEMMA PoolHasRoom ==
    ASSUME Ample, NEW s, Good(s), NEW n, Writing(s, n), ~s.stopping,
           NEW i \in Buffers, ~s.buffers[i].in_flight
    PROVE  Cardinality(s.io) < PoolSize
<1> DEFINE f == [r \in s.io |-> r.id]
           T == Buffers \ {i}
<1>1. s.io \subseteq Request BY DEF Good, Context
<1>2. \A r \in s.io : r.id \in T
  BY <1>1 DEF Writing, Charted, Single, Request
<1>3. f \in Injection(s.io, T)
  BY <1>2 DEF Injection, IsInjective, Writing, Single
<1>4. IsFiniteSet(Buffers) /\ Cardinality(Buffers) = WriteBufCount
  <2>0. WriteBufCount - 1 \in Int /\ ~(0 > WriteBufCount - 1) /\ 0 \in Int
        /\ (WriteBufCount - 1) - 0 + 1 = WriteBufCount
    BY AmpleSizes
  <2>1. IsFiniteSet(0 .. WriteBufCount - 1)
        /\ Cardinality(0 .. WriteBufCount - 1) = WriteBufCount
    BY <2>0, FS_Interval
  <2>2. QED BY <2>1 DEF Buffers
<1>5. IsFiniteSet(T) /\ Cardinality(T) = WriteBufCount - 1
  BY <1>4, FS_RemoveElement
<1> HIDE DEF f, T
<1>6. IsFiniteSet(s.io) /\ Cardinality(s.io) <= Cardinality(T)
  BY <1>3, <1>5, FS_Injection
<1>7. Cardinality(s.io) \in Nat BY <1>6, FS_CardinalityType
<1>8. QED BY <1>5, <1>6, <1>7, AmpleSizes

\* One buffer more is written: to the block next_write_block named.
LEMMA FlushedWrites ==
    ASSUME Ample, NEW s, Good(s), NEW n \in Nat, Writing(s, n),
           NEW i \in Buffers, HasRoom(s), s.bdev_io_wait = NoBuf,
           s.stopping \/ ~s.buffers[i].in_flight
    PROVE  /\ Writing(Flushed(s, i), n)
           /\ Flushed(s, i).pending_writes > 0
           /\ Flushed(s, i).stopping = s.stopping
           /\ ~s.stopping => Flushed(s, i).bdev_io_wait = NoBuf
<1> DEFINE u == Flushed(s, i)
           r == [op |-> "data", id |-> i, at |-> s.next_write_block]
           b == Handed(s, i)
<1>1. /\ s.io \subseteq Request /\ s.buffers \in [Buffers -> WriteBuf]
      /\ s.next_write_block \in Nat /\ s.segment_start_block \in Nat
      /\ s.stopping \in BOOLEAN /\ s.pending_writes \in Int
      /\ s.buffers[i].used \in Nat
  BY DEF Good, Context, WriteBuf
<1>2. /\ Good(u) /\ u.recording = s.recording
      /\ u.stopping = s.stopping /\ u.vol = s.vol
      /\ u.next_write_block = s.next_write_block + 1
      /\ u.segment_start_block = s.segment_start_block
      /\ u.pending_writes = s.pending_writes + 1
      /\ u.buffers = [s.buffers EXCEPT ![i] = b]
      /\ IF Cardinality(s.io) >= PoolSize
         THEN /\ u.io = s.io /\ u.bdev_io_wait = i
              /\ u.wait_requeued = (s.wait_requeued \/ s.bdev_io_wait # NoBuf)
         ELSE /\ u.io = s.io \cup {r} /\ u.bdev_io_wait = s.bdev_io_wait
              /\ u.wait_requeued = s.wait_requeued
  BY FlushedFields
<1>3. /\ b.in_flight /\ b.target_block = s.next_write_block
      /\ b.used = s.buffers[i].used
      /\ \A k \in 0 .. BufSize - 1 : b.used <= k => b.data[k] = Blank
  BY <1>1 DEF Handed
<1>4. r.op = "data" /\ r.id = i /\ r.at = s.next_write_block OBVIOUS
<1> HIDE DEF u, r, b
<1>5. /\ s.recording /\ Counted(s, n) /\ Charted(s) /\ Held(s)
      /\ Queued(s) /\ Single(s)
  BY DEF Writing
<1>6. /\ u.buffers[i] = b
      /\ \A j \in Buffers \ {i} : u.buffers[j] = s.buffers[j]
  BY <1>1, <1>2
<1>7. \A q \in s.io : /\ q.at \in Nat /\ q.at < s.next_write_block
                      /\ s.segment_start_block <= q.at /\ q.op = "data"
                      /\ q.id \in Buffers
  BY <1>1, <1>5 DEF Charted, Inside, Request
<1>8. r \notin s.io BY <1>1, <1>4, <1>7
<1>9. Cardinality(s.io) \in Nat /\ Cardinality(s.io) <= PoolSize
  BY <1>5, FS_CardinalityType DEF Counted
<1>10. /\ IsFiniteSet(s.io \cup {r})
       /\ Cardinality(s.io \cup {r}) = Cardinality(s.io) + 1
  BY <1>5, <1>8, FS_AddElement DEF Counted
<1>11. /\ i # NoBuf /\ PoolSize \in Nat /\ NumBlocks \in Nat
       /\ s.next_write_block + 1 <= NumBlocks
  BY AmpleSizes DEF HasRoom
<1>12. s.pending_writes = Cardinality(s.io) + n
  BY <1>5, <1>9 DEF Counted, Waiters
<1>13. s.segment_start_block <= s.next_write_block
       /\ s.segment_start_block = s.vol.next_data_block
  BY <1>5 DEF Charted
<1>14. CASE Cardinality(s.io) >= PoolSize
  <2>1. /\ u.io = s.io /\ u.bdev_io_wait = i /\ ~u.wait_requeued
    BY <1>2, <1>5, <1>14 DEF Counted
  <2>2. s.stopping BY <1>9, <1>11, <1>14, PoolHasRoom
  <2>3. Counted(u, n)
    BY <1>2, <1>5, <1>9, <1>11, <1>12, <2>1 DEF Counted, Waiters
  <2>4. Charted(u)
    <3>1. \A q \in u.io : q.op = "data" /\ Inside(u, q.at)
      BY <1>1, <1>2, <1>7, <1>13, <2>1 DEF Inside
    <3>2. \A p, q \in u.io : p.at = q.at => p = q
      BY <1>5, <2>1 DEF Charted
    <3>3. QED BY <1>1, <1>2, <1>11, <1>13, <3>1, <3>2 DEF Charted
  <2>5. Held(u)
    BY <1>5, <1>6, <2>1, AmpleSizes DEF Held
  <2>6. Queued(u)
    BY <1>1, <1>2, <1>3, <1>6, <1>7, <1>13, <2>1, <2>2 DEF Queued, Inside
  <2>7. Single(u) BY <1>2, <2>2 DEF Single
  <2>8. QED
    BY <1>2, <1>5, <1>9, <1>12, <2>2, <2>3, <2>4, <2>5, <2>6, <2>7 DEF Writing, u
<1>15. CASE ~(Cardinality(s.io) >= PoolSize)
  <2>1. /\ u.io = s.io \cup {r} /\ u.bdev_io_wait = NoBuf /\ ~u.wait_requeued
    BY <1>2, <1>5, <1>15 DEF Counted
  <2>2. Counted(u, n)
    BY <1>2, <1>5, <1>9, <1>10, <1>11, <1>12, <1>15, <2>1
    DEF Counted, Waiters
  <2>3. Charted(u)
    <3>1. \A q \in u.io : q.op = "data" /\ Inside(u, q.at)
      BY <1>1, <1>2, <1>4, <1>7, <1>13, <2>1 DEF Inside
    <3>2. \A p, q \in u.io : p.at = q.at => p = q
      BY <1>1, <1>4, <1>5, <1>7, <2>1 DEF Charted
    <3>3. QED BY <1>1, <1>2, <1>11, <1>13, <3>1, <3>2 DEF Charted
  <2>4. Held(u)
    <3>1. ASSUME NEW j \in Buffers, u.buffers[j].in_flight
          PROVE  \E q \in u.io : q.id = j
      BY <1>4, <1>5, <1>6, <2>1, <3>1, AmpleSizes DEF Held
    <3>2. QED BY <3>1 DEF Held
  <2>5. Queued(u) BY <2>1 DEF Queued
  <2>6. Single(u)
    <3>1. SUFFICES ASSUME ~s.stopping PROVE Single(u) BY <1>2 DEF Single
    <3>2. \A q \in s.io : q.id # i BY <1>5, <3>1 DEF Single
    <3>3. \A q \in s.io : u.buffers[q.id].in_flight /\ Padded(u, q.id)
      BY <1>5, <1>6, <1>7, <3>1, <3>2 DEF Single, Padded
    <3>4. u.buffers[r.id].in_flight /\ Padded(u, r.id)
      BY <1>3, <1>4, <1>6 DEF Padded
    <3>5. \A p, q \in u.io : p.id = q.id => p = q
      BY <1>4, <1>5, <2>1, <3>1, <3>2 DEF Single
    <3>6. QED BY <2>1, <3>3, <3>4, <3>5 DEF Single
  <2>7. QED
    BY <1>2, <1>5, <1>9, <1>12, <2>1, <2>2, <2>3, <2>4, <2>5, <2>6
    DEF Writing, u
<1>16. QED BY <1>14, <1>15

-----------------------------------------------------------------------------
(* The stop: flush what is left, and finalize once nothing is in progress *)

\* Padding a padded chunk changes nothing.
LEMMA PadTwice ==
    ASSUME NEW c \in Chunk, NEW u \in Nat,
           \A k \in 0 .. BufSize - 1 : u <= k => c[k] = Blank
    PROVE  [k \in 0 .. BufSize - 1 |-> IF k < u THEN c[k] ELSE Blank] = c
<1> DEFINE f == [k \in 0 .. BufSize - 1 |-> IF k < u THEN c[k] ELSE Blank]
<1>1. c = [k \in 0 .. BufSize - 1 |-> c[k]] BY DEF Chunk
<1>2. \A k \in 0 .. BufSize - 1 : f[k] = c[k] OBVIOUS
<1>3. f = [k \in 0 .. BufSize - 1 |-> f[k]] OBVIOUS
<1> HIDE DEF f
<1>4. f = c BY <1>1, <1>2, <1>3
<1>5. QED BY <1>4 DEF f

LEMMA FinalFlushWrites ==
    ASSUME Ample, NEW s, Good(s), NEW n \in Nat, Writing(s, n), s.stopping,
           s.bdev_io_wait = NoBuf, NEW i \in Buffers,
           s.buffers[i].in_flight => Padded(s, i)
    PROVE  LET t == FinalFlush(s, i, {})
           IN  /\ Good(t) /\ Writing(t, n) /\ t.stopping
               /\ Stays(s, t) /\ Untouched(s, t)
<1> DEFINE t == FinalFlush(s, i, {})
           e == [s EXCEPT !.buffers[i].used = 0]
           u == Flushed(s, i)
<1>1. /\ s \in Context /\ s.buffers \in [Buffers -> WriteBuf]
      /\ \A j \in Buffers : s.buffers[j] \in WriteBuf
      /\ s.buffers[i].used \in Nat /\ s.buffers[i].data \in Chunk
  BY DEF Good, Context, WriteBuf
<1>2. Good(t) BY FinalFlushKeeps DEF Keeps
<1>3. CASE s.buffers[i].used = 0
  <2>1. t = s BY <1>3 DEF FinalFlush
  <2> HIDE DEF t
  <2>2. QED BY <1>2, <2>1 DEF Stays, Untouched, Firm, t
<1>4. CASE s.buffers[i].used # 0 /\ ~HasRoom(s)
  <2>1. t = e BY <1>4 DEF FinalFlush
  <2>2. /\ e.recording = s.recording /\ e.stopping = s.stopping
        /\ e.wait_requeued = s.wait_requeued /\ e.io = s.io
        /\ e.bdev_io_wait = s.bdev_io_wait /\ e.vol = s.vol
        /\ e.pending_writes = s.pending_writes /\ e.up = s.up
        /\ e.next_write_block = s.next_write_block
        /\ e.segment_start_block = s.segment_start_block
        /\ \A j \in Buffers :
              /\ e.buffers[j].in_flight = s.buffers[j].in_flight
              /\ e.buffers[j].data = s.buffers[j].data
    BY <1>1 DEF Context, WriteBuf
  <2> HIDE DEF t, e
  <2>3. Waiters(e) = Waiters(s) /\ \A b : Inside(e, b) <=> Inside(s, b)
    BY <2>2 DEF Waiters, Inside
  <2>4. Counted(e, n) BY <2>2, <2>3 DEF Writing, Counted
  <2>5. Charted(e) BY <2>2, <2>3 DEF Writing, Charted
  <2>6. Held(e) BY <2>2 DEF Writing, Held
  <2>7. Queued(e) /\ Single(e) BY <2>2 DEF Queued, Single
  <2>8. QED
    BY <1>2, <2>1, <2>2, <2>4, <2>5, <2>6, <2>7
    DEF Writing, Stays, Untouched, Firm, t
<1>5. CASE s.buffers[i].used # 0 /\ HasRoom(s)
  <2>1. ~Refused(HandedOff(s, i), i, "data", {})
    BY <1>5, FlushedFields
  <2>2. t = u BY <1>5, <2>1 DEF FinalFlush, Flushed
  <2>3. /\ u.up = s.up /\ u.segment_start_block = s.segment_start_block
        /\ u.buffers = [s.buffers EXCEPT ![i] = Handed(s, i)]
    BY <1>5, FlushedFields
  <2>4. Writing(u, n) /\ u.stopping BY <1>5, FlushedWrites
  <2>5. Handed(s, i).in_flight BY DEF Handed
  <2>6. ASSUME s.buffers[i].in_flight
        PROVE  Handed(s, i).data = s.buffers[i].data
    <3>1. Handed(s, i).data =
            [k \in 0 .. BufSize - 1 |->
               IF k < s.buffers[i].used THEN s.buffers[i].data[k] ELSE Blank]
      BY DEF Handed
    <3>2. QED BY <1>1, <2>6, <3>1, PadTwice DEF Padded
  <2> HIDE DEF t, u
  <2>7. Untouched(s, u)
    BY <1>1, <1>5, <2>3, <2>5, <2>6 DEF Untouched, Firm
  <2>8. QED BY <1>2, <2>2, <2>3, <2>4, <2>7 DEF Stays, t
<1>6. QED BY <1>3, <1>4, <1>5

\* The header write is the only one outstanding: the pool has room for it.
LEMMA FinalizeSegmentRuns ==
    ASSUME Ample, NEW s, Good(s), Writing(s, 0), s.stopping,
           s.pending_writes = 0
    PROVE  LET t == FinalizeSegment(s, {})
           IN  FinalizingHeader(t) /\ Stays(s, t) /\ t.buffers = s.buffers
<1> DEFINE v == [s.vol EXCEPT !.next_data_block = s.next_write_block]
           c == s.chains + 1
           t == [s EXCEPT !.vol = v, !.vol_buf = v, !.chains = c]
           r == [op |-> "finHdr", id |-> c, at |-> 0]
           u == [t EXCEPT !.io = t.io \cup {r}]
<1>1. /\ s \in Context /\ s.vol \in Header /\ s.next_write_block \in Nat
      /\ s.segment_start_block \in Nat /\ s.chains \in Nat
  BY DEF Good, Context
<1>2. IsFiniteSet(s.io) /\ Cardinality(s.io) \in Nat
  BY FS_CardinalityType DEF Writing, Counted
<1>3. /\ Waiters(s) \in {0, 1} /\ (Waiters(s) = 0 => s.bdev_io_wait = NoBuf)
      /\ s.pending_writes = Cardinality(s.io) + Waiters(s) + 0
  BY DEF Waiters, Writing, Counted
<1>4. Cardinality(s.io) = 0 /\ s.bdev_io_wait = NoBuf BY <1>2, <1>3
<1>5. s.io = {} BY <1>2, <1>4, FS_EmptySet
<1>6. FinalizeSegment(s, {}) = IF Accepts(t, "hdr", {})
                               THEN Submitted(t, "finHdr", t.chains, 0)
                               ELSE FinalizeHeaderDone(t, t.chains, {})
  BY <1>1 DEF FinalizeSegment, Context
<1>7. v.next_data_block = s.next_write_block BY <1>1 DEF Header
<1>8. v \in Header /\ c \in Nat BY <1>1 DEF Header
<1> HIDE DEF v, c
<1>9. /\ t.up = s.up /\ t.recording = s.recording /\ t.stopping = s.stopping
      /\ t.wait_requeued = s.wait_requeued /\ t.io = s.io
      /\ t.bdev_io_wait = s.bdev_io_wait /\ t.vol = v /\ t.vol_buf = v
      /\ t.pending_writes = s.pending_writes /\ t.buffers = s.buffers
      /\ t.next_write_block = s.next_write_block
      /\ t.segment_start_block = s.segment_start_block
      /\ t.chains = c
  BY <1>1 DEF Context
<1>10. t \in Context BY <1>1, <1>8 DEF Context
<1> HIDE DEF t
<1>11. Accepts(t, "hdr", {})
  BY <1>4, <1>9, AmpleSizes DEF Accepts
<1>12. FinalizeSegment(s, {}) = u
  BY <1>6, <1>9, <1>10, <1>11 DEF Submitted, Context
<1> HIDE DEF r
<1>13. /\ u.up = t.up /\ u.recording = t.recording
       /\ u.stopping = t.stopping /\ u.wait_requeued = t.wait_requeued
       /\ u.bdev_io_wait = t.bdev_io_wait /\ u.vol = t.vol
       /\ u.vol_buf = t.vol_buf /\ u.io = t.io \cup {r}
       /\ u.pending_writes = t.pending_writes /\ u.buffers = t.buffers
       /\ u.next_write_block = t.next_write_block
       /\ u.segment_start_block = t.segment_start_block
       /\ u.chains = t.chains
  BY <1>10 DEF Context
<1> HIDE DEF u
<1>14. u.io = {r} BY <1>5, <1>9, <1>13
<1>15. Rest(u)
  BY <1>4, <1>5, <1>9, <1>13, AmpleSizes DEF Rest, Writing, Counted, Held
<1>16. /\ s.segment_start_block <= s.next_write_block
       /\ s.next_write_block <= NumBlocks /\ s.recording
  BY DEF Writing, Charted
<1>17. FinalizingHeader(u)
  BY <1>7, <1>9, <1>13, <1>14, <1>15, <1>16
  DEF Finalizing, FinalizingHeader, r
<1>18. QED BY <1>9, <1>12, <1>13, <1>17 DEF Stays

\* What a running recording's pending_writes may be.
LEMMA PendingBound ==
    ASSUME NEW s, NEW n \in Nat, Writing(s, n)
    PROVE  s.pending_writes \in Nat /\ s.pending_writes >= n
<1>1. Cardinality(s.io) \in Nat
  BY FS_CardinalityType DEF Writing, Counted
<1>2. Waiters(s) \in Nat BY DEF Waiters
<1>3. QED BY <1>1, <1>2 DEF Writing, Counted

\* With a completion still to count, or a write left, the stop only flushes;
\* with nothing left it finalizes.
LEMMA StopRecordingRuns ==
    ASSUME Ample, NEW s, Good(s), NEW n \in {0, 1}, Writing(s, n),
           ~s.stopping
    PROVE  LET t == StopRecording(s, {})
           IN  /\ Good(t) /\ Running(t, n) /\ t.stopping
               /\ Stays(s, t) /\ Untouched(s, t)
<1> DEFINE p == s.rx_poller /\ ServeMode
           b == [s EXCEPT !.stopping = TRUE, !.rx_poller = p]
           f == FinalFlush(b, s.cur_buf, {})
           t == StopRecording(s, {})
<1>1. s \in Context /\ s.cur_buf \in Buffers BY DEF Good, Context
<1>2. p \in BOOLEAN BY <1>1, Sizes DEF Context
<1>3. t = IF f.pending_writes = 0 THEN FinalizeSegment(f, {}) ELSE f
  BY <1>1 DEF StopRecording, Context
<1>4. Good(t) BY StopRecordingKeeps DEF Keeps
<1> HIDE DEF p, t
<1>5. b \in Context BY <1>1, <1>2 DEF Context
<1>6. /\ b.up = s.up /\ b.recording = s.recording /\ b.stopping
      /\ b.wait_requeued = s.wait_requeued /\ b.io = s.io
      /\ b.bdev_io_wait = s.bdev_io_wait /\ b.vol = s.vol
      /\ b.pending_writes = s.pending_writes /\ b.buffers = s.buffers
      /\ b.next_write_block = s.next_write_block
      /\ b.segment_start_block = s.segment_start_block
      /\ b.cur_buf = s.cur_buf
  BY <1>1 DEF Context
<1> HIDE DEF b
<1>7. Good(b) BY <1>5, <1>6 DEF Good, Spare
<1>8. Waiters(b) = Waiters(s) /\ \A x : Inside(b, x) <=> Inside(s, x)
  BY <1>6 DEF Waiters, Inside
<1>9. s.bdev_io_wait = NoBuf BY DEF Writing, Queued
<1>10. Writing(b, n)
  <2>1. Counted(b, n) BY <1>6, <1>8 DEF Writing, Counted
  <2>2. Charted(b) BY <1>6, <1>8 DEF Writing, Charted
  <2>3. Held(b) BY <1>6 DEF Writing, Held
  <2>4. Queued(b) /\ Single(b) BY <1>6, <1>9 DEF Queued, Single
  <2>5. QED BY <1>6, <2>1, <2>2, <2>3, <2>4 DEF Writing
<1>11. b.buffers[s.cur_buf].in_flight => Padded(b, s.cur_buf)
  BY <1>1, <1>6, <1>9, AmpleSizes DEF Writing, Held, Single, Padded
<1>12. /\ Good(f) /\ Writing(f, n) /\ f.stopping /\ Stays(b, f)
       /\ Untouched(b, f)
  BY <1>1, <1>6, <1>7, <1>9, <1>10, <1>11, FinalFlushWrites
<1> HIDE DEF f
<1>13. Stays(s, f) /\ Untouched(s, f)
  BY <1>6, <1>12 DEF Stays, Untouched, Firm
<1>14. CASE f.pending_writes = 0
  <2>1. n = 0 BY <1>12, <1>14, PendingBound
  <2>2. /\ FinalizingHeader(t) /\ Stays(f, t) /\ t.buffers = f.buffers
    BY <1>3, <1>12, <1>14, <2>1, FinalizeSegmentRuns
  <2>3. QED
    BY <1>4, <1>13, <2>1, <2>2
    DEF Running, FinalizingHeader, Finalizing, Stays, Untouched, Firm,
        t
<1>15. CASE f.pending_writes # 0
  <2>1. f.pending_writes > 0 BY <1>12, <1>15, PendingBound
  <2>2. QED BY <1>3, <1>4, <1>12, <1>13, <1>15, <2>1 DEF Running, t
<1>16. QED BY <1>14, <1>15

LEMMA FinalizeIfDrainedRuns ==
    ASSUME Ample, NEW s, Good(s), Writing(s, 0)
    PROVE  LET t == FinalizeIfDrained(s, {})
           IN  Running(t, 0) /\ Stays(s, t) /\ t.buffers = s.buffers
<1> DEFINE t == FinalizeIfDrained(s, {})
<1>1. CASE s.stopping /\ s.pending_writes = 0
  <2>1. t = FinalizeSegment(s, {}) BY <1>1 DEF FinalizeIfDrained
  <2> HIDE DEF t
  <2>2. QED BY <1>1, <2>1, FinalizeSegmentRuns DEF Running, t
<1>2. CASE ~(s.stopping /\ s.pending_writes = 0)
  <2>1. t = s BY <1>2 DEF FinalizeIfDrained
  <2>2. s.stopping => s.pending_writes > 0 BY <1>2, PendingBound
  <2> HIDE DEF t
  <2>3. QED BY <2>1, <2>2 DEF Running, Stays, t
<1>3. QED BY <1>1, <1>2

\* A failed write may be what stops the recording; its own completion is not
\* counted yet, so the stop it makes never finalizes.
LEMMA NoteWriteFailureRuns ==
    ASSUME Ample, NEW s, Good(s), Writing(s, 1)
    PROVE  LET t == NoteWriteFailure(s, {})
           IN  /\ Good(t) /\ Writing(t, 1) /\ Stays(s, t)
               /\ Untouched(s, t)
               /\ s.stopping => SameData(s, t)
<1> DEFINE f == FailureCounted(s)
           n == s.consecutive_write_failures + 1
           w == IF n >= Threshold THEN "WRITE_FAILURES" ELSE s.last_stop_reason
           t == NoteWriteFailure(s, {})
<1>1. s \in Context BY DEF Good
<1>2. f = [s EXCEPT !.consecutive_write_failures = n,
                    !.last_stop_reason = w]
  BY <1>1 DEF FailureCounted, Context
<1>3. t = IF f.consecutive_write_failures >= Threshold
          THEN StopRecording(f, {}) ELSE f
  BY DEF NoteWriteFailure
<1>4. Good(t) /\ Good(f)
  BY NoteWriteFailureKeeps, FailureCountedKeeps DEF Keeps
<1> HIDE DEF n, w, f, t
<1>5. /\ f.up = s.up /\ f.recording = s.recording
      /\ f.stopping = s.stopping
      /\ f.wait_requeued = s.wait_requeued /\ f.io = s.io
      /\ f.bdev_io_wait = s.bdev_io_wait /\ f.vol = s.vol
      /\ f.pending_writes = s.pending_writes /\ f.buffers = s.buffers
      /\ f.next_write_block = s.next_write_block
      /\ f.segment_start_block = s.segment_start_block
  BY <1>1, <1>2 DEF Context
<1>6. Writing(f, 1) BY <1>5, WritingRests
<1>7. Stays(s, f) /\ Untouched(s, f) /\ SameData(s, f)
  BY <1>5 DEF Stays, Untouched, Firm, SameData
<1>8. CASE t = f
  BY <1>4, <1>6, <1>7, <1>8 DEF t
<1>9. CASE t = StopRecording(f, {})
  <2>1. CASE f.stopping
    <3>1. t = f BY <1>9, <2>1 DEF StopRecording
    <3>2. QED BY <1>8, <3>1
  <2>2. CASE ~f.stopping
    <3>1. Running(t, 1) /\ Stays(f, t) /\ Untouched(f, t)
      BY <1>4, <1>6, <1>9, <2>2, StopRecordingRuns
    <3>2. Writing(t, 1) BY <3>1 DEF Running
    <3>3. Stays(s, t) /\ Untouched(s, t)
      BY <1>5, <3>1 DEF Stays, Untouched, Firm
    <3>4. QED BY <1>4, <1>5, <2>2, <3>2, <3>3 DEF t
  <2>3. QED BY <2>1, <2>2
<1>10. QED BY <1>3, <1>8, <1>9

-----------------------------------------------------------------------------
(* A completion *)

LEMMA FreeIoFields ==
    ASSUME Ample, NEW s, Good(s), Writing(s, 0), NEW r \in s.io
    PROVE  LET u == FreeIo(s, r, {})
               w == s.bdev_io_wait
               q == [op |-> "data", id |-> w,
                     at |-> s.buffers[w].target_block]
           IN  /\ Good(u) /\ u.up = s.up /\ u.recording = s.recording
               /\ u.stopping = s.stopping /\ ~u.wait_requeued
               /\ u.vol = s.vol /\ u.pending_writes = s.pending_writes
               /\ u.buffers = s.buffers /\ u.bdev_io_wait = NoBuf
               /\ u.next_write_block = s.next_write_block
               /\ u.segment_start_block = s.segment_start_block
               /\ u.io = IF w = NoBuf THEN s.io \ {r}
                         ELSE (s.io \ {r}) \cup {q}
<1> DEFINE w == s.bdev_io_wait
           q == [op |-> "data", id |-> w, at |-> s.buffers[w].target_block]
           o == s.io \ {r}
           t == [s EXCEPT !.io = o]
           v == [t EXCEPT !.bdev_io_wait = NoBuf]
           z == [v EXCEPT !.io = v.io \cup {q}]
           u == FreeIo(s, r, {})
<1>1. s \in Context /\ ~s.wait_requeued /\ Good(u)
  BY FreeIoKeeps DEF Good, Writing, Counted, Keeps
<1>2. u = IF w = NoBuf THEN t ELSE RetryFlush(v, w, "retry", {})
  BY <1>1 DEF FreeIo, Context
<1>3. /\ IsFiniteSet(s.io) /\ Cardinality(s.io) \in Nat
      /\ Cardinality(s.io) <= PoolSize
  BY FS_CardinalityType DEF Writing, Counted
<1>4. Cardinality(o) < PoolSize /\ Cardinality(o) \in Nat
  <2>1. IsFiniteSet(o) /\ Cardinality(o) = Cardinality(s.io) - 1
    BY <1>3, FS_RemoveElement
  <2>2. Cardinality(o) \in Nat BY <2>1, FS_CardinalityType
  <2>3. QED BY <1>3, <2>1, <2>2, AmpleSizes
<1>5. /\ w \in Buffers \cup {NoBuf} /\ s.buffers \in [Buffers -> WriteBuf]
      /\ s.next_write_block \in Nat
  BY <1>1 DEF Context
<1>6. w # NoBuf => /\ s.buffers[w].target_block \in Nat
                   /\ s.buffers[w].target_block < s.next_write_block
                   /\ s.next_write_block <= NumBlocks
  BY <1>5 DEF Writing, Queued, Inside, Charted, WriteBuf
<1> HIDE DEF o, u, w
<1>7. /\ t.up = s.up /\ t.recording = s.recording
      /\ t.stopping = s.stopping /\ t.wait_requeued = s.wait_requeued
      /\ t.vol = s.vol /\ t.pending_writes = s.pending_writes
      /\ t.buffers = s.buffers /\ t.bdev_io_wait = s.bdev_io_wait
      /\ t.next_write_block = s.next_write_block
      /\ t.segment_start_block = s.segment_start_block /\ t.io = o
  BY <1>1 DEF Context
<1>8. /\ v.up = s.up /\ v.recording = s.recording
      /\ v.stopping = s.stopping /\ v.wait_requeued = s.wait_requeued
      /\ v.vol = s.vol /\ v.pending_writes = s.pending_writes
      /\ v.buffers = s.buffers /\ v.bdev_io_wait = NoBuf
      /\ v.next_write_block = s.next_write_block
      /\ v.segment_start_block = s.segment_start_block /\ v.io = o
  BY <1>1 DEF Context
<1> HIDE DEF q
<1>9. /\ z.up = s.up /\ z.recording = s.recording
      /\ z.stopping = s.stopping /\ z.wait_requeued = s.wait_requeued
      /\ z.vol = s.vol /\ z.pending_writes = s.pending_writes
      /\ z.buffers = s.buffers /\ z.bdev_io_wait = NoBuf
      /\ z.next_write_block = s.next_write_block
      /\ z.segment_start_block = s.segment_start_block
      /\ z.io = o \cup {q}
  BY <1>1 DEF Context
<1>10. CASE w = NoBuf
  <2>1. u = t BY <1>2, <1>10
  <2> HIDE DEF t, v, z
  <2>2. QED BY <1>1, <1>7, <1>10, <2>1 DEF u, w, o
<1>11. CASE w # NoBuf
  <2>1. v \in Context BY <1>1, <1>8 DEF Context, v, t, o
  <2> HIDE DEF v, t
  <2>2. v.buffers[w].target_block = s.buffers[w].target_block
    BY <1>8
  <2>3. ~Refused(v, w, "retry", {})
    BY <1>5, <1>6, <1>11, <2>2, AmpleSizes DEF Refused
  <2>4. RetryFlush(v, w, "retry", {})
          = Submitted(v, "data", w, s.buffers[w].target_block)
    BY <1>4, <1>8, <2>2, <2>3, AmpleSizes DEF RetryFlush, Issued
  <2>5. Submitted(v, "data", w, s.buffers[w].target_block) = z
    BY <2>1 DEF Submitted, Context, q
  <2>6. u = z BY <1>2, <1>11, <2>4, <2>5
  <2> HIDE DEF z
  <2>7. QED BY <1>1, <1>9, <1>11, <2>6 DEF u, w, o, q
<1>12. QED BY <1>10, <1>11

LEMMA ReleasedFields ==
    ASSUME NEW s, Good(s), NEW i \in Buffers
    PROVE  LET t == Released(s, i)
           IN  /\ Good(t) /\ t.up = s.up /\ t.recording = s.recording
               /\ t.stopping = s.stopping
               /\ t.wait_requeued = s.wait_requeued
               /\ t.vol = s.vol /\ t.pending_writes = s.pending_writes
               /\ t.bdev_io_wait = s.bdev_io_wait /\ t.io = s.io
               /\ t.next_write_block = s.next_write_block
               /\ t.segment_start_block = s.segment_start_block
               /\ ~t.buffers[i].in_flight /\ t.buffers[i].used = 0
               /\ \A j \in Buffers :
                     /\ t.buffers[j].data = s.buffers[j].data
                     /\ t.buffers[j].target_block = s.buffers[j].target_block
                     /\ j # i => t.buffers[j] = s.buffers[j]
<1> DEFINE t == Released(s, i)
<1>1. s \in Context /\ \A j \in Buffers : s.buffers[j] \in WriteBuf
  BY DEF Good, Context
<1>2. Good(t) BY ReleasedKeeps DEF Keeps
<1>3. /\ t.up = s.up /\ t.recording = s.recording
      /\ t.stopping = s.stopping /\ t.wait_requeued = s.wait_requeued
      /\ t.vol = s.vol /\ t.pending_writes = s.pending_writes
      /\ t.bdev_io_wait = s.bdev_io_wait /\ t.io = s.io
      /\ t.next_write_block = s.next_write_block
      /\ t.segment_start_block = s.segment_start_block
  BY <1>1 DEF Released, Context
<1>4. /\ ~t.buffers[i].in_flight /\ t.buffers[i].used = 0
      /\ \A j \in Buffers :
            /\ t.buffers[j].data = s.buffers[j].data
            /\ t.buffers[j].target_block = s.buffers[j].target_block
            /\ j # i => t.buffers[j] = s.buffers[j]
  BY <1>1 DEF Released, Context, WriteBuf
<1>5. QED BY <1>2, <1>3, <1>4

\* The completed request is gone, its bdev_io serves the waiter, its buffer is
\* released; pending_writes has yet to follow.
LEMMA ReturnedWrites ==
    ASSUME Ample, NEW s, Good(s), Writing(s, 0), NEW r \in s.io
    PROVE  LET t == Released(FreeIo(s, r, {}), r.id)
           IN  /\ Good(t) /\ Writing(t, 1) /\ t.stopping = s.stopping
               /\ Stays(s, t) /\ SameData(s, t)
               /\ t.buffers[r.id].used = 0
               /\ \A i \in Buffers : i # r.id => t.buffers[i] = s.buffers[i]
<1> DEFINE u == FreeIo(s, r, {})
           t == Released(u, r.id)
           w == s.bdev_io_wait
           q == [op |-> "data", id |-> w, at |-> s.buffers[w].target_block]
           i == r.id
<1>1. /\ s.recording /\ Counted(s, 0) /\ Charted(s) /\ Held(s)
      /\ Queued(s) /\ Single(s)
  BY DEF Writing
<1>2. /\ s.io \subseteq Request /\ w \in Buffers \cup {NoBuf}
      /\ s.buffers \in [Buffers -> WriteBuf] /\ s.stopping \in BOOLEAN
  BY DEF Good, Context
<1>3. \A x \in s.io : x.id \in Buffers
  BY <1>1, <1>2 DEF Charted, Request
<1>4. /\ Good(u) /\ u.up = s.up /\ u.recording = s.recording
      /\ u.stopping = s.stopping /\ ~u.wait_requeued
      /\ u.vol = s.vol /\ u.pending_writes = s.pending_writes
      /\ u.buffers = s.buffers /\ u.bdev_io_wait = NoBuf
      /\ u.next_write_block = s.next_write_block
      /\ u.segment_start_block = s.segment_start_block
      /\ u.io = IF w = NoBuf THEN s.io \ {r} ELSE (s.io \ {r}) \cup {q}
  BY FreeIoFields
<1> HIDE DEF u
<1>5. /\ Good(t) /\ t.up = u.up /\ t.recording = u.recording
      /\ t.stopping = u.stopping /\ t.wait_requeued = u.wait_requeued
      /\ t.vol = u.vol /\ t.pending_writes = u.pending_writes
      /\ t.bdev_io_wait = u.bdev_io_wait /\ t.io = u.io
      /\ t.next_write_block = u.next_write_block
      /\ t.segment_start_block = u.segment_start_block
      /\ ~t.buffers[i].in_flight /\ t.buffers[i].used = 0
      /\ \A j \in Buffers :
            /\ t.buffers[j].data = u.buffers[j].data
            /\ t.buffers[j].target_block = u.buffers[j].target_block
            /\ j # i => t.buffers[j] = u.buffers[j]
  BY <1>3, <1>4, ReleasedFields
<1> HIDE DEF t
<1>6. q.op = "data" /\ q.id = w /\ q.at = s.buffers[w].target_block
  OBVIOUS
<1> HIDE DEF q
<1>7. \A b : Inside(t, b) <=> Inside(s, b) BY <1>4, <1>5 DEF Inside
<1>8. w # NoBuf => /\ s.stopping /\ Inside(s, q.at)
                   /\ \A x \in s.io : x.at # q.at
  BY <1>1, <1>6 DEF Queued
<1>9. Waiters(t) = 0 BY <1>4, <1>5 DEF Waiters
<1>10. Counted(t, 1)
  <2>1. /\ IsFiniteSet(s.io) /\ Cardinality(s.io) \in Nat
        /\ Cardinality(s.io) <= PoolSize /\ PoolSize \in Nat
        /\ s.pending_writes = Cardinality(s.io) + Waiters(s)
    BY <1>1, FS_CardinalityType, AmpleSizes DEF Counted, Waiters
  <2>2. /\ IsFiniteSet(s.io \ {r})
        /\ Cardinality(s.io \ {r}) = Cardinality(s.io) - 1
    BY <2>1, FS_RemoveElement
  <2>3. w # NoBuf => q \notin s.io BY <1>8
  <2>4. w # NoBuf => /\ IsFiniteSet((s.io \ {r}) \cup {q})
                     /\ Cardinality((s.io \ {r}) \cup {q}) = Cardinality(s.io)
    <3> DEFINE o == s.io \ {r}
    <3>1. IsFiniteSet(o) /\ Cardinality(o) = Cardinality(s.io) - 1 BY <2>2
    <3>2. w # NoBuf => q \notin o BY <2>3
    <3> HIDE DEF o
    <3>3. /\ IsFiniteSet(o \cup {q})
          /\ q \notin o => Cardinality(o \cup {q}) = Cardinality(o) + 1
      BY <3>1, FS_AddElement
    <3>4. w # NoBuf => /\ IsFiniteSet(o \cup {q})
                       /\ Cardinality(o \cup {q}) = Cardinality(s.io)
      BY <2>1, <3>1, <3>2, <3>3
    <3>5. QED BY <3>4 DEF o
  <2>5. /\ IsFiniteSet(t.io) /\ Cardinality(t.io) <= PoolSize
        /\ Cardinality(t.io) = Cardinality(s.io) + Waiters(s) - 1
    <3>1. CASE w = NoBuf
      BY <1>4, <1>5, <2>1, <2>2, <3>1 DEF Waiters
    <3>2. CASE w # NoBuf
      BY <1>4, <1>5, <2>1, <2>4, <3>2 DEF Waiters
    <3>3. QED BY <3>1, <3>2
  <2>6. Waiters(s) \in Nat BY DEF Waiters
  <2>7. s.pending_writes = Cardinality(t.io) + 0 + 1
    BY <2>1, <2>5, <2>6
  <2>8. QED BY <1>4, <1>5, <1>9, <2>5, <2>7 DEF Counted
<1>11. Charted(t)
  <2>1. \A x \in t.io : x.op = "data" /\ Inside(t, x.at)
    BY <1>1, <1>4, <1>5, <1>6, <1>7, <1>8 DEF Charted
  <2>2. \A x, y \in t.io : x.at = y.at => x = y
    BY <1>1, <1>4, <1>5, <1>8 DEF Charted
  <2>3. QED BY <1>1, <1>4, <1>5, <2>1, <2>2 DEF Charted
<1>12. Held(t)
  <2>1. SUFFICES ASSUME NEW j \in Buffers, t.buffers[j].in_flight
                 PROVE  \E x \in t.io : x.id = j
    BY DEF Held
  <2>2. j # i /\ s.buffers[j].in_flight BY <1>4, <1>5, <2>1
  <2>3. j = w \/ \E x \in s.io : x.id = j BY <1>1, <2>2 DEF Held
  <2>4. j = w => q \in t.io /\ q.id = j
    BY <1>4, <1>5, <1>6, AmpleSizes
  <2>5. \A x \in s.io : x.id = j => x \in t.io
    BY <1>4, <1>5, <2>2
  <2>6. QED BY <2>3, <2>4, <2>5
<1>13. Queued(t) BY <1>4, <1>5 DEF Queued
<1>14. Single(t)
  <2>1. SUFFICES ASSUME ~s.stopping PROVE Single(t)
    BY <1>4, <1>5 DEF Single
  <2>2. t.io = s.io \ {r} BY <1>4, <1>5, <1>8, <2>1
  <2>3. \A x \in t.io : x.id # i /\ t.buffers[x.id] = s.buffers[x.id]
    BY <1>1, <1>3, <1>4, <1>5, <2>1, <2>2 DEF Single
  <2>4. \A x \in t.io : t.buffers[x.id].in_flight /\ Padded(t, x.id)
    BY <1>1, <2>1, <2>2, <2>3 DEF Single, Padded
  <2>5. QED BY <1>1, <2>1, <2>2, <2>4 DEF Single
<1>15. QED
  BY <1>1, <1>4, <1>5, <1>10, <1>11, <1>12, <1>13, <1>14
  DEF Writing, Stays, SameData, t, u

LEMMA WriteCompleteRuns ==
    ASSUME Ample, NEW s, Good(s), Writing(s, 0), NEW r \in s.io,
           NEW ok \in BOOLEAN
    PROVE  LET t == WriteComplete(s, r, ok, {})
           IN  /\ Running(t, 0) /\ Stays(s, t)
               /\ \A i \in Buffers : s.buffers[i].in_flight \/ s.stopping =>
                     t.buffers[i].data = s.buffers[i].data
<1> DEFINE t == Released(FreeIo(s, r, {}), r.id)
           z == [t EXCEPT !.consecutive_write_failures = 0]
           u == IF ok THEN z ELSE NoteWriteFailure(t, {})
           n == u.pending_writes - 1
           v == [u EXCEPT !.pending_writes = n]
           y == WriteComplete(s, r, ok, {})
<1>1. y = FinalizeIfDrained(v, {}) BY DEF WriteComplete
<1>2. /\ Good(t) /\ Writing(t, 1) /\ t.stopping = s.stopping
      /\ Stays(s, t) /\ SameData(s, t)
      /\ t.buffers[r.id].used = 0
      /\ \A i \in Buffers : i # r.id => t.buffers[i] = s.buffers[i]
  BY ReturnedWrites
<1> HIDE DEF t, y
<1>3. t \in Context BY <1>2 DEF Good
<1>4. z \in Context BY <1>3, Sizes DEF Context
<1>5. /\ z.up = t.up /\ z.recording = t.recording /\ z.stopping = t.stopping
      /\ z.wait_requeued = t.wait_requeued /\ z.io = t.io
      /\ z.bdev_io_wait = t.bdev_io_wait /\ z.vol = t.vol
      /\ z.pending_writes = t.pending_writes /\ z.buffers = t.buffers
      /\ z.next_write_block = t.next_write_block
      /\ z.segment_start_block = t.segment_start_block
      /\ z.cur_buf = t.cur_buf
  BY <1>3 DEF Context
<1> HIDE DEF z
<1>6. Good(z) BY <1>2, <1>4, <1>5 DEF Good, Spare
<1>7. Writing(z, 1) BY <1>2, <1>5, WritingRests
<1>8. /\ Good(u) /\ Writing(u, 1) /\ Stays(t, u) /\ Untouched(t, u)
      /\ t.stopping => SameData(t, u)
  <2>1. CASE ok
    BY <1>5, <1>6, <1>7, <2>1 DEF Stays, Untouched, Firm, SameData
  <2>2. CASE ~ok
    BY <1>2, <2>2, NoteWriteFailureRuns
  <2>3. QED BY <2>1, <2>2
<1> HIDE DEF u
<1>9. u \in Context /\ n \in Int BY <1>8 DEF Good, Context
<1>10. Good(v) BY <1>8, <1>9, PendingKeeps DEF Keeps
<1>11. u.pending_writes = n + 1 BY <1>9 DEF Context
<1> HIDE DEF n
<1>12. /\ v.up = u.up /\ v.recording = u.recording /\ v.stopping = u.stopping
       /\ v.wait_requeued = u.wait_requeued /\ v.io = u.io
       /\ v.bdev_io_wait = u.bdev_io_wait /\ v.vol = u.vol
       /\ v.pending_writes = n /\ v.buffers = u.buffers
       /\ v.next_write_block = u.next_write_block
       /\ v.segment_start_block = u.segment_start_block
  BY <1>9 DEF Context
<1> HIDE DEF v
<1>13. Writing(v, 0)
  <2>1. Waiters(v) = Waiters(u) /\ Waiters(u) \in Nat
    BY <1>12 DEF Waiters
  <2>2. Cardinality(u.io) \in Nat
    BY <1>8, FS_CardinalityType DEF Writing, Counted
  <2>3. Counted(v, 0)
    BY <1>8, <1>9, <1>11, <1>12, <2>1, <2>2 DEF Writing, Counted
  <2>4. \A b : Inside(v, b) <=> Inside(u, b) BY <1>12 DEF Inside
  <2>5. \A i : Padded(v, i) <=> Padded(u, i) BY <1>12 DEF Padded
  <2>6. Charted(v) BY <1>8, <1>12, <2>4 DEF Writing, Charted
  <2>7. Held(v) BY <1>8, <1>12 DEF Writing, Held
  <2>8. Queued(v) BY <1>8, <1>12, <2>4 DEF Writing, Queued
  <2>9. Single(v) BY <1>8, <1>12, <2>5 DEF Writing, Single
  <2>10. QED BY <1>8, <1>12, <2>3, <2>6, <2>7, <2>8, <2>9 DEF Writing
<1>14. Running(y, 0) /\ Stays(v, y) /\ y.buffers = v.buffers
  BY <1>1, <1>10, <1>13, FinalizeIfDrainedRuns
<1>15. Stays(s, y) BY <1>2, <1>8, <1>12, <1>14 DEF Stays
<1>16. ASSUME NEW i \in Buffers, s.buffers[i].in_flight \/ s.stopping
       PROVE  y.buffers[i].data = s.buffers[i].data
  <2>1. y.buffers[i].data = u.buffers[i].data BY <1>12, <1>14
  <2>2. t.buffers[i].data = s.buffers[i].data BY <1>2 DEF SameData
  <2>3. CASE s.stopping BY <1>2, <1>8, <2>1, <2>2, <2>3 DEF SameData
  <2>4. CASE i = r.id BY <1>2, <1>8, <2>1, <2>2, <2>4 DEF Untouched
  <2>5. CASE i # r.id /\ s.buffers[i].in_flight
    BY <1>2, <1>8, <2>1, <2>5 DEF Untouched, Firm
  <2>6. QED BY <1>16, <2>3, <2>4, <2>5
<1>17. QED BY <1>14, <1>15, <1>16 DEF y

-----------------------------------------------------------------------------
(* The capture path *)

\* Only fields the phases say nothing of are changed.
Same(s, t) ==
    /\ t.up = s.up /\ t.recording = s.recording /\ t.stopping = s.stopping
    /\ t.wait_requeued = s.wait_requeued /\ t.io = s.io
    /\ t.bdev_io_wait = s.bdev_io_wait /\ t.vol = s.vol
    /\ t.pending_writes = s.pending_writes
    /\ t.next_write_block = s.next_write_block
    /\ t.segment_start_block = s.segment_start_block

LEMMA DroppedSame ==
    ASSUME NEW s, Good(s)
    PROVE  /\ Good(Dropped(s)) /\ Same(s, Dropped(s))
           /\ Dropped(s).buffers = s.buffers
           /\ Dropped(s).cur_buf = s.cur_buf
<1>1. s \in Context BY DEF Good
<1>2. Good(Dropped(s)) BY DroppedKeeps DEF Keeps
<1>3. QED BY <1>1, <1>2 DEF Context, Dropped, Same

LEMMA ReasonSame ==
    ASSUME NEW s, Good(s),
           NEW w \in {"NONE", "USER", "DISK_FULL", "COUNT_LIMIT",
                      "WRITE_FAILURES"}
    PROVE  LET t == [s EXCEPT !.last_stop_reason = w]
           IN  Good(t) /\ Same(s, t) /\ t.buffers = s.buffers
<1>1. s \in Context BY DEF Good
<1>2. Good([s EXCEPT !.last_stop_reason = w]) BY ReasonKeeps DEF Keeps
<1>3. QED BY <1>1, <1>2 DEF Context, Same

LEMMA SameWrites ==
    ASSUME NEW s, NEW t, NEW n, Writing(s, n), Same(s, t),
           t.buffers = s.buffers
    PROVE  Writing(t, n) /\ Stays(s, t) /\ Firm(s, t)
  BY WritingRests DEF Same, Stays, Firm

\* A record goes only into a buffer the device does not hold.
LEMMA AppendedWrites ==
    ASSUME Ample, NEW s, Good(s), Writing(s, 0), ~s.stopping,
           NEW size \in Nat,
           ~s.buffers[s.cur_buf].in_flight,
           s.buffers[s.cur_buf].used + size <= BufSize
    PROVE  LET t == Appended(s, size)
           IN  /\ Good(t) /\ Writing(t, 0) /\ ~t.stopping
               /\ Stays(s, t) /\ Firm(s, t)
<1> DEFINE c == s.cur_buf
           t == Appended(s, size)
<1>1. s \in Context /\ c \in Buffers /\ s.io \subseteq Request
      /\ \A j \in Buffers : s.buffers[j] \in WriteBuf
  BY DEF Good, Context
<1>2. Good(t) BY AppendedFollows DEF Follows
<1>3. Same(s, t) BY <1>1 DEF Appended, Context, Same
<1>4. /\ ~t.buffers[c].in_flight
      /\ \A j \in Buffers : j # c => t.buffers[j] = s.buffers[j]
  BY <1>1 DEF Appended, Context, WriteBuf
<1> HIDE DEF t, c
<1>5. /\ s.recording /\ Counted(s, 0) /\ Charted(s) /\ Held(s)
      /\ Queued(s) /\ Single(s)
  BY DEF Writing
<1>6. s.bdev_io_wait = NoBuf BY <1>5 DEF Queued
<1>7. \A x \in s.io : x.id \in Buffers /\ x.id # c
  BY <1>1, <1>5 DEF Charted, Request, Single, c
<1>8. Waiters(t) = Waiters(s) /\ \A b : Inside(t, b) <=> Inside(s, b)
  BY <1>3 DEF Waiters, Inside, Same
<1>9. Counted(t, 0) BY <1>3, <1>5, <1>8 DEF Counted, Same
<1>10. Charted(t) BY <1>3, <1>5, <1>8 DEF Charted, Same
<1>11. Held(t) BY <1>3, <1>4, <1>5 DEF Held, Same
<1>12. Queued(t) BY <1>3, <1>6 DEF Queued, Same
<1>13. Single(t)
  <2>1. \A x \in t.io : t.buffers[x.id].in_flight /\ Padded(t, x.id)
    BY <1>3, <1>4, <1>5, <1>7 DEF Single, Padded, Same
  <2>2. \A x, y \in t.io : x.id = y.id => x = y
    BY <1>3, <1>5 DEF Single, Same
  <2>3. QED BY <2>1, <2>2 DEF Single
<1>14. Firm(s, t) BY <1>4 DEF Firm, c
<1>15. QED
  BY <1>2, <1>3, <1>5, <1>9, <1>10, <1>11, <1>12, <1>13, <1>14
  DEF Writing, Same, Stays, t

LEMMA FirmTransitive ==
    ASSUME NEW s, NEW t, NEW u, Stays(s, t), Firm(s, t), Stays(t, u),
           Firm(t, u)
    PROVE  Stays(s, u) /\ Firm(s, u)
  BY DEF Stays, Firm

LEMMA RecordedRuns ==
    ASSUME Ample, NEW s, Good(s), Writing(s, 0), ~s.stopping,
           NEW size \in Nat,
           ~s.buffers[s.cur_buf].in_flight,
           s.buffers[s.cur_buf].used + size <= BufSize
    PROVE  LET t == Recorded(s, size, {})
           IN  Running(t, 0) /\ Stays(s, t) /\ Firm(s, t)
<1> DEFINE t == Appended(s, size)
           u == [t EXCEPT !.last_stop_reason = "COUNT_LIMIT"]
           v == StopRecording(u, {})
<1>1. Recorded(s, size, {}) \in {t, v} BY DEF Recorded
<1>2. /\ Good(t) /\ Writing(t, 0) /\ ~t.stopping /\ Stays(s, t)
      /\ Firm(s, t)
  BY AppendedWrites
<1> HIDE DEF t
<1>3. Good(u) /\ Same(t, u) /\ u.buffers = t.buffers BY <1>2, ReasonSame
<1> HIDE DEF u
<1>4. Writing(u, 0) /\ Stays(t, u) /\ Firm(t, u) BY <1>2, <1>3, SameWrites
<1>5. ~u.stopping BY <1>2, <1>3 DEF Same
<1>6. Running(v, 0) /\ Stays(u, v) /\ Firm(u, v)
  BY <1>3, <1>4, <1>5, StopRecordingRuns DEF Untouched
<1> HIDE DEF v
<1>7. Stays(s, v) /\ Firm(s, v) BY <1>2, <1>4, <1>6, FirmTransitive
<1>8. Running(t, 0) BY <1>2 DEF Running
<1>9. QED BY <1>1, <1>2, <1>6, <1>7, <1>8

LEMMA FlushBufferWrites ==
    ASSUME Ample, NEW s, Good(s), Writing(s, 0), ~s.stopping, HasRoom(s),
           ~s.buffers[s.cur_buf].in_flight
    PROVE  LET t == FlushBuffer(s, s.cur_buf, {})
           IN  /\ Good(t) /\ Quiet(t) /\ Writing(t, 0) /\ ~t.stopping
               /\ Stays(s, t) /\ Firm(s, t)
<1> DEFINE c == s.cur_buf
           t == FlushBuffer(s, c, {})
           u == Flushed(s, c)
<1>1. c \in Buffers /\ s.buffers \in [Buffers -> WriteBuf]
  BY DEF Good, Context
<1>2. Good(t) /\ Quiet(t) BY FlushBufferKeeps DEF Keeps
<1>3. s.bdev_io_wait = NoBuf BY DEF Writing, Queued
<1>4. CASE s.buffers[c].used = 0
  <2>1. t = s BY <1>4 DEF FlushBuffer
  <2> HIDE DEF t
  <2>2. QED BY <1>2, <2>1 DEF Stays, Firm, t
<1>5. CASE s.buffers[c].used # 0
  <2>1. ~Refused(HandedOff(s, c), c, "data", {}) BY <1>1, FlushedFields
  <2>2. t = u BY <1>5, <2>1 DEF FlushBuffer, RetryFlush, Flushed
  <2>3. /\ u.up = s.up /\ u.segment_start_block = s.segment_start_block
        /\ u.buffers = [s.buffers EXCEPT ![c] = Handed(s, c)]
    BY <1>1, FlushedFields
  <2>4. Writing(u, 0) /\ u.stopping = s.stopping
    BY <1>1, <1>3, FlushedWrites
  <2> HIDE DEF t, u
  <2>5. Firm(s, u) BY <1>1, <2>3 DEF Firm
  <2>6. QED BY <1>2, <2>2, <2>3, <2>4, <2>5 DEF Stays, t
<1>6. QED BY <1>4, <1>5

LEMMA NextBufferRuns ==
    ASSUME Ample, NEW s, Good(s), Writing(s, 0), ~s.stopping, HasRoom(s),
           ~s.buffers[s.cur_buf].in_flight, NEW size \in Nat
    PROVE  LET t == NextBuffer(s, size, {})
           IN  Running(t, 0) /\ Stays(s, t) /\ Firm(s, t)
<1> DEFINE f == FlushBuffer(s, s.cur_buf, {})
           c == (s.cur_buf + 1) % WriteBufCount
           t == [f EXCEPT !.cur_buf = c]
           y == NextBuffer(s, size, {})
<1>1. s.cur_buf \in Buffers BY DEF Good, Context
<1>2. c \in Buffers BY <1>1, Sizes DEF Buffers
<1>3. y = IF t.buffers[t.cur_buf].in_flight \/ size > BufSize
          THEN Dropped(t) ELSE Recorded(t, size, {})
  BY DEF NextBuffer
<1> HIDE DEF c, y
<1>4. /\ Good(f) /\ Quiet(f) /\ Writing(f, 0) /\ ~f.stopping
      /\ Stays(s, f) /\ Firm(s, f)
  BY FlushBufferWrites
<1> HIDE DEF f
<1>5. f \in Context BY <1>4 DEF Good
<1>6. t \in Context BY <1>2, <1>5 DEF Context
<1>7. Same(f, t) /\ t.buffers = f.buffers /\ t.cur_buf = c
  BY <1>5 DEF Context, Same
<1> HIDE DEF t
<1>8. Good(t) BY <1>4, <1>6, <1>7 DEF Good, Spare, Quiet
<1>9. Writing(t, 0) /\ Stays(f, t) /\ Firm(f, t)
  BY <1>4, <1>7, SameWrites
<1>10. Stays(s, t) /\ Firm(s, t) BY <1>4, <1>9, FirmTransitive
<1>11. ~t.stopping BY <1>4, <1>7 DEF Same
<1>12. t.buffers[t.cur_buf].used \in 0 .. BufSize
  BY <1>2, <1>6, <1>7 DEF Context, WriteBuf
<1>13. CASE t.buffers[t.cur_buf].in_flight \/ size > BufSize
  <2>1. y = Dropped(t) BY <1>3, <1>13
  <2>2. Same(t, y) /\ y.buffers = t.buffers BY <1>8, <2>1, DroppedSame
  <2>3. Writing(y, 0) /\ Stays(t, y) /\ Firm(t, y)
    BY <1>9, <2>2, SameWrites
  <2>4. Running(y, 0) BY <1>11, <2>2, <2>3 DEF Running, Same
  <2>5. Stays(s, y) /\ Firm(s, y) BY <1>10, <2>3, FirmTransitive
  <2>6. QED BY <2>4, <2>5 DEF y
<1>14. CASE ~(t.buffers[t.cur_buf].in_flight \/ size > BufSize)
  <2>1. y = Recorded(t, size, {}) BY <1>3, <1>14
  <2>2. ~(t.buffers[t.cur_buf].used > 0)
    BY <1>2, <1>4, <1>7, <1>14 DEF Quiet
  <2>3. t.buffers[t.cur_buf].used + size <= BufSize
    BY <1>12, <1>14, <2>2, Sizes
  <2>4. Running(y, 0) /\ Stays(t, y) /\ Firm(t, y)
    BY <1>8, <1>9, <1>11, <1>14, <2>1, <2>3, RecordedRuns
  <2>5. Stays(s, y) /\ Firm(s, y) BY <1>10, <2>4, FirmTransitive
  <2>6. QED BY <2>4, <2>5 DEF y
<1>15. QED BY <1>13, <1>14

LEMMA CapturePollRuns ==
    ASSUME Ample, NEW s, Good(s), Writing(s, 0), ~s.stopping,
           NEW size \in Nat
    PROVE  LET t == CapturePoll(s, size, {})
           IN  Running(t, 0) /\ Stays(s, t) /\ Firm(s, t)
<1> DEFINE b == s.buffers[s.cur_buf]
           d == Dropped(s)
           u == [d EXCEPT !.last_stop_reason = "DISK_FULL"]
           t == CapturePoll(s, size, {})
<1>1. /\ Good(d) /\ Same(s, d) /\ d.buffers = s.buffers
  BY DroppedSame
<1>2. /\ Writing(d, 0) /\ Stays(s, d) /\ Firm(s, d) /\ ~d.stopping
  BY <1>1, SameWrites DEF Same
<1>3. CASE b.in_flight
  <2>1. t = d BY <1>3 DEF CapturePoll
  <2> HIDE DEF t, d
  <2>2. QED BY <1>2, <2>1 DEF Running, t
<1>4. CASE ~b.in_flight /\ Fits(b, size)
  <2>1. t = Recorded(s, size, {}) BY <1>4 DEF CapturePoll
  <2>2. QED BY <1>4, <2>1, RecordedRuns DEF Fits
<1>5. CASE ~b.in_flight /\ ~Fits(b, size) /\ HasRoom(s)
  <2>1. t = NextBuffer(s, size, {}) BY <1>5 DEF CapturePoll
  <2>2. QED BY <1>5, <2>1, NextBufferRuns
<1>6. CASE ~b.in_flight /\ ~Fits(b, size) /\ ~HasRoom(s)
  <2>1. t = StopRecording(u, {}) BY <1>6 DEF CapturePoll
  <2> HIDE DEF t, d
  <2>2. Good(u) /\ Same(d, u) /\ u.buffers = d.buffers
    BY <1>1, ReasonSame
  <2> HIDE DEF u
  <2>3. Writing(u, 0) /\ Stays(d, u) /\ Firm(d, u) /\ ~u.stopping
    BY <1>2, <2>2, SameWrites DEF Same
  <2>4. Running(t, 0) /\ Stays(u, t) /\ Firm(u, t)
    BY <2>1, <2>2, <2>3, StopRecordingRuns DEF Untouched
  <2>5. Stays(s, t) /\ Firm(s, t) BY <1>2, <2>3, <2>4, FirmTransitive
  <2>6. QED BY <2>4, <2>5 DEF t
<1>7. QED BY <1>3, <1>4, <1>5, <1>6

-----------------------------------------------------------------------------
(* The chains: claim and finalize *)

\* What the steps of a chain leave alone.
Chained(s, t) ==
    /\ t.wait_requeued = s.wait_requeued
    /\ t.bdev_io_wait = s.bdev_io_wait
    /\ t.pending_writes = s.pending_writes /\ t.buffers = s.buffers
    /\ t.stopping = s.stopping /\ t.shutting_down = s.shutting_down
    /\ t.next_write_block = s.next_write_block

LEMMA RestChained ==
    ASSUME NEW s, NEW t, Rest(s), Chained(s, t)
    PROVE  Rest(t)
  BY DEF Rest, Chained

LEMMA FreeIoAlone ==
    ASSUME NEW s, Good(s), s.bdev_io_wait = NoBuf, NEW r, s.io = {r}
    PROVE  LET t == FreeIo(s, r, {})
           IN  /\ Good(t) /\ Chained(s, t) /\ t.io = {} /\ t.up = s.up
               /\ t.recording = s.recording /\ t.admin_req = s.admin_req
               /\ t.vol = s.vol /\ t.vol_buf = s.vol_buf
               /\ t.io_buf = s.io_buf /\ t.segment_id = s.segment_id
               /\ t.segment_start_block = s.segment_start_block
               /\ t.chains = s.chains /\ t.record_count = s.record_count
               /\ t.dropped_count = s.dropped_count
<1>1. s \in Context BY DEF Good
<1>2. FreeIo(s, r, {}) = [s EXCEPT !.io = {}]
  BY <1>1 DEF FreeIo, Context
<1>3. Good(FreeIo(s, r, {})) BY FreeIoKeeps DEF Keeps
<1>4. QED BY <1>1, <1>2, <1>3 DEF Context, Chained

LEMMA NothingOutstanding ==
    ASSUME Ample, NEW s, s.io = {}, NEW kind
    PROVE  Accepts(s, kind, {})
  BY AmpleSizes, FS_EmptySet DEF Accepts

LEMMA ClaimFailedIdles ==
    ASSUME Ample, NEW s, Good(s), Rest(s), s.io = {}, ~s.recording
    PROVE  LET t == ClaimFailed(s)
           IN  Idle(t) /\ t.up = s.up /\ t.vol = s.vol
<1> DEFINE t == ClaimFailed(s)
<1>1. s \in Context BY DEF Good
<1>2. t = [s EXCEPT !.admin_req = "none"]
  BY AmpleSizes DEF ClaimFailed
<1>3. /\ Chained(s, t) /\ t.io = s.io /\ t.recording = s.recording
      /\ t.up = s.up /\ t.vol = s.vol
  BY <1>1, <1>2 DEF Context, Chained
<1> HIDE DEF t
<1>4. QED BY <1>3, RestChained DEF Idle, t

\* A claim starts from the high-water mark of the header in memory.
LEMMA ClaimSegmentStartClaims ==
    ASSUME Ample, NEW s, Good(s), Idle(s), s.admin_req = "start"
    PROVE  LET t == ClaimSegmentStart(s, {})
           IN  /\ Idle(t) \/ Claiming(t)
               /\ t.up = s.up /\ t.vol = s.vol
<1> DEFINE e == EmptyEntry("OPEN", s.vol.next_data_block)
           t == [s EXCEPT !.segment_id = s.vol.next_segment_id,
                          !.segment_start_block = s.vol.next_data_block,
                          !.io_buf = e]
           r == [op |-> "claimToc", id |-> 0, at |-> t.segment_id]
           u == [t EXCEPT !.io = t.io \cup {r}]
           y == ClaimSegmentStart(s, {})
<1>1. /\ s \in Context /\ s.vol.next_segment_id \in Nat
      /\ s.vol.next_data_block \in Nat
  BY DEF Good, Context, Header
<1>2. e \in Entry BY <1>1 DEF Entry, EmptyEntry
<1>3. y = IF s.vol.next_segment_id >= SegmentSlots THEN ClaimFailed(s)
          ELSE IF Accepts(t, "toc", {})
          THEN Submitted(t, "claimToc", 0, t.segment_id)
          ELSE ClaimFailed(t)
  BY <1>1 DEF ClaimSegmentStart, Context
<1> HIDE DEF y, e
<1>4. t \in Context BY <1>1, <1>2 DEF Context
<1>5. /\ Chained(s, t) /\ t.up = s.up /\ t.vol = s.vol /\ t.io = s.io
      /\ t.recording = s.recording /\ t.admin_req = s.admin_req
      /\ t.segment_start_block = s.vol.next_data_block /\ t.io_buf = e
  BY <1>1 DEF Context, Chained
<1> HIDE DEF t
<1>6. CASE s.vol.next_segment_id >= SegmentSlots
  <2>1. y = ClaimFailed(s) BY <1>3, <1>6
  <2>2. QED BY <2>1, ClaimFailedIdles DEF Idle, y
<1>7. CASE ~(s.vol.next_segment_id >= SegmentSlots)
  <2>1. t.io = {} BY <1>5 DEF Idle
  <2>2. y = u
    BY <1>3, <1>4, <1>7, <2>1, NothingOutstanding DEF Submitted, Context
  <2> HIDE DEF r
  <2>3. /\ Chained(t, u) /\ u.up = t.up /\ u.vol = t.vol
        /\ u.recording = t.recording /\ u.admin_req = t.admin_req
        /\ u.segment_start_block = t.segment_start_block
        /\ u.io_buf = t.io_buf /\ u.segment_id = t.segment_id
        /\ u.io = t.io \cup {r}
    BY <1>4 DEF Context, Chained
  <2> HIDE DEF u
  <2>4. Rest(u) BY <1>5, <2>3, RestChained DEF Idle
  <2>5. u.io = {[op |-> "claimToc", id |-> 0, at |-> u.segment_id]}
    BY <2>1, <2>3 DEF r
  <2>6. Claiming(u) BY <1>5, <2>3, <2>4, <2>5 DEF Claiming, Idle, e
  <2>7. QED BY <1>5, <2>2, <2>3, <2>6 DEF y
<1>8. QED BY <1>6, <1>7

\* s: the claim with its TOC write answered and freed.
LEMMA ClaimTocDoneClaims ==
    ASSUME Ample, NEW s, Good(s), Rest(s), s.io = {}, ~s.recording,
           s.admin_req = "start",
           s.segment_start_block = s.vol.next_data_block,
           NEW ok \in BOOLEAN
    PROVE  LET t == ClaimTocDone(s, ok, {})
           IN  /\ Idle(t) \/ Claiming(t)
               /\ t.up = s.up
               /\ t.vol.next_data_block = s.vol.next_data_block
<1> DEFINE n == s.vol.next_segment_id + 1
           v == [s.vol EXCEPT !.next_segment_id = n]
           t == [s EXCEPT !.vol = v, !.vol_buf = v]
           r == [op |-> "claimHdr", id |-> 0, at |-> 0]
           u == [t EXCEPT !.io = t.io \cup {r}]
           y == ClaimTocDone(s, ok, {})
<1>1. s \in Context /\ s.vol \in Header /\ n \in Nat
  BY DEF Good, Context, Header
<1>2. v \in Header /\ v.next_data_block = s.vol.next_data_block
  BY <1>1 DEF Header
<1>3. y = IF ~ok THEN ClaimFailed(s)
          ELSE IF Accepts(t, "hdr", {})
          THEN Submitted(t, "claimHdr", 0, 0)
          ELSE ClaimFailed(t)
  BY <1>1 DEF ClaimTocDone, Header
<1> HIDE DEF y, v, n
<1>4. t \in Context BY <1>1, <1>2 DEF Context
<1>5. /\ Chained(s, t) /\ t.up = s.up /\ t.vol = v /\ t.vol_buf = v
      /\ t.io = s.io /\ t.recording = s.recording
      /\ t.admin_req = s.admin_req
      /\ t.segment_start_block = s.segment_start_block
  BY <1>1 DEF Context, Chained
<1> HIDE DEF t
<1>6. CASE ~ok
  <2>1. y = ClaimFailed(s) BY <1>3, <1>6
  <2>2. QED BY <2>1, ClaimFailedIdles DEF y
<1>7. CASE ok
  <2>1. y = u
    BY <1>3, <1>4, <1>5, <1>7, NothingOutstanding DEF Submitted, Context
  <2> HIDE DEF r
  <2>2. /\ Chained(t, u) /\ u.up = t.up /\ u.vol = t.vol
        /\ u.vol_buf = t.vol_buf
        /\ u.recording = t.recording /\ u.admin_req = t.admin_req
        /\ u.segment_start_block = t.segment_start_block
        /\ u.io = t.io \cup {r}
    BY <1>4 DEF Context, Chained
  <2> HIDE DEF u
  <2>3. Rest(u) BY <1>5, <2>2, RestChained
  <2>4. u.io = {[op |-> "claimHdr", id |-> 0, at |-> 0]}
    BY <1>5, <2>2 DEF r
  <2>5. Claiming(u) BY <1>2, <1>5, <2>2, <2>3, <2>4 DEF Claiming
  <2>6. QED BY <1>2, <1>5, <2>1, <2>2, <2>5 DEF y
<1>8. QED BY <1>6, <1>7

\* A session begins with nothing in progress and its own empty extent.
LEMMA ClaimHeaderDoneBegins ==
    ASSUME Ample, NEW s, Good(s), Rest(s), s.io = {}, ~s.recording,
           s.segment_start_block = s.vol.next_data_block,
           s.vol.next_data_block <= NumBlocks,
           NEW ok \in BOOLEAN
    PROVE  LET t == ClaimHeaderDone(s, ok)
           IN  /\ IF ok THEN /\ Running(t, 0) /\ ~t.stopping
                             /\ t.segment_start_block = s.segment_start_block
                        ELSE Idle(t)
               /\ t.up = s.up /\ t.vol = s.vol
<1> DEFINE f == [i \in Buffers |->
                   [s.buffers[i] EXCEPT !.used = 0, !.in_flight = FALSE]]
           t == [s EXCEPT
                   !.next_write_block = s.segment_start_block, !.cur_buf = 0,
                   !.buffers = f, !.record_count = 0, !.dropped_count = 0,
                   !.last_stop_reason = "NONE",
                   !.consecutive_write_failures = 0,
                   !.stopping = FALSE, !.recording = TRUE,
                   !.admin_req = "none"]
           y == ClaimHeaderDone(s, ok)
<1>1. /\ s \in Context /\ \A i \in Buffers : s.buffers[i] \in WriteBuf
      /\ s.segment_start_block \in Nat
  BY DEF Good, Context
<1>2. \A i \in Buffers : ~f[i].in_flight BY <1>1 DEF WriteBuf
<1>3. y = IF ~ok THEN ClaimFailed(s) ELSE t
  BY AmpleSizes DEF ClaimHeaderDone
<1> HIDE DEF y, f
<1>4. /\ t.up = s.up /\ t.vol = s.vol /\ t.io = s.io /\ t.recording
      /\ ~t.stopping /\ t.wait_requeued = s.wait_requeued
      /\ t.bdev_io_wait = s.bdev_io_wait /\ t.buffers = f
      /\ t.pending_writes = s.pending_writes
      /\ t.next_write_block = s.segment_start_block
      /\ t.segment_start_block = s.segment_start_block
  BY <1>1 DEF Context
<1> HIDE DEF t
<1>5. Counted(t, 0)
  BY <1>4, AmpleSizes, FS_EmptySet DEF Counted, Waiters, Rest
<1>6. Charted(t) BY <1>1, <1>4 DEF Charted
<1>7. Held(t) BY <1>2, <1>4 DEF Held
<1>8. Queued(t) /\ Single(t) BY <1>4 DEF Queued, Single, Rest
<1>9. Running(t, 0) BY <1>4, <1>5, <1>6, <1>7, <1>8 DEF Running, Writing
<1>10. CASE ok BY <1>3, <1>4, <1>9, <1>10 DEF y
<1>11. CASE ~ok
  <2>1. y = ClaimFailed(s) BY <1>3, <1>11
  <2>2. QED BY <1>11, <2>1, ClaimFailedIdles DEF y
<1>12. QED BY <1>10, <1>11

LEMMA FinalizeHeaderDoneFinalizes ==
    ASSUME Ample, NEW s, Good(s), Finalizing(s), s.io = {}
    PROVE  LET t == FinalizeHeaderDone(s, s.chains, {})
           IN  /\ FinalizingToc(t) /\ Stays(s, t) /\ t.vol = s.vol
               /\ t.buffers = s.buffers
<1> DEFINE e == FinalizedEntry(s)
           t == [s EXCEPT !.io_buf = e]
           r == [op |-> "finToc", id |-> s.chains, at |-> s.segment_id]
           u == [t EXCEPT !.io = t.io \cup {r}]
           y == FinalizeHeaderDone(s, s.chains, {})
<1>1. s \in Context BY DEF Good
<1>2. e \in Entry BY FinalizedEntryType
<1>3. y = IF Accepts(t, "toc", {})
          THEN Submitted(t, "finToc", s.chains, s.segment_id)
          ELSE FinalizeTocDone(t)
  BY DEF FinalizeHeaderDone
<1> HIDE DEF y, e
<1>4. t \in Context BY <1>1, <1>2 DEF Context
<1>5. t.io = {} BY <1>1 DEF Context
<1>6. y = u
  <2> HIDE DEF t
  <2>1. y = Submitted(t, "finToc", s.chains, s.segment_id)
    BY <1>3, <1>5, NothingOutstanding
  <2>2. QED BY <1>4, <2>1 DEF Submitted, Context
<1> HIDE DEF r
<1>7. /\ Chained(s, u) /\ u.up = s.up /\ u.vol = s.vol
      /\ u.recording = s.recording
      /\ u.segment_start_block = s.segment_start_block
      /\ u.io_buf = e /\ u.segment_id = s.segment_id
      /\ u.chains = s.chains /\ u.record_count = s.record_count
      /\ u.dropped_count = s.dropped_count
      /\ u.io = s.io \cup {r}
  BY <1>1 DEF Context, Chained
<1> HIDE DEF u
<1>8. Rest(u) BY <1>7, RestChained DEF Finalizing
<1>9. e = FinalizedEntry(u) BY <1>7 DEF e, FinalizedEntry, Chained
<1>10. u.io = {[op |-> "finToc", id |-> u.chains, at |-> u.segment_id]}
  BY <1>7 DEF r
<1>11. FinalizingToc(u)
  BY <1>7, <1>8, <1>9, <1>10 DEF FinalizingToc, Finalizing, Chained
<1>12. QED BY <1>6, <1>7, <1>11 DEF y, Stays, Chained

\* The session is over: the daemon is idle, or leaves.
LEMMA FinalizeTocDoneEnds ==
    ASSUME Ample, NEW s, Good(s), Finalizing(s), s.io = {}
    PROVE  LET t == FinalizeTocDone(s)
           IN  /\ Idle(t) /\ (t.up => s.up) /\ t.vol = s.vol
               /\ t.buffers = s.buffers
<1> DEFINE t == [s EXCEPT !.recording = FALSE]
           y == FinalizeTocDone(s)
<1>1. s \in Context BY DEF Good
<1>2. y = IF s.shutting_down THEN Teardown(t)
                             ELSE [t EXCEPT !.admin_req = "none"]
  BY AmpleSizes DEF FinalizeTocDone
<1> HIDE DEF y
<1>3. t \in Context BY <1>1 DEF Context
<1>4. Chained(s, t) /\ t.up = s.up /\ t.vol = s.vol /\ t.io = {}
      /\ ~t.recording
  BY <1>1 DEF Context, Chained
<1> HIDE DEF t
<1>5. /\ Chained(t, y) /\ (y.up => t.up) /\ y.vol = t.vol /\ y.io = {}
      /\ ~y.recording
  BY <1>2, <1>3, <1>4 DEF Context, Chained, Teardown
<1>6. Rest(y) BY <1>4, <1>5, RestChained DEF Finalizing
<1>7. QED BY <1>4, <1>5, <1>6 DEF y, Idle, Chained

-----------------------------------------------------------------------------
(* The steps of a running daemon *)

\* The header of a finalize chain is at the device.
Ending(s) == \E r \in s.io : r.op = "finHdr"

\* A daemon that has left may have left a claim at the device.
Down(s) == \A r \in s.io : r.op \in {"claimToc", "claimHdr"}

\* Where a step from s may lead: the high-water mark in memory moves only when
\* a finalize chain begins, and only up.
Leads(s, t) ==
    IF t.up
    THEN /\ Line(t)
         /\ s.vol.next_data_block <= t.vol.next_data_block
         /\ t.recording =>
              t.segment_start_block = IF s.recording
                                      THEN s.segment_start_block
                                      ELSE s.vol.next_data_block
         /\ Ending(t) \/ t.vol.next_data_block = s.vol.next_data_block
         /\ Ending(t) =>
              s.recording /\ (Ending(s) \/
                s.vol.next_data_block = s.segment_start_block)
    ELSE Down(t)

LEMMA PhaseOf ==
    ASSUME NEW s, Line(s), NEW r \in s.io
    PROVE  /\ r.op = "data" => Writing(s, 0) /\ ~Ending(s)
           /\ r.op \in {"claimToc", "claimHdr"} => /\ Claiming(s) /\ s.io = {r}
                                                   /\ ~Ending(s)
           /\ r.op = "claimHdr" => s.vol_buf = s.vol
           /\ r.op = "finHdr" => FinalizingHeader(s) /\ s.io = {r}
           /\ r.op = "finToc" => FinalizingToc(s) /\ s.io = {r} /\ ~Ending(s)
<1>1. CASE Idle(s) BY <1>1 DEF Idle
<1>2. CASE Claiming(s) BY <1>2 DEF Claiming, Ending
<1>3. CASE Writing(s, 0) BY <1>3 DEF Writing, Charted, Ending
<1>4. CASE FinalizingHeader(s) BY <1>4 DEF FinalizingHeader, Ending
<1>5. CASE FinalizingToc(s) BY <1>5 DEF FinalizingToc, Ending
<1>6. QED BY <1>1, <1>2, <1>3, <1>4, <1>5 DEF Line, Running

LEMMA RunningLeads ==
    ASSUME NEW s \in Context, NEW t \in Context, s.up, Writing(s, 0),
           Running(t, 0), Stays(s, t)
    PROVE  Leads(s, t)
<1>1. /\ t.up /\ t.recording /\ s.recording
      /\ t.segment_start_block = s.segment_start_block
      /\ s.vol.next_data_block = s.segment_start_block
  BY DEF Stays, Running, Writing, Charted, FinalizingHeader, Finalizing
<1>2. /\ s.vol.next_data_block \in Nat /\ t.vol.next_data_block \in Nat
      /\ t.next_write_block \in Nat /\ t.segment_start_block \in Nat
      /\ NumBlocks \in Nat
  BY RecorderAssumption DEF Context, Header
<1>3. CASE Writing(t, 0) /\ (t.stopping => t.pending_writes > 0)
  <2>1. /\ t.vol.next_data_block = t.segment_start_block
        /\ t.segment_start_block <= t.next_write_block
        /\ t.next_write_block <= NumBlocks
        /\ ~Ending(t)
    BY <1>3 DEF Writing, Charted, Ending
  <2>2. Line(t) BY <1>2, <1>3, <2>1 DEF Line, Running
  <2>3. QED BY <1>1, <1>2, <2>1, <2>2 DEF Leads
<1>4. CASE FinalizingHeader(t)
  <2>1. /\ t.vol.next_data_block = t.next_write_block
        /\ t.segment_start_block <= t.next_write_block
        /\ t.next_write_block <= NumBlocks
        /\ Ending(t)
    BY <1>4 DEF Finalizing, FinalizingHeader, Ending
  <2>2. Line(t) BY <1>2, <1>4, <2>1 DEF Line, Running
  <2>3. QED BY <1>1, <1>2, <2>1, <2>2 DEF Leads
<1>5. QED BY <1>3, <1>4 DEF Running

\* A recording that is stopping takes a request or a signal and goes on.
LEMMA StoppingLeads ==
    ASSUME NEW s \in Context, NEW t \in Context, s.up, Line(s), s.recording,
           Same(s, t), t.buffers = s.buffers, t.vol_buf = s.vol_buf,
           t.io_buf = s.io_buf, t.chains = s.chains,
           t.segment_id = s.segment_id, t.record_count = s.record_count,
           t.dropped_count = s.dropped_count
    PROVE  Leads(s, t)
<1>1. /\ t.up /\ t.recording /\ t.vol = s.vol
      /\ t.segment_start_block = s.segment_start_block
      /\ (Ending(t) <=> Ending(s))
      /\ s.vol.next_data_block \in Nat
  BY DEF Same, Ending, Context, Header
<1>2. Rest(s) => Rest(t) BY DEF Rest, Same
<1>3. FinalizedEntry(t) = FinalizedEntry(s) BY DEF FinalizedEntry, Same
<1>4. Finalizing(s) => Finalizing(t) BY <1>2 DEF Finalizing, Same
<1>5. FinalizingHeader(s) => FinalizingHeader(t)
  BY <1>4 DEF FinalizingHeader, Same
<1>6. FinalizingToc(s) => FinalizingToc(t)
  BY <1>3, <1>4 DEF FinalizingToc, Same
<1>7. Writing(s, 0) => Writing(t, 0) BY SameWrites
<1>8. Line(t)
  BY <1>5, <1>6, <1>7 DEF Line, Running, Idle, Claiming, Same
<1>9. QED BY <1>1, <1>8 DEF Leads

\* A stop request or a signal during a recording.
LEMMA StopLeads ==
    ASSUME Ample, NEW s, Good(s), NEW z, Good(z), s.up, Line(s), s.recording,
           Same(s, z), z.buffers = s.buffers, z.vol_buf = s.vol_buf,
           z.io_buf = s.io_buf, z.chains = s.chains,
           z.segment_id = s.segment_id, z.record_count = s.record_count,
           z.dropped_count = s.dropped_count
    PROVE  Leads(s, StopRecording(z, {})) /\ Untouched(s, StopRecording(z, {}))
<1> DEFINE t == StopRecording(z, {})
<1>1. s \in Context /\ z \in Context BY DEF Good
<1>2. Good(t) BY StopRecordingKeeps DEF Keeps
<1>3. CASE s.stopping
  <2>1. t = z BY <1>3 DEF StopRecording, Same
  <2> HIDE DEF t
  <2>2. Leads(s, t) BY <1>1, <2>1, StoppingLeads
  <2>3. QED BY <2>1, <2>2 DEF Untouched, Firm, t
<1>4. CASE ~s.stopping
  <2>1. Writing(s, 0)
    BY <1>4 DEF Line, Idle, Claiming, Running, FinalizingHeader,
      FinalizingToc, Finalizing
  <2>2. Writing(z, 0) /\ Stays(s, z) /\ Firm(s, z) /\ ~z.stopping
    BY <1>4, <2>1, SameWrites DEF Same
  <2>3. Running(t, 0) /\ Stays(z, t) /\ Untouched(z, t)
    BY <2>2, StopRecordingRuns
  <2> HIDE DEF t
  <2>4. Stays(s, t) /\ Untouched(s, t)
    BY <2>2, <2>3 DEF Stays, Untouched, Firm
  <2>5. Leads(s, t) BY <1>1, <1>2, <2>1, <2>3, <2>4, RunningLeads DEF Good
  <2>6. QED BY <2>4, <2>5 DEF t
<1>5. QED BY <1>3, <1>4

LEMMA IdleLeads ==
    ASSUME NEW s \in Context, NEW t \in Context, s.up, Line(s),
           Idle(t) \/ Claiming(t),
           t.vol.next_data_block = s.vol.next_data_block
    PROVE  Leads(s, t)
<1>1. ~t.recording BY DEF Idle, Claiming
<1>2. ~Ending(t) BY DEF Idle, Claiming, Ending
<1>3. Down(t) BY DEF Idle, Claiming, Down
<1>4. Line(t) BY DEF Line
<1>5. s.vol.next_data_block \in Nat BY DEF Context, Header
<1>6. QED BY <1>1, <1>2, <1>3, <1>4, <1>5 DEF Leads

-----------------------------------------------------------------------------
(* What a step writes to the device *)

Mark == disk.hdr.next_data_block

Wrote ==
    /\ Mark' \in {Mark, ctx.vol.next_data_block}
    /\ \A g \in Finalized(disk') :
          \/ g \in Finalized(disk) /\ disk'.toc[g] = disk.toc[g]
          \/ /\ FinalizingToc(ctx) /\ ~(ctx'.up /\ ctx'.recording)
             /\ g = ctx.segment_id /\ disk'.toc[g] = FinalizedEntry(ctx)
    /\ ctx'.up /\ Ending(ctx') => Mark' = Mark
    /\ MaxIoErrors = 0 /\ ctx'.up /\ Ending(ctx) /\ ~Ending(ctx')
         => Mark' = ctx.vol.next_data_block

LEMMA PerformedWrites ==
    ASSUME Line(ctx), NEW W \in SUBSET ctx.io
    PROVE  LET d == Performed(W)
           IN  /\ d.hdr.next_data_block \in {Mark, ctx.vol.next_data_block}
               /\ (\E r \in W : r.op = "finHdr") =>
                     d.hdr.next_data_block = ctx.vol.next_data_block
               /\ (\A r \in W : r.op \notin {"claimHdr", "finHdr"}) =>
                     d.hdr = disk.hdr
               /\ \A g \in Finalized(d) :
                     \/ g \in Finalized(disk) /\ d.toc[g] = disk.toc[g]
                     \/ /\ FinalizingToc(ctx) /\ g = ctx.segment_id
                        /\ d.toc[g] = FinalizedEntry(ctx)
                        /\ \E r \in W : r.op = "finToc"
<1> DEFINE d == Performed(W)
<1>1. d.hdr = IF \E r \in W : r.op \in {"claimHdr", "finHdr"}
              THEN ctx.vol_buf ELSE disk.hdr
  BY DEF Performed
<1>2. \A r \in W : r.op \in {"claimHdr", "finHdr"} => ctx.vol_buf = ctx.vol
  BY PhaseOf DEF FinalizingHeader
<1>3. \A g \in Slots : d.toc[g] =
        IF \E r \in W : r.op \in {"claimToc", "finToc"} /\ r.at = g
        THEN ctx.io_buf ELSE disk.toc[g]
  BY DEF Performed
<1> HIDE DEF d
<1>4. ASSUME NEW g \in Finalized(d)
      PROVE  \/ g \in Finalized(disk) /\ d.toc[g] = disk.toc[g]
             \/ /\ FinalizingToc(ctx) /\ g = ctx.segment_id
                /\ d.toc[g] = FinalizedEntry(ctx)
                /\ \E r \in W : r.op = "finToc"
  <2>1. g \in Slots /\ d.toc[g].state = "FINALIZED" BY DEF Finalized
  <2>2. CASE \E r \in W : r.op \in {"claimToc", "finToc"} /\ r.at = g
    <3>1. PICK r \in W : r.op \in {"claimToc", "finToc"} /\ r.at = g
      BY <2>2
    <3>2. d.toc[g] = ctx.io_buf BY <1>3, <2>1, <2>2
    <3>3. r.op # "claimToc"
      <4>1. SUFFICES ASSUME r.op = "claimToc" PROVE FALSE OBVIOUS
      <4>2. Claiming(ctx) /\ ctx.io = {r} BY <4>1, PhaseOf
      <4>3. ctx.io_buf.state = "OPEN"
        BY <4>1, <4>2 DEF Claiming, EmptyEntry
      <4>4. QED BY <2>1, <3>2, <4>3
    <3>4. FinalizingToc(ctx) /\ ctx.io = {r} BY <3>1, <3>3, PhaseOf
    <3>5. ctx.io_buf = FinalizedEntry(ctx) /\ r.at = ctx.segment_id
      BY <3>4 DEF FinalizingToc
    <3>6. QED BY <3>1, <3>2, <3>3, <3>4, <3>5
  <2>3. CASE ~\E r \in W : r.op \in {"claimToc", "finToc"} /\ r.at = g
    <3>1. d.toc[g] = disk.toc[g] BY <1>3, <2>1, <2>3
    <3>2. QED BY <2>1, <3>1 DEF Finalized
  <2>4. QED BY <2>2, <2>3
<1>5. QED BY <1>1, <1>2, <1>4 DEF Mark, d

\* A step that leaves the device alone.
LEMMA WroteNothing ==
    ASSUME UNCHANGED disk, ctx'.up => (Ending(ctx') \/ ~Ending(ctx))
    PROVE  Wrote
<1>1. Mark' = Mark BY DEF Mark
<1>2. Finalized(disk') = Finalized(disk) BY DEF Finalized
<1>3. QED BY <1>1, <1>2 DEF Wrote

\* An answer r of the device, performed or failed.
LEMMA WroteAnswer ==
    ASSUME Line(ctx), load \in Load, NEW r \in ctx.io, NEW ok \in BOOLEAN,
           NEW refuse, Answered(r, ok, refuse),
           r.op \in {"claimHdr", "finHdr"} => ~(ctx'.up /\ Ending(ctx')),
           r.op = "finToc" => ~(ctx'.up /\ ctx'.recording)
    PROVE  Wrote
<1>1. disk' = Performed({r}) \/ (~ok /\ disk' = disk) BY DEF Answered
<1>2. ~ok => MaxIoErrors # 0
  BY RecorderAssumption DEF Answered, Charge, Load
<1>3. Ending(ctx) => r.op = "finHdr"
  BY PhaseOf DEF Ending
<1>4. CASE disk' = Performed({r})
  <2>1. {r} \in SUBSET ctx.io OBVIOUS
  <2>2. Mark' = Performed({r}).hdr.next_data_block BY <1>4 DEF Mark
  <2>3. Finalized(disk') = Finalized(Performed({r})) BY <1>4
  <2> DEFINE d == Performed({r})
  <2>4. /\ d.hdr.next_data_block \in {Mark, ctx.vol.next_data_block}
        /\ r.op = "finHdr" => d.hdr.next_data_block = ctx.vol.next_data_block
        /\ r.op \notin {"claimHdr", "finHdr"} => d.hdr = disk.hdr
        /\ \A g \in Finalized(d) :
              \/ g \in Finalized(disk) /\ d.toc[g] = disk.toc[g]
              \/ /\ FinalizingToc(ctx) /\ g = ctx.segment_id
                 /\ d.toc[g] = FinalizedEntry(ctx) /\ r.op = "finToc"
    BY <2>1, PerformedWrites
  <2> HIDE DEF d
  <2>5. disk' = d BY <1>4 DEF d
  <2>6. QED BY <1>3, <2>2, <2>4, <2>5 DEF Wrote, Mark, d
<1>5. CASE ~ok /\ disk' = disk
  <2>1. Mark' = Mark BY <1>5 DEF Mark
  <2>2. Finalized(disk') = Finalized(disk) BY <1>5
  <2>3. QED BY <1>2, <1>5, <2>1, <2>2 DEF Wrote
<1>6. QED BY <1>1, <1>4, <1>5

-----------------------------------------------------------------------------
(* Every action *)

Steady == \A r \in DataRequests :
    r \in ctx'.io => ctx'.buffers[r.id].data = ctx.buffers[r.id].data

\* The device reads only buffers that are in flight, or of a recording that
\* has begun to stop.
LEMMA SteadyWriting ==
    ASSUME ctx \in Context, Writing(ctx, 0),
           \A i \in Buffers : ctx.buffers[i].in_flight \/ ctx.stopping =>
              ctx'.buffers[i].data = ctx.buffers[i].data
    PROVE  Steady
<1>1. ASSUME NEW r \in DataRequests
      PROVE  /\ r.id \in Buffers
             /\ ctx.buffers[r.id].in_flight \/ ctx.stopping
  <2>1. r \in ctx.io /\ r \in Request BY DEF DataRequests, Context
  <2>2. r.op = "data" BY DEF DataRequests
  <2>3. QED BY <2>1, <2>2 DEF Request, Writing, Single
<1>2. QED BY <1>1 DEF Steady

LEMMA SteadyElse ==
    ASSUME Line(ctx), ~Writing(ctx, 0)
    PROVE  Steady
  BY PhaseOf DEF Steady, DataRequests

\* With MaxRefusals = 0 the device refuses no submission of any handler.
LEMMA NoRefusal ==
    ASSUME Ample, load \in Load, NEW refuse,
           refuse # {} => load.refusals < MaxRefusals
    PROVE  refuse = {}
  BY DEF Ample, Load

LEMMA NextLeads ==
    ASSUME Ample, IInv, ctx.up, Line(ctx), [Next]_vars
    PROVE  Leads(ctx, ctx') /\ Wrote /\ Steady
<1>1. /\ Good(ctx) /\ ctx \in Context /\ load \in Load
  BY DEF IInv, TypeOK, Good
<1>2. ctx' \in Context BY NextIInv DEF IInv, TypeOK
<1>3. \A r \in ctx.io : r \in Request /\ r.id \in Nat
  BY <1>1 DEF Context, Request
<1>4. CASE Packet
  <2>1. PICK size \in RecSizes, refuse \in SUBSET {"data", "hdr", "toc"} :
          /\ ctx' = CapturePoll(ctx, size, refuse)
          /\ ctx.recording /\ ~ctx.stopping
          /\ refuse # {} => load.refusals < MaxRefusals
          /\ UNCHANGED disk
    BY <1>4, AmpleSizes DEF Packet
  <2>2. size \in Nat /\ refuse = {}
    BY <1>1, <2>1, RecorderAssumption, NoRefusal
  <2>3. Writing(ctx, 0)
    BY <2>1 DEF Line, Idle, Claiming, Running, FinalizingHeader,
      FinalizingToc, Finalizing
  <2>4. Running(ctx', 0) /\ Stays(ctx, ctx') /\ Firm(ctx, ctx')
    BY <1>1, <2>1, <2>2, <2>3, CapturePollRuns
  <2>5. Leads(ctx, ctx') BY <1>1, <1>2, <2>3, <2>4, RunningLeads
  <2>6. ~Ending(ctx) BY <2>3 DEF Writing, Charted, Ending
  <2>7. Steady BY <1>1, <2>1, <2>3, <2>4, SteadyWriting DEF Firm
  <2>8. QED BY <2>1, <2>5, <2>6, <2>7, WroteNothing
<1>5. CASE RecordingStart
  <2> DEFINE s == [ctx EXCEPT !.admin_req = "start"]
  <2>1. PICK refuse \in SUBSET {"toc"} :
          /\ Charge(refuse, TRUE) /\ ctx' = ClaimSegmentStart(s, refuse)
          /\ ~ctx.recording /\ ctx.admin_req = "none" /\ UNCHANGED disk
    BY <1>5 DEF RecordingStart
  <2>2. refuse = {} BY <1>1, <2>1, NoRefusal DEF Charge
  <2>3. Idle(ctx)
    BY <2>1 DEF Line, Claiming, Running, Writing, FinalizingHeader,
      FinalizingToc, Finalizing
  <2>4. s \in Context BY <1>1 DEF Context
  <2>5. /\ Same(ctx, s) /\ s.buffers = ctx.buffers /\ s.admin_req = "start"
        /\ s.cur_buf = ctx.cur_buf
    BY <1>1 DEF Context, Same
  <2> HIDE DEF s
  <2>6. Good(s) /\ Idle(s)
    BY <1>1, <2>3, <2>4, <2>5 DEF Good, Spare, Idle, Rest, Same
  <2>7. /\ Idle(ctx') \/ Claiming(ctx')
        /\ ctx'.up = s.up /\ ctx'.vol = s.vol
    BY <2>1, <2>2, <2>5, <2>6, ClaimSegmentStartClaims
  <2>8. Leads(ctx, ctx') BY <1>1, <1>2, <2>5, <2>7, IdleLeads DEF Same
  <2>9. ~Ending(ctx) /\ ~Writing(ctx, 0)
    BY <2>3 DEF Idle, Ending, Writing
  <2>10. QED BY <2>1, <2>8, <2>9, WroteNothing, SteadyElse
<1>6. CASE RecordingStop
  <2> DEFINE z == [ctx EXCEPT !.admin_req = "stop",
                              !.last_stop_reason = "USER"]
  <2>1. PICK refuse \in SUBSET {"data", "hdr", "toc"} :
          /\ Charge(refuse, TRUE) /\ ctx' = StopRecording(z, refuse)
          /\ ctx.recording /\ UNCHANGED disk
    BY <1>6 DEF RecordingStop
  <2>2. refuse = {} BY <1>1, <2>1, NoRefusal DEF Charge
  <2>3. z \in Context BY <1>1 DEF Context
  <2>4. /\ Same(ctx, z) /\ z.buffers = ctx.buffers
        /\ z.cur_buf = ctx.cur_buf /\ z.vol_buf = ctx.vol_buf
        /\ z.io_buf = ctx.io_buf /\ z.chains = ctx.chains
        /\ z.segment_id = ctx.segment_id
        /\ z.record_count = ctx.record_count
        /\ z.dropped_count = ctx.dropped_count
    BY <1>1 DEF Context, Same
  <2> HIDE DEF z
  <2>5. Good(z) BY <1>1, <2>3, <2>4 DEF Good, Spare
  <2>6. Leads(ctx, ctx') /\ Untouched(ctx, ctx')
    BY <1>1, <2>1, <2>2, <2>4, <2>5, StopLeads
  <2>7. Steady /\ (ctx'.up => Ending(ctx') \/ ~Ending(ctx))
    PROOF
    <3>1. CASE ctx.stopping
      <4>1. ctx' = z BY <2>1, <2>4, <3>1 DEF StopRecording, Same
      <4>2. QED BY <2>4, <4>1 DEF Steady, Ending, Same
    <3>2. CASE ~ctx.stopping
      <4>1. Writing(ctx, 0)
        BY <2>1, <3>2 DEF Line, Idle, Claiming, Running, FinalizingHeader,
          FinalizingToc, Finalizing
      <4>2. ~Ending(ctx) BY <4>1 DEF Writing, Charted, Ending
      <4>3. Steady
        BY <1>1, <2>6, <3>2, <4>1, SteadyWriting DEF Untouched, Firm
      <4>4. QED BY <4>2, <4>3
    <3>3. QED BY <3>1, <3>2
  <2>8. QED BY <2>1, <2>6, <2>7, WroteNothing
<1>7. CASE Shutdown
  <2> DEFINE z == [ctx EXCEPT !.shutting_down = TRUE]
  <2>1. PICK refuse \in SUBSET {"data", "hdr", "toc"} :
          /\ Charge(refuse, TRUE) /\ UNCHANGED disk
          /\ ctx' = IF ServeMode /\ ~z.recording THEN Teardown(z)
                    ELSE StopRecording(z, refuse)
    BY <1>7 DEF Shutdown
  <2>2. refuse = {} BY <1>1, <2>1, NoRefusal DEF Charge
  <2>3. z \in Context BY <1>1 DEF Context
  <2>4. /\ Same(ctx, z) /\ z.buffers = ctx.buffers
        /\ z.cur_buf = ctx.cur_buf /\ z.vol_buf = ctx.vol_buf
        /\ z.io_buf = ctx.io_buf /\ z.chains = ctx.chains
        /\ z.segment_id = ctx.segment_id
        /\ z.record_count = ctx.record_count
        /\ z.dropped_count = ctx.dropped_count
    BY <1>1 DEF Context, Same
  <2> HIDE DEF z
  <2>5. Good(z) BY <1>1, <2>3, <2>4 DEF Good, Spare
  <2>6. CASE ~ctx.recording
    <3>1. ctx' = Teardown(z) BY <2>1, <2>4, <2>6, AmpleSizes DEF Same
    <3>2. /\ ~ctx'.up /\ ctx'.io = ctx.io /\ ctx'.buffers = ctx.buffers
      BY <2>3, <2>4, <3>1 DEF Teardown, Context, Same
    <3>3. Down(ctx')
      BY <2>6, <3>2 DEF Line, Running, Writing, FinalizingHeader,
        FinalizingToc, Finalizing, Idle, Claiming, Down
    <3>4. Steady BY <3>2 DEF Steady
    <3>5. QED BY <2>1, <3>2, <3>3, <3>4, WroteNothing DEF Leads
  <2>7. CASE ctx.recording
    <3>1. ctx' = StopRecording(z, {}) BY <2>1, <2>2, <2>4, <2>7 DEF Same
    <3>2. Leads(ctx, ctx') /\ Untouched(ctx, ctx')
      BY <1>1, <2>4, <2>5, <2>7, <3>1, StopLeads
    <3>3. CASE ctx.stopping
      <4>1. ctx' = z BY <2>4, <3>1, <3>3 DEF StopRecording, Same
      <4>2. Steady /\ (Ending(ctx') <=> Ending(ctx))
        BY <2>4, <4>1 DEF Steady, Ending, Same
      <4>3. QED BY <2>1, <3>2, <4>2, WroteNothing
    <3>4. CASE ~ctx.stopping
      <4>1. Writing(ctx, 0)
        BY <2>7, <3>4 DEF Line, Idle, Claiming, Running, FinalizingHeader,
          FinalizingToc, Finalizing
      <4>2. ~Ending(ctx) BY <4>1 DEF Writing, Charted, Ending
      <4>3. Steady
        BY <1>1, <3>2, <3>4, <4>1, SteadyWriting DEF Untouched, Firm
      <4>4. QED BY <2>1, <3>2, <4>2, <4>3, WroteNothing
    <3>5. QED BY <3>3, <3>4
  <2>8. QED BY <2>6, <2>7
<1>8. CASE DataWritten
  <2>1. PICK r \in ctx.io, ok \in BOOLEAN, refuse \in SUBSET Refusable :
          /\ Answered(r, ok, refuse) /\ r.op = "data"
          /\ ctx' = WriteComplete(ctx, r, ok, refuse)
    BY <1>8 DEF DataWritten
  <2>2. refuse = {} BY <1>1, <2>1, NoRefusal DEF Answered, Charge
  <2>3. Writing(ctx, 0) BY <2>1, PhaseOf
  <2>4. /\ Running(ctx', 0) /\ Stays(ctx, ctx')
        /\ \A i \in Buffers : ctx.buffers[i].in_flight \/ ctx.stopping =>
              ctx'.buffers[i].data = ctx.buffers[i].data
    BY <1>1, <2>1, <2>2, <2>3, WriteCompleteRuns
  <2>5. Leads(ctx, ctx') BY <1>1, <1>2, <2>3, <2>4, RunningLeads
  <2>6. Steady BY <1>1, <2>3, <2>4, SteadyWriting
  <2>7. Wrote BY <1>1, <2>1, WroteAnswer
  <2>8. QED BY <2>5, <2>6, <2>7
<1>9. CASE ClaimTocWritten
  <2>1. PICK r \in ctx.io, ok \in BOOLEAN, refuse \in SUBSET Refusable :
          /\ Answered(r, ok, refuse) /\ r.op = "claimToc"
          /\ ctx' = ClaimTocDone(FreeIo(ctx, r, refuse), ok, refuse)
    BY <1>9 DEF ClaimTocWritten
  <2>2. refuse = {} BY <1>1, <2>1, NoRefusal DEF Answered, Charge
  <2>3. Claiming(ctx) /\ ctx.io = {r} BY <2>1, PhaseOf
  <2> DEFINE u == FreeIo(ctx, r, {})
  <2>4. /\ Good(u) /\ Chained(ctx, u) /\ u.io = {} /\ u.up = ctx.up
        /\ u.recording = ctx.recording /\ u.admin_req = ctx.admin_req
        /\ u.vol = ctx.vol
        /\ u.segment_start_block = ctx.segment_start_block
    BY <1>1, <2>3, FreeIoAlone DEF Claiming, Rest
  <2>5. ctx' = ClaimTocDone(u, ok, {}) BY <2>1, <2>2
  <2> HIDE DEF u
  <2>6. Rest(u) BY <2>3, <2>4, RestChained DEF Claiming
  <2>7. /\ Idle(ctx') \/ Claiming(ctx')
        /\ ctx'.vol.next_data_block = ctx.vol.next_data_block
    BY <2>3, <2>4, <2>5, <2>6, ClaimTocDoneClaims DEF Claiming
  <2>8. Leads(ctx, ctx') BY <1>1, <1>2, <2>7, IdleLeads
  <2>9. ~Writing(ctx, 0) BY <2>3 DEF Claiming, Writing
  <2>10. QED BY <1>1, <2>1, <2>8, <2>9, WroteAnswer, SteadyElse
<1>10. CASE ClaimHeaderWritten
  <2>1. PICK r \in ctx.io, ok \in BOOLEAN, refuse \in SUBSET Refusable :
          /\ Answered(r, ok, refuse) /\ r.op = "claimHdr"
          /\ ctx' = ClaimHeaderDone(FreeIo(ctx, r, refuse), ok)
    BY <1>10 DEF ClaimHeaderWritten
  <2>2. refuse = {} BY <1>1, <2>1, NoRefusal DEF Answered, Charge
  <2>3. Claiming(ctx) /\ ctx.io = {r} BY <2>1, PhaseOf
  <2> DEFINE u == FreeIo(ctx, r, {})
  <2>4. /\ Good(u) /\ Chained(ctx, u) /\ u.io = {} /\ u.up = ctx.up
        /\ u.recording = ctx.recording /\ u.vol = ctx.vol
        /\ u.segment_start_block = ctx.segment_start_block
    BY <1>1, <2>3, FreeIoAlone DEF Claiming, Rest
  <2>5. ctx' = ClaimHeaderDone(u, ok) BY <2>1, <2>2
  <2> HIDE DEF u
  <2>6. Rest(u) BY <2>3, <2>4, RestChained DEF Claiming
  <2>7. /\ IF ok THEN /\ Running(ctx', 0) /\ ~ctx'.stopping
                      /\ ctx'.segment_start_block = u.segment_start_block
                 ELSE Idle(ctx')
        /\ ctx'.up = u.up /\ ctx'.vol = u.vol
    BY <2>3, <2>4, <2>5, <2>6, ClaimHeaderDoneBegins DEF Claiming, Line
  <2>8. Leads(ctx, ctx') /\ ~Ending(ctx')
    <3>1. CASE ~ok
      <4>1. Leads(ctx, ctx') BY <1>1, <1>2, <2>4, <2>7, <3>1, IdleLeads
      <4>2. ~Ending(ctx') BY <2>7, <3>1 DEF Idle, Ending
      <4>3. QED BY <4>1, <4>2
    <3>2. CASE ok
      <4>1. ~Ending(ctx')
        BY <2>7, <3>2 DEF Running, Writing, Charted, FinalizingHeader,
          Finalizing, Ending
      <4>2. Line(ctx') BY <2>4, <2>7, <3>2 DEF Line
      <4>3. ~ctx.recording
            /\ ctx.segment_start_block = ctx.vol.next_data_block
        BY <2>3 DEF Claiming
      <4>4. ctx.vol.next_data_block \in Nat BY <1>1 DEF Context, Header
      <4>5. QED BY <2>4, <2>7, <3>2, <4>1, <4>2, <4>3, <4>4 DEF Leads
    <3>3. QED BY <3>1, <3>2
  <2>9. ~Writing(ctx, 0) BY <2>3 DEF Claiming, Writing
  <2>10. QED BY <1>1, <2>1, <2>8, <2>9, WroteAnswer, SteadyElse
<1>11. CASE FinalizeHeaderWritten
  <2>1. PICK r \in ctx.io, ok \in BOOLEAN, refuse \in SUBSET Refusable :
          /\ Answered(r, ok, refuse) /\ r.op = "finHdr"
          /\ ctx' = FinalizeHeaderDone(FreeIo(ctx, r, refuse), r.id, refuse)
    BY <1>11 DEF FinalizeHeaderWritten
  <2>2. refuse = {} BY <1>1, <2>1, NoRefusal DEF Answered, Charge
  <2>3. FinalizingHeader(ctx) /\ ctx.io = {r} BY <2>1, PhaseOf
  <2>4. r.id = ctx.chains BY <2>3 DEF FinalizingHeader
  <2> DEFINE u == FreeIo(ctx, r, {})
  <2>5. /\ Good(u) /\ Chained(ctx, u) /\ u.io = {} /\ u.up = ctx.up
        /\ u.recording = ctx.recording /\ u.vol = ctx.vol
        /\ u.segment_start_block = ctx.segment_start_block
        /\ u.chains = ctx.chains
    BY <1>1, <2>3, FreeIoAlone DEF FinalizingHeader, Finalizing, Rest
  <2>6. ctx' = FinalizeHeaderDone(u, u.chains, {}) BY <2>1, <2>2, <2>4, <2>5
  <2> HIDE DEF u
  <2>7. Finalizing(u)
    BY <2>3, <2>5, RestChained DEF FinalizingHeader, Finalizing, Chained
  <2>8. FinalizingToc(ctx') /\ Stays(u, ctx') /\ ctx'.vol = u.vol
    BY <2>5, <2>6, <2>7, FinalizeHeaderDoneFinalizes
  <2>9. ~Ending(ctx') BY <2>8 DEF FinalizingToc, Ending
  <2>10. Leads(ctx, ctx')
    <3>1. Line(ctx') BY <2>5, <2>8 DEF Line
    <3>2. ctx.recording /\ ctx'.recording
      BY <2>3, <2>8 DEF FinalizingHeader, FinalizingToc, Finalizing
    <3>3. ctx.vol.next_data_block \in Nat BY <1>1 DEF Context, Header
    <3>4. QED BY <2>5, <2>8, <2>9, <3>1, <3>2, <3>3 DEF Leads, Stays
  <2>11. ~Writing(ctx, 0)
    BY <2>3 DEF FinalizingHeader, Writing, Charted
  <2>12. QED BY <1>1, <2>1, <2>9, <2>10, <2>11, WroteAnswer, SteadyElse
<1>12. CASE FinalizeTocWritten
  <2>1. PICK r \in ctx.io, ok \in BOOLEAN, refuse \in SUBSET Refusable :
          /\ Answered(r, ok, refuse) /\ r.op = "finToc"
          /\ ctx' = FinalizeTocDone(FreeIo(ctx, r, refuse))
    BY <1>12 DEF FinalizeTocWritten
  <2>2. refuse = {} BY <1>1, <2>1, NoRefusal DEF Answered, Charge
  <2>3. FinalizingToc(ctx) /\ ctx.io = {r} BY <2>1, PhaseOf
  <2> DEFINE u == FreeIo(ctx, r, {})
  <2>4. /\ Good(u) /\ Chained(ctx, u) /\ u.io = {} /\ u.up = ctx.up
        /\ u.recording = ctx.recording /\ u.vol = ctx.vol
        /\ u.segment_start_block = ctx.segment_start_block
    BY <1>1, <2>3, FreeIoAlone DEF FinalizingToc, Finalizing, Rest
  <2>5. ctx' = FinalizeTocDone(u) BY <2>1, <2>2
  <2> HIDE DEF u
  <2>6. Finalizing(u)
    BY <2>3, <2>4, RestChained DEF FinalizingToc, Finalizing, Chained
  <2>7. Idle(ctx') /\ ctx'.vol = u.vol
    BY <2>4, <2>5, <2>6, FinalizeTocDoneEnds
  <2>8. Leads(ctx, ctx')
    BY <1>1, <1>2, <2>4, <2>7, IdleLeads
  <2>9. ~Writing(ctx, 0) BY <2>3 DEF FinalizingToc, Writing, Charted
  <2>10. ~ctx'.recording BY <2>7 DEF Idle
  <2>11. QED BY <1>1, <2>1, <2>8, <2>9, <2>10, WroteAnswer, SteadyElse
<1>13. CASE Crash
  <2>1. PICK W \in SUBSET ctx.io :
          /\ disk' = Performed(W)
          /\ ctx' = [Teardown(ctx) EXCEPT !.io = {}]
    BY <1>13 DEF Crash
  <2>2. ~ctx'.up /\ ctx'.io = {} BY <1>1, <2>1 DEF Teardown, Context
  <2>3. Steady BY <2>2 DEF Steady
  <2>4. Leads(ctx, ctx') BY <2>2 DEF Leads, Down
  <2> DEFINE d == Performed(W)
  <2>5. /\ d.hdr.next_data_block \in {Mark, ctx.vol.next_data_block}
        /\ \A g \in Finalized(d) :
              \/ g \in Finalized(disk) /\ d.toc[g] = disk.toc[g]
              \/ /\ FinalizingToc(ctx) /\ g = ctx.segment_id
                 /\ d.toc[g] = FinalizedEntry(ctx)
    BY PerformedWrites
  <2> HIDE DEF d
  <2>6. disk' = d BY <2>1 DEF d
  <2>7. Wrote BY <2>2, <2>5, <2>6 DEF Wrote, Mark
  <2>8. QED BY <2>3, <2>4, <2>7
<1>14. CASE Boot BY <1>14 DEF Boot
<1>15. CASE UNCHANGED vars
  <2>1. ctx' = ctx /\ disk' = disk BY <1>15 DEF vars
  <2>2. ctx.vol.next_data_block \in Nat BY <1>1 DEF Context, Header
  <2>3. Ending(ctx) => ctx.recording
    BY PhaseOf DEF Ending, FinalizingHeader, Finalizing
  <2>4. Line(ctx') /\ (Ending(ctx') <=> Ending(ctx)) BY <2>1
  <2>5. ctx.recording \/ ~ctx'.recording BY <2>1
  <2>6. Leads(ctx, ctx')
    BY <2>1, <2>2, <2>3, <2>4, <2>5 DEF Leads
  <2>7. Steady BY <2>1 DEF Steady
  <2>8. QED BY <2>1, <2>4, <2>6, <2>7, WroteNothing
<1>16. QED
  BY <1>4, <1>5, <1>6, <1>7, <1>8, <1>9, <1>10, <1>11, <1>12, <1>13, <1>14,
     <1>15 DEF Next

-----------------------------------------------------------------------------
(* The inductive invariant of the sessions *)

\* A running daemon is in one of the phases of Line, and never has less data
\* behind its high-water mark than the device has.
Session ==
    /\ IF ctx.up THEN Line(ctx) /\ Mark <= ctx.vol.next_data_block
                 ELSE Down(ctx)
    /\ DataStart <= Mark /\ Mark <= NumBlocks

LEMMA FreshIdles ==
    ASSUME Ample, NEW hdr \in Header
    PROVE  LET f == Started(hdr, {})
           IN  f.up /\ Idle(f) /\ f.vol = hdr
<1> DEFINE f == Fresh(hdr)
<1>1. Started(hdr, {}) = f BY DEF Started, Ample
<1>2. /\ f.up /\ f.vol = hdr /\ f.io = {} /\ ~f.recording
      /\ f.bdev_io_wait = NoBuf /\ ~f.wait_requeued
      /\ f.pending_writes = 0 /\ f.buffers = EmptyBuffers
  BY DEF Fresh
<1> HIDE DEF f
<1>3. \A i \in Buffers : ~EmptyBuffers[i].in_flight BY DEF EmptyBuffers
<1>4. QED BY <1>1, <1>2, <1>3 DEF Idle, Rest

LEMMA InitSession == ASSUME Ample PROVE Init => Session
<1> SUFFICES ASSUME Init PROVE Session OBVIOUS
<1>1. FormattedHeader \in Header
  BY DEF FormattedHeader, DataStart, Header
<1>2. FormattedHeader.next_data_block = DataStart BY DEF FormattedHeader
<1>3. ctx.up /\ Idle(ctx) /\ ctx.vol = FormattedHeader
  BY <1>1, FreshIdles DEF Init
<1>4. Mark = DataStart BY <1>2 DEF Init, Mark
<1>5. DataStart \in Nat /\ DataStart <= NumBlocks
  BY AmpleSizes DEF DataStart
<1>6. QED BY <1>2, <1>3, <1>4, <1>5 DEF Session, Line

\* Where a start leads.
LEMMA BootStarts ==
    ASSUME Ample, IInv, Boot
    PROVE  /\ ctx'.up /\ Idle(ctx') /\ ctx'.vol = disk.hdr
           /\ UNCHANGED disk /\ load.boots < MaxBoots /\ ~ctx.up
<1>1. PICK refuse \in SUBSET {"toc"} :
        /\ refuse # {} => load.refusals < MaxRefusals
        /\ ctx' = Started(disk.hdr, refuse) /\ UNCHANGED disk
        /\ load.boots < MaxBoots /\ ~ctx.up
  BY DEF Boot
<1>2. load \in Load /\ disk.hdr \in Header BY DEF IInv, TypeOK
<1>3. refuse = {} BY <1>1, <1>2, NoRefusal
<1>4. QED BY <1>1, <1>2, <1>3, FreshIdles

\* When the daemon has left only a start can follow.
LEMMA DownSteps ==
    ASSUME Ample, ~ctx.up, [Next]_vars
    PROVE  Boot \/ UNCHANGED vars
  BY AmpleSizes
  DEF Next, Packet, RecordingStart, RecordingStop, Shutdown, DataWritten,
    ClaimTocWritten, ClaimHeaderWritten, FinalizeHeaderWritten,
    FinalizeTocWritten, Answered, Crash

LEMMA NextSession ==
    ASSUME Ample, IInv, Session, [Next]_vars PROVE Session'
<1>1. /\ ctx.vol.next_data_block \in Nat /\ Mark \in Nat /\ NumBlocks \in Nat
      /\ DataStart \in Nat
  BY AmpleSizes DEF IInv, TypeOK, Context, Header, Mark, DataStart
<1>2. ctx'.vol.next_data_block \in Nat
  BY NextIInv DEF IInv, TypeOK, Context, Header
<1>3. CASE ctx.up
  <2>1. Line(ctx) /\ Mark <= ctx.vol.next_data_block
    BY <1>3 DEF Session
  <2>2. Leads(ctx, ctx') /\ Wrote BY <1>3, <2>1, NextLeads
  <2>3. Mark' = Mark \/ Mark' = ctx.vol.next_data_block
    BY <2>2 DEF Wrote
  <2>4. ctx.vol.next_data_block <= NumBlocks BY <2>1 DEF Line
  <2>5. DataStart <= Mark' /\ Mark' <= NumBlocks
    BY <1>1, <2>1, <2>3, <2>4 DEF Session
  <2>6. CASE ctx'.up
    <3>1. Line(ctx') /\ ctx.vol.next_data_block <= ctx'.vol.next_data_block
      BY <2>2, <2>6 DEF Leads
    <3>2. Mark' <= ctx'.vol.next_data_block
      BY <1>1, <1>2, <2>1, <2>3, <3>1
    <3>3. QED BY <2>5, <2>6, <3>1, <3>2 DEF Session
  <2>7. CASE ~ctx'.up
    BY <2>2, <2>5, <2>7 DEF Session, Leads
  <2>8. QED BY <2>6, <2>7
<1>4. CASE ~ctx.up
  <2>1. CASE Boot
    <3>1. /\ ctx'.up /\ Idle(ctx') /\ ctx'.vol = disk.hdr /\ UNCHANGED disk
      BY <2>1, BootStarts
    <3>2. Mark' = Mark /\ ctx'.vol.next_data_block = Mark
      BY <3>1 DEF Mark
    <3>3. DataStart <= Mark /\ Mark <= NumBlocks BY DEF Session
    <3>4. Line(ctx') BY <3>1, <3>2, <3>3 DEF Line
    <3>5. QED BY <1>1, <3>1, <3>2, <3>3, <3>4 DEF Session
  <2>2. CASE UNCHANGED vars
    <3>1. ctx' = ctx /\ Mark' = Mark BY <2>2 DEF vars, Mark
    <3>2. QED BY <3>1 DEF Session
  <2>3. QED BY <1>4, <2>1, <2>2, DownSteps
<1>5. QED BY <1>3, <1>4

LEMMA SessionAlways ==
    ASSUME Ample PROVE Spec => [](IInv /\ Session)
<1>1. Init => IInv /\ Session BY InitIInv, InitSession
<1>2. (IInv /\ Session) /\ [Next]_vars => (IInv /\ Session)'
  BY NextIInv, NextSession
<1>3. QED BY <1>1, <1>2, PTL DEF Spec

\* What the phases say of the writes at the device.
LEMMA DataOf ==
    ASSUME NEW s, Line(s)
    PROVE  \/ Writing(s, 0) /\ \A r \in s.io : r.op = "data"
           \/ Rest(s) /\ \A r \in s.io : r.op # "data"
<1>1. CASE Idle(s) BY <1>1 DEF Idle
<1>2. CASE Claiming(s) BY <1>2 DEF Claiming
<1>3. CASE Writing(s, 0) BY <1>3 DEF Writing, Charted
<1>4. CASE FinalizingHeader(s) BY <1>4 DEF FinalizingHeader, Finalizing
<1>5. CASE FinalizingToc(s) BY <1>5 DEF FinalizingToc, Finalizing
<1>6. QED BY <1>1, <1>2, <1>3, <1>4, <1>5 DEF Line, Running

-----------------------------------------------------------------------------
(* What a session owes: the counter, the queue and the device agree *)

\* pending_writes is exact: it counts the writes the device holds and the one
\* the wait queue holds, no more and no less, whichever of write_complete,
\* retry_flush and the final flush of a stop moved it last.
THEOREM PendingIsExact ==
    ASSUME Ample PROVE Spec => []PendingMatchesWrites
<1>1. ASSUME IInv, Session, ctx.up
      PROVE  ctx.pending_writes = Cardinality(DataRequests)
               + Cardinality({ctx.bdev_io_wait} \ {NoBuf})
  <2>1. Line(ctx) BY <1>1 DEF Session
  <2>2. Cardinality({ctx.bdev_io_wait} \ {NoBuf}) = Waiters(ctx)
    <3>1. CASE ctx.bdev_io_wait = NoBuf
      <4>1. {ctx.bdev_io_wait} \ {NoBuf} = {} BY <3>1
      <4>2. QED BY <3>1, <4>1, FS_EmptySet DEF Waiters
    <3>2. CASE ctx.bdev_io_wait # NoBuf
      <4>1. {ctx.bdev_io_wait} \ {NoBuf} = {ctx.bdev_io_wait} BY <3>2
      <4>2. QED BY <3>2, <4>1, FS_Singleton DEF Waiters
    <3>3. QED BY <3>1, <3>2
  <2>3. CASE Writing(ctx, 0) /\ \A r \in ctx.io : r.op = "data"
    <3>1. DataRequests = ctx.io BY <2>3 DEF DataRequests
    <3>2. /\ IsFiniteSet(ctx.io)
          /\ ctx.pending_writes = Cardinality(ctx.io) + Waiters(ctx) + 0
      BY <2>3 DEF Writing, Counted
    <3>3. Cardinality(ctx.io) \in Nat BY <3>2, FS_CardinalityType
    <3>4. Waiters(ctx) \in Nat BY DEF Waiters
    <3>5. QED BY <2>2, <3>1, <3>2, <3>3, <3>4
  <2>4. CASE Rest(ctx) /\ \A r \in ctx.io : r.op # "data"
    <3>1. DataRequests = {} BY <2>4 DEF DataRequests
    <3>2. Cardinality(DataRequests) = 0 BY <3>1, FS_EmptySet
    <3>3. Waiters(ctx) = 0 /\ ctx.pending_writes = 0
      BY <2>4 DEF Rest, Waiters
    <3>4. QED BY <2>2, <3>2, <3>3
  <2>5. QED BY <2>1, <2>3, <2>4, DataOf
<1>2. IInv /\ Session => PendingMatchesWrites
  BY <1>1 DEF PendingMatchesWrites
<1>3. QED BY <1>2, SessionAlways, PTL

\* A buffer marked in flight is one the device still has to answer, or the
\* one queued for retry: none is leaked by a failed write, so the ring never
\* runs dry while recording goes on.
THEOREM InFlightIsOwned ==
    ASSUME Ample PROVE Spec => []InFlightIsHeld
<1>1. ASSUME IInv, Session PROVE InFlightIsHeld
  <2>1. CASE ~ctx.up BY <2>1 DEF InFlightIsHeld
  <2>2. CASE ctx.up
    <3>1. Line(ctx) BY <1>1, <2>2 DEF Session
    <3>2. CASE Writing(ctx, 0) /\ \A r \in ctx.io : r.op = "data"
      <4>1. DataRequests = ctx.io BY <3>2 DEF DataRequests
      <4>2. QED BY <3>2, <4>1 DEF Writing, Held, InFlightIsHeld
    <3>3. CASE Rest(ctx) BY <3>3 DEF Rest, InFlightIsHeld
    <3>4. QED BY <3>1, <3>2, <3>3, DataOf
  <2>3. QED BY <2>1, <2>2
<1>2. IInv /\ Session => InFlightIsHeld BY <1>1
<1>3. QED BY <1>2, SessionAlways, PTL

\* The header and the TOC entry of a segment are written only when every data
\* write of it has been answered and none waits in the queue.
THEOREM DrainsFirst ==
    ASSUME Ample PROVE Spec => []DrainedBeforeFinalize
<1>1. ASSUME IInv, Session PROVE DrainedBeforeFinalize
  <2>1. SUFFICES ASSUME NEW q \in ctx.io, q.op \in {"finHdr", "finToc"}
                 PROVE  DataRequests = {} /\ ctx.bdev_io_wait = NoBuf
    BY DEF DrainedBeforeFinalize
  <2>2. ctx.up /\ Line(ctx) BY <1>1, <2>1 DEF Session, Down
  <2>3. Rest(ctx) /\ \A r \in ctx.io : r.op # "data" BY <2>1, <2>2, DataOf
  <2>4. QED BY <2>3 DEF Rest, DataRequests
<1>2. IInv /\ Session => DrainedBeforeFinalize BY <1>1
<1>3. QED BY <1>2, SessionAlways, PTL

\* No two writes in progress share a block, and every one lies in the open
\* segment's own space and on the device.
THEOREM WritesAreApart ==
    ASSUME Ample PROVE Spec => []WritesStayInSegment
<1>1. ASSUME IInv, Session PROVE WritesStayInSegment
  <2>1. SUFFICES ASSUME ctx.up
                 PROVE  /\ \A q, r \in DataRequests : q.at = r.at => q = r
                        /\ \A r \in DataRequests :
                              /\ ctx.segment_start_block <= r.at
                              /\ r.at < ctx.next_write_block
                              /\ r.at < NumBlocks
    BY DEF WritesStayInSegment
  <2>2. Line(ctx) BY <1>1, <2>1 DEF Session
  <2>3. CASE Writing(ctx, 0) /\ \A r \in ctx.io : r.op = "data"
    <3>1. DataRequests = ctx.io BY <2>3 DEF DataRequests
    <3>2. Charted(ctx) BY <2>3 DEF Writing
    <3>3. ASSUME NEW r \in ctx.io
          PROVE  /\ ctx.segment_start_block <= r.at
                 /\ r.at < ctx.next_write_block /\ r.at < NumBlocks
      <4>1. Inside(ctx, r.at) /\ ctx.next_write_block <= NumBlocks
        BY <3>2 DEF Charted
      <4>2. r.at \in Nat /\ ctx.next_write_block \in Nat /\ NumBlocks \in Nat
        BY <1>1, AmpleSizes DEF IInv, TypeOK, Context, Request
      <4>3. QED BY <4>1, <4>2 DEF Inside
    <3>4. QED BY <3>1, <3>2, <3>3 DEF Charted
  <2>4. CASE \A r \in ctx.io : r.op # "data"
    BY <2>4 DEF DataRequests
  <2>5. QED BY <2>2, <2>3, <2>4, DataOf
<1>2. IInv /\ Session => WritesStayInSegment BY <1>1
<1>3. QED BY <1>2, SessionAlways, PTL

\* A segment is finalized by one chain of writes: no second chain begins while
\* a header or a TOC entry of the first is at the device, whichever of the
\* stop, the signal, the disk that is full and the run of failures comes first.
THEOREM OneChain ==
    ASSUME Ample PROVE Spec => []FinalizeChainsDoNotOverlap
<1>1. ASSUME IInv, Session PROVE FinalizeChainsDoNotOverlap
  <2>1. SUFFICES ASSUME NEW q \in ctx.io, NEW r \in ctx.io,
                        q.op \in {"finHdr", "finToc"}
                 PROVE  q = r
    BY DEF FinalizeChainsDoNotOverlap
  <2>2. ctx.up /\ Line(ctx) BY <1>1, <2>1 DEF Session, Down
  <2>3. ctx.io = {q} BY <2>1, <2>2, PhaseOf
  <2>4. QED BY <2>3
<1>2. IInv /\ Session => FinalizeChainsDoNotOverlap BY <1>1
<1>3. QED BY <1>2, SessionAlways, PTL

-----------------------------------------------------------------------------
(* What a step never does *)

\* While the device reads a buffer nobody changes it: neither capture_poll,
\* which goes on filling the ring, nor the padding of a stop's final flush.
THEOREM BuffersStayPut ==
    ASSUME Ample PROVE Spec => BuffersStableInFlight
<1>1. ASSUME IInv, Session, [Next]_vars PROVE Steady
  <2>1. CASE ctx.up BY <1>1, <2>1, NextLeads DEF Session
  <2>2. CASE ~ctx.up
    BY <1>1, <2>2 DEF Session, Down, Steady, DataRequests
  <2>3. QED BY <2>1, <2>2
<1>2. IInv /\ Session /\ [Next]_vars =>
        [\A r \in DataRequests :
            r \in ctx'.io => ctx'.buffers[r.id].data = ctx.buffers[r.id].data
        ]_vars
  BY <1>1 DEF Steady
<1>3. QED BY <1>2, SessionAlways, PTL DEF Spec, BuffersStableInFlight

\* The high-water mark on the device never moves back: what a header write
\* puts there is never behind what an earlier one did, through write failures,
\* crashes and restarts.
THEOREM MarkAdvances ==
    ASSUME Ample PROVE Spec => HighWaterAdvances
<1>1. ASSUME IInv, Session, [Next]_vars PROVE Mark <= Mark'
  <2>1. Mark \in Nat BY <1>1 DEF IInv, TypeOK, Header, Mark
  <2>2. CASE ctx.up
    BY <1>1, <2>1, <2>2, NextLeads DEF Session, Wrote
  <2>3. CASE ~ctx.up
    <3>1. UNCHANGED disk BY <1>1, <2>3, DownSteps DEF Boot, vars
    <3>2. QED BY <2>1, <3>1 DEF Mark
  <2>4. QED BY <2>2, <2>3
<1>2. IInv /\ Session /\ [Next]_vars =>
        [disk.hdr.next_data_block <= disk'.hdr.next_data_block]_vars
  BY <1>1 DEF Mark
<1>3. QED BY <1>2, SessionAlways, PTL DEF Spec, HighWaterAdvances

-----------------------------------------------------------------------------
(* Where the segments lie *)

\* A header write that fails leaves the mark on the device behind the segments
\* that follow it, and a start believes the device: with both, a segment
\* overlaps an older one.
Calm == MaxIoErrors = 0 \/ MaxBoots = 0

End(e) == e.start_block + e.block_count

\* Every finalized segment ends at or before block n.
Below(n) == \A g \in Finalized(disk) : End(disk.toc[g]) <= n

\* A new segment is claimed at a mark that every finalized one lies below, and
\* while it is open the mark moves only to its own end.
Apart ==
    /\ \A g \in Finalized(disk) : DataStart <= disk.toc[g].start_block
    /\ \A g, h \in Finalized(disk) : g # h =>
          \/ End(disk.toc[g]) <= disk.toc[h].start_block
          \/ End(disk.toc[h]) <= disk.toc[g].start_block
    /\ ctx.up => Below(ctx.vol.next_data_block)
    /\ ctx.up /\ ctx.recording =>
          DataStart <= ctx.segment_start_block /\ Below(ctx.segment_start_block)
    /\ MaxIoErrors = 0 =>
          /\ Below(Mark)
          /\ ctx.up => Mark = IF Ending(ctx) THEN ctx.segment_start_block
                                             ELSE ctx.vol.next_data_block

LEMMA InitApart == ASSUME Ample PROVE Init => Apart
<1> SUFFICES ASSUME Init PROVE Apart OBVIOUS
<1>1. FormattedHeader \in Header
  BY DEF FormattedHeader, DataStart, Header
<1>2. Idle(ctx) /\ ctx.vol = FormattedHeader
  BY <1>1, FreshIdles DEF Init
<1>3. Mark = ctx.vol.next_data_block /\ ~Ending(ctx) /\ ~ctx.recording
  BY <1>2 DEF Init, Mark, Idle, Ending
<1>4. Finalized(disk) = {}
  BY DEF Init, Finalized, FreeEntry, EmptyEntry
<1>5. QED BY <1>3, <1>4 DEF Apart, Below

\* The type of what the steps below compare.
LEMMA BlockTypes ==
    ASSUME IInv
    PROVE  /\ DataStart \in Nat /\ Mark \in Nat
           /\ ctx.vol.next_data_block \in Nat
           /\ ctx.segment_start_block \in Nat
           /\ ctx.next_write_block \in Nat
           /\ \A g \in Slots : /\ disk.toc[g].start_block \in Nat
                               /\ End(disk.toc[g]) \in Int
<1>1. /\ ctx \in Context
      /\ disk \in [hdr : Header, toc : [Slots -> Entry],
                   data : [0 .. NumBlocks - 1 -> Chunk]]
  BY DEF IInv, TypeOK
<1>2. \A g \in Slots : disk.toc[g] \in Entry BY <1>1
<1>3. \A g \in Slots : disk.toc[g].start_block \in Nat
                       /\ End(disk.toc[g]) \in Int
  BY <1>2 DEF Entry, End
<1>4. QED BY <1>1, <1>3 DEF Context, Header, Mark, DataStart

\* The segment a finalize chain closes runs from where it was claimed to the
\* mark in memory.
LEMMA NewEntry ==
    ASSUME IInv, FinalizingToc(ctx)
    PROVE  /\ FinalizedEntry(ctx).start_block = ctx.segment_start_block
           /\ End(FinalizedEntry(ctx)) = ctx.vol.next_data_block
           /\ ctx.recording /\ ~Ending(ctx)
  BY BlockTypes DEF FinalizingToc, Finalizing, FinalizedEntry, End, Ending

LEMMA NextApart ==
    ASSUME Ample, Calm, IInv, Session, Apart, [Next]_vars
    PROVE  Apart'
<1> DEFINE v == ctx.vol.next_data_block
           w == ctx'.vol.next_data_block
           Under(n) == \A g \in Finalized(disk') : End(disk'.toc[g]) <= n
<1>1. /\ DataStart \in Nat /\ Mark \in Nat /\ v \in Nat
      /\ ctx.segment_start_block \in Nat
      /\ \A g \in Slots : /\ disk.toc[g].start_block \in Nat
                          /\ End(disk.toc[g]) \in Int
  BY BlockTypes
<1>2. /\ w \in Nat /\ Mark' \in Nat /\ ctx'.segment_start_block \in Nat
      /\ \A g \in Slots : End(disk'.toc[g]) \in Int
  <2>1. /\ ctx' \in Context
        /\ disk' \in [hdr : Header, toc : [Slots -> Entry],
                      data : [0 .. NumBlocks - 1 -> Chunk]]
    BY NextIInv DEF IInv, TypeOK
  <2>2. \A g \in Slots : disk'.toc[g] \in Entry BY <2>1
  <2>3. \A g \in Slots : End(disk'.toc[g]) \in Int
    BY <2>2 DEF Entry, End
  <2>4. QED BY <2>1, <2>3 DEF Context, Header, Mark
<1>3. Finalized(disk) \subseteq Slots /\ Finalized(disk') \subseteq Slots
  BY DEF Finalized
<1>4. CASE ctx.up
  <2>1. Line(ctx) /\ Mark <= v /\ DataStart <= Mark BY <1>4 DEF Session
  <2>2. Leads(ctx, ctx') /\ Wrote BY <1>4, <2>1, NextLeads
  <2> DEFINE Old(g) == g \in Finalized(disk) /\ disk'.toc[g] = disk.toc[g]
             New(g) == /\ FinalizingToc(ctx) /\ ~(ctx'.up /\ ctx'.recording)
                       /\ g = ctx.segment_id
                       /\ disk'.toc[g] = FinalizedEntry(ctx)
  <2>3. \A g \in Finalized(disk') : Old(g) \/ New(g) BY <2>2 DEF Wrote
  <2>4. Below(v) BY <1>4 DEF Apart
  <2>5. ASSUME NEW g, Old(g)
        PROVE  /\ DataStart <= disk'.toc[g].start_block
               /\ End(disk'.toc[g]) <= v
    BY <2>4, <2>5 DEF Apart, Below
  <2>6. ASSUME NEW g, New(g)
        PROVE  /\ DataStart <= disk'.toc[g].start_block
               /\ disk'.toc[g].start_block = ctx.segment_start_block
               /\ End(disk'.toc[g]) = v /\ ~Ending(ctx) /\ ctx.recording
               /\ Below(ctx.segment_start_block)
    BY <1>4, <2>6, NewEntry DEF Apart
  <2>7. ASSUME NEW g, NEW h, Old(g), New(h), g # h
        PROVE  End(disk'.toc[g]) <= disk'.toc[h].start_block
    <3>1. Below(ctx.segment_start_block)
          /\ disk'.toc[h].start_block = ctx.segment_start_block
      BY <2>6, <2>7
    <3>2. QED BY <2>7, <3>1 DEF Below
  <2>8. ASSUME NEW g, NEW h, New(g), New(h) PROVE g = h BY <2>8
  <2>9. ASSUME NEW g, NEW h, Old(g), Old(h), g # h
        PROVE  \/ End(disk'.toc[g]) <= disk'.toc[h].start_block
               \/ End(disk'.toc[h]) <= disk'.toc[g].start_block
    BY <2>9 DEF Apart
  <2>10. Mark' \in {Mark, v} BY <2>2 DEF Wrote
  <2>11. ASSUME ctx'.up, ctx'.recording, NEW g, New(g) PROVE FALSE
    BY <2>11
  <2> HIDE DEF Old, New
  <2>12. \A g \in Finalized(disk') : DataStart <= disk'.toc[g].start_block
    BY <2>3, <2>5, <2>6
  <2>13. \A g, h \in Finalized(disk') : g # h =>
            \/ End(disk'.toc[g]) <= disk'.toc[h].start_block
            \/ End(disk'.toc[h]) <= disk'.toc[g].start_block
    BY <2>3, <2>7, <2>8, <2>9
  <2>14. Under(v)
    <3>1. ASSUME NEW g \in Finalized(disk') PROVE End(disk'.toc[g]) <= v
      BY <1>1, <2>3, <2>5, <2>6
    <3>2. QED BY <3>1
  <2>15. ctx'.up => Under(w)
    <3>1. ctx'.up => v <= w BY <2>2 DEF Leads
    <3>2. QED BY <1>1, <1>2, <1>3, <2>14, <3>1
  <2>16. ASSUME ctx'.up, ctx'.recording
         PROVE  /\ DataStart <= ctx'.segment_start_block
                /\ Under(ctx'.segment_start_block)
    <3>1. \A g \in Finalized(disk') : Old(g) BY <2>3, <2>11, <2>16
    <3>2. ctx'.segment_start_block = IF ctx.recording
            THEN ctx.segment_start_block ELSE v
      BY <2>2, <2>16 DEF Leads
    <3>3. /\ DataStart <= ctx'.segment_start_block
          /\ Below(ctx'.segment_start_block)
      BY <1>1, <1>4, <2>1, <2>4, <3>2 DEF Apart
    <3>4. QED BY <3>1, <3>3 DEF Below, Old
  <2>17. ASSUME MaxIoErrors = 0
         PROVE  /\ Under(Mark')
                /\ ctx'.up => Mark' = IF Ending(ctx')
                                      THEN ctx'.segment_start_block ELSE w
    <3>1. /\ Below(Mark)
          /\ Mark = IF Ending(ctx) THEN ctx.segment_start_block ELSE v
      BY <1>4, <2>17 DEF Apart
    <3>2. ASSUME NEW g \in Finalized(disk') PROVE End(disk'.toc[g]) <= Mark'
      <4>1. CASE Old(g)
        <5>1. End(disk'.toc[g]) <= Mark /\ End(disk'.toc[g]) \in Int
          BY <1>1, <1>3, <3>1, <4>1 DEF Below, Old
        <5>2. QED BY <1>1, <2>1, <2>10, <5>1
      <4>2. CASE New(g) BY <1>1, <2>6, <2>10, <3>1, <4>2
      <4>3. QED BY <2>3, <3>2, <4>1, <4>2
    <3>3. Under(Mark') BY <3>2
    <3>4. CASE ctx'.up /\ Ending(ctx')
      <4>1. Mark' = Mark /\ ctx.recording
            /\ (Ending(ctx) \/ v = ctx.segment_start_block)
        BY <2>2, <3>4 DEF Wrote, Leads
      <4>2. ctx'.recording
        <5>1. Line(ctx') BY <2>2, <3>4 DEF Leads
        <5>2. QED BY <3>4, <5>1, PhaseOf
          DEF Ending, FinalizingHeader, Finalizing
      <4>3. ctx'.segment_start_block = ctx.segment_start_block
        BY <2>2, <3>4, <4>1, <4>2 DEF Leads
      <4>4. QED BY <3>1, <3>3, <3>4, <4>1, <4>3
    <3>5. CASE ctx'.up /\ ~Ending(ctx')
      <4>1. w = v BY <2>2, <3>5 DEF Leads
      <4>2. Mark' = v BY <2>2, <2>10, <2>17, <3>1, <3>5 DEF Wrote
      <4>3. QED BY <3>3, <3>5, <4>1, <4>2
    <3>6. QED BY <3>3, <3>4, <3>5
  <2>18. QED
    BY <2>12, <2>13, <2>15, <2>16, <2>17 DEF Apart, Below
<1>5. CASE ~ctx.up
  <2>1. CASE Boot
    <3>1. /\ ctx'.up /\ Idle(ctx') /\ ctx'.vol = disk.hdr
          /\ UNCHANGED disk /\ load.boots < MaxBoots
      BY <2>1, BootStarts
    <3>2. MaxIoErrors = 0 BY <3>1 DEF Calm, IInv, TypeOK, Load
    <3>3. Mark' = Mark /\ w = Mark BY <3>1 DEF Mark
    <3>4. ~Ending(ctx') /\ ~ctx'.recording BY <3>1 DEF Idle, Ending
    <3>5. Finalized(disk') = Finalized(disk) BY <3>1
    <3>6. Below(Mark) BY <3>2 DEF Apart
    <3>7. Under(Mark') /\ Under(w) BY <3>1, <3>3, <3>5, <3>6 DEF Below
    <3>8. QED BY <3>1, <3>3, <3>4, <3>5, <3>7 DEF Apart, Below
  <2>2. CASE UNCHANGED vars
    <3>1. ctx' = ctx /\ disk' = disk BY <2>2 DEF vars
    <3>2. QED BY <3>1 DEF Apart, Below, Mark
  <2>3. QED BY <1>5, <2>1, <2>2, DownSteps
<1>6. QED BY <1>4, <1>5

LEMMA ApartAlways ==
    ASSUME Ample, Calm PROVE Spec => [](IInv /\ Apart)
<1>1. Init => IInv /\ Session /\ Apart
  BY InitIInv, InitSession, InitApart
<1>2. (IInv /\ Session /\ Apart) /\ [Next]_vars => (IInv /\ Session /\ Apart)'
  BY NextIInv, NextSession, NextApart
<1>3. QED BY <1>1, <1>2, PTL DEF Spec

\* What a daemon would hand to its next claim lies past every segment on the
\* device, even when the header of the last one could not be written.
THEOREM ClaimIsClear ==
    ASSUME Ample, Calm PROVE Spec => []NextClaimIsClear
<1>1. IInv /\ Apart => NextClaimIsClear
  BY DEF Apart, Below, End, NextClaimIsClear
<1>2. QED BY <1>1, ApartAlways, PTL

\* The blocks of different finalized segments never overlap and none reaches
\* into the header or the TOC, through any number of sessions, with crashes
\* and restarts or with failing writes.
THEOREM SegmentsApart ==
    ASSUME Ample, Calm PROVE Spec => []ExtentsDisjoint
<1>1. ASSUME IInv, Apart PROVE ExtentsDisjoint
  <2>1. Finalized(disk) \subseteq Slots BY DEF Finalized
  <2>2. disk.toc \in [Slots -> Entry] BY <1>1 DEF IInv, TypeOK
  <2>3. \A g \in Finalized(disk) :
           /\ disk.toc[g].start_block \in Nat
           /\ disk.toc[g].block_count \in Int
    BY <2>1, <2>2 DEF Entry
  <2>4. ASSUME NEW g \in Finalized(disk), NEW b \in Extent(disk.toc[g])
        PROVE  /\ disk.toc[g].start_block <= b /\ b < End(disk.toc[g])
               /\ b \in Int
    BY <2>3, <2>4 DEF Extent, End
  <2>5. ASSUME NEW g \in Finalized(disk), NEW b \in Extent(disk.toc[g])
        PROVE  b >= DataStart
    BY <1>1, <2>3, <2>4 DEF Apart, DataStart
  <2>6. ASSUME NEW g \in Finalized(disk), NEW h \in Finalized(disk), g # h,
               NEW b \in Extent(disk.toc[g]), b \in Extent(disk.toc[h])
        PROVE  FALSE
    <3>1. \/ End(disk.toc[g]) <= disk.toc[h].start_block
          \/ End(disk.toc[h]) <= disk.toc[g].start_block
      BY <1>1, <2>6 DEF Apart
    <3>2. /\ End(disk.toc[g]) \in Int /\ End(disk.toc[h]) \in Int
      BY <2>3 DEF End
    <3>3. /\ disk.toc[g].start_block <= b /\ b < End(disk.toc[g])
          /\ disk.toc[h].start_block <= b /\ b < End(disk.toc[h])
          /\ b \in Int
      BY <2>4, <2>6
    <3>4. QED BY <2>3, <3>1, <3>2, <3>3
  <2>7. QED BY <2>5, <2>6 DEF ExtentsDisjoint
<1>2. IInv /\ Apart => ExtentsDisjoint BY <1>1
<1>3. QED BY <1>2, ApartAlways, PTL

\* Where no write fails, no finalized segment ever lies above the high-water
\* mark on the device: a finalize chain writes the header first, so a crash
\* between its two writes loses a segment and never its successor's place.
THEOREM BelowHighWater ==
    ASSUME Ample, MaxIoErrors = 0
    PROVE  Spec => []FinalizedBelowHighWater
<1>1. Calm BY DEF Calm
<1>2. IInv /\ Apart => FinalizedBelowHighWater
  BY DEF Apart, Below, End, Mark, FinalizedBelowHighWater
<1>3. Spec => [](IInv /\ Apart) BY <1>1, ApartAlways
<1>4. QED BY <1>2, <1>3, PTL
==============================================================================
