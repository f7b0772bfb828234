-------------------------- MODULE AdminBridge_proofs --------------------------
(***************************************************************************)
(* The request slot between web thread and reactor, for every number of    *)
(* segment slots, chunk sizes, calls and faults.  Types and the fixed      *)
(* chunk size hold however recordings end; the rest assumes that they end  *)
(* by stop calls and by SIGINT between calls (Overlap = FALSE), and is     *)
(* false without.                                                          *)
(*                                                                         *)
(* The inductive invariant has three parts.  Serial: the reactor is idle,  *)
(* has one call to dispatch, serves it by one I/O, waits for the last data *)
(* write of its stop, or tears down, and only in teardown may a call wait  *)
(* beside an I/O.  Kept: the entry of the segment being recorded says what *)
(* was claimed.  Listing: a list under way has shown the slots below its   *)
(* cursor.  Every operator is treated by one lemma per part, from the      *)
(* innermost call outwards.                                                *)
(***************************************************************************)
EXTENDS AdminBridge, FiniteSetTheorems, TLAPS

-----------------------------------------------------------------------------
(* Types: what every operator keeps *)

\* All but the request is as it was.
Rest(s, t) ==
    /\ t.up = s.up /\ t.shutting_down = s.shutting_down
    /\ t.recording = s.recording /\ t.stopping = s.stopping
    /\ t.draining = s.draining /\ t.claim_in_progress = s.claim_in_progress
    /\ t.stopped_by = s.stopped_by /\ t.segment_id = s.segment_id
    /\ t.next_segment_id = s.next_segment_id /\ t.buf_size = s.buf_size
    /\ t.io_buf = s.io_buf /\ t.dump_target_count = s.dump_target_count
    /\ t.dump_records_seen = s.dump_records_seen /\ t.init_cur = s.init_cur

\* The request is answered.
Answered(s, by, rc, t) ==
    /\ t.admin_req.from = by /\ t.admin_req.rc = rc
    /\ t.admin_req.abandoned = s.admin_req.abandoned
    /\ t.admin_req.resp = s.admin_req.resp
    /\ IF s.admin_req.abandoned
       THEN ~t.admin_req.busy /\ t.admin_req.done = s.admin_req.done
       ELSE t.admin_req.done /\ t.admin_req.busy = s.admin_req.busy

LEMMA FulfillType ==
    ASSUME NEW s \in Context, NEW by \in Tickets, NEW rc \in Results
    PROVE  LET t == Fulfill(s, by, rc)
           IN  /\ t \in Context /\ Rest(s, t) /\ t.io = s.io
               /\ Answered(s, by, rc, t)
<1> DEFINE q == s.admin_req
           r == IF q.abandoned
                THEN [q EXCEPT !.rc = rc, !.from = by, !.busy = FALSE]
                ELSE [q EXCEPT !.rc = rc, !.from = by, !.done = TRUE]
<1>1. q \in Request BY DEF Context
<1>2. r \in Request BY <1>1 DEF Request
<1>3. Fulfill(s, by, rc) = [s EXCEPT !.admin_req = r]
  BY DEF Fulfill, Context
<1>4. /\ r.from = by /\ r.rc = rc /\ r.resp = q.resp
      /\ r.abandoned = q.abandoned
      /\ IF q.abandoned THEN ~r.busy /\ r.done = q.done
                        ELSE r.done /\ r.busy = q.busy
  BY <1>1 DEF Request
<1> HIDE DEF r
<1>5. QED BY <1>2, <1>3, <1>4 DEF Context, Rest, Answered

LEMMA SubmittedType ==
    ASSUME NEW s \in Context, NEW kind \in Reads \cup Writes \cup Headers,
           NEW by \in Tickets, NEW at \in Nat
    PROVE  LET t == Submitted(s, kind, by, at)
               r == [kind |-> kind, by |-> by, at |-> at]
           IN  /\ t \in Context /\ Rest(s, t) /\ t.io = s.io \cup {r}
               /\ t.admin_req = s.admin_req /\ r \in Io
<1> DEFINE r == [kind |-> kind, by |-> by, at |-> at]
<1>1. r \in Io BY DEF Io
<1> HIDE DEF r
<1>2. Submitted(s, kind, by, at) = [s EXCEPT !.io = s.io \cup {r}]
  BY DEF Submitted, Context, r
<1>3. QED BY <1>1, <1>2 DEF Context, Rest, r

\* What a call asked for is done, or given up, or under way with one I/O more.
Flags(s, t) ==
    /\ t.admin_req.busy = s.admin_req.busy
    /\ t.admin_req.done = s.admin_req.done
    /\ t.admin_req.abandoned = s.admin_req.abandoned
    /\ t.admin_req.from = s.admin_req.from

Ended(s, by, t) ==
    /\ t.io = s.io /\ t.admin_req.from = by
    /\ t.admin_req.abandoned = s.admin_req.abandoned
    /\ IF s.admin_req.abandoned
       THEN ~t.admin_req.busy /\ t.admin_req.done = s.admin_req.done
       ELSE t.admin_req.done /\ t.admin_req.busy = s.admin_req.busy

\* An I/O on io_buf finds there what its kind needs.
Apt(s, r) ==
    /\ r.kind = "delWrite" => s.io_buf.state = "DELETED"
    /\ r.kind = "zero" => s.io_buf.state = "FREE"
    /\ r.kind \in {"claimToc", "finToc"} => r.at = s.segment_id
    /\ r.kind = "claimToc" =>
          /\ s.io_buf.seg = s.segment_id /\ s.io_buf.state = "OPEN"
          /\ s.io_buf.chunk = s.buf_size
    /\ r.kind = "finToc" => s.io_buf = FinalizedEntry(s)

Begun(s, by, kinds, t) ==
    /\ Flags(s, t)
    /\ \E r \in Io : /\ t.io = s.io \cup {r}
                     /\ r.by = by /\ r.kind \in kinds /\ Apt(t, r)

\* The parts of the answer are by's if the parts before were.
Own(s, by, t) ==
    (\A k \in DOMAIN s.admin_req.resp : s.admin_req.resp[k].by = by) =>
       \A k \in DOMAIN t.admin_req.resp : t.admin_req.resp[k].by = by

\* The recording is as it was.
Untouched(s, t) ==
    /\ t.up = s.up /\ t.shutting_down = s.shutting_down
    /\ t.recording = s.recording /\ t.stopping = s.stopping
    /\ t.draining = s.draining /\ t.stopped_by = s.stopped_by
    /\ t.claim_in_progress = s.claim_in_progress
    /\ t.segment_id = s.segment_id /\ t.buf_size = s.buf_size

\* An operation that is not about the recording serves call by.
Plain == Reads \cup {"delWrite", "zero", "fmtHdr"}

Prepares(s, by, t) ==
    t \in Context /\ t.io = s.io /\ Flags(s, t) /\ Untouched(s, t)
    /\ Own(s, by, t)

Serves(s, by, t) ==
    /\ t \in Context /\ Untouched(s, t) /\ Own(s, by, t)
    /\ Ended(s, by, t) \/ Begun(s, by, Plain, t)

LEMMA FulfillServes ==
    ASSUME NEW s \in Context, NEW by \in Tickets, NEW rc \in Results
    PROVE  LET t == Fulfill(s, by, rc)
           IN  /\ Serves(s, by, t) /\ Ended(s, by, t) /\ Rest(s, t)
               /\ t.admin_req.resp = s.admin_req.resp
<1> DEFINE t == Fulfill(s, by, rc)
<1>1. t \in Context /\ Rest(s, t) /\ t.io = s.io /\ Answered(s, by, rc, t)
  BY FulfillType
<1> HIDE DEF t
<1>2. Ended(s, by, t) BY <1>1 DEF Ended, Answered
<1>3. Serves(s, by, t)
  BY <1>1, <1>2 DEF Serves, Untouched, Rest, Own, Answered
<1>4. QED BY <1>1, <1>2, <1>3 DEF t, Answered

LEMMA SubmittedBegins ==
    ASSUME NEW s \in Context, NEW kinds,
           NEW kind \in (Reads \cup Writes \cup Headers) \cap kinds,
           NEW by \in Tickets, NEW at \in Nat,
           Apt(s, [kind |-> kind, by |-> by, at |-> at])
    PROVE  LET t == Submitted(s, kind, by, at)
           IN  /\ t \in Context /\ Untouched(s, t) /\ Own(s, by, t)
               /\ Begun(s, by, kinds, t) /\ t.admin_req = s.admin_req
               /\ Rest(s, t)
<1> DEFINE t == Submitted(s, kind, by, at)
           r == [kind |-> kind, by |-> by, at |-> at]
<1>1. /\ t \in Context /\ Rest(s, t) /\ t.io = s.io \cup {r}
      /\ t.admin_req = s.admin_req /\ r \in Io
  BY SubmittedType
<1>2. r.by = by /\ r.kind \in kinds /\ Apt(s, r) OBVIOUS
<1> HIDE DEF t, r
<1>3. Apt(t, r) BY <1>1, <1>2 DEF Apt, Rest, FinalizedEntry
<1>4. QED BY <1>1, <1>2, <1>3 DEF Begun, Untouched, Rest, Own, Flags, t

LEMMA SubmitServes ==
    ASSUME NEW s \in Context, NEW kind \in Plain, NEW by \in Tickets,
           NEW at \in Nat, NEW refused \in BOOLEAN,
           Apt(s, [kind |-> kind, by |-> by, at |-> at])
    PROVE  Serves(s, by, Submit(s, kind, by, at, refused))
<1>1. CASE refused
  <2>1. "EIO" \in Results BY DEF Results
  <2>2. QED BY <1>1, <2>1, FulfillServes DEF Submit
<1>2. CASE ~refused
  <2>1. kind \in (Reads \cup Writes \cup Headers) \cap Plain
    BY DEF Plain, Reads, Writes, Headers
  <2>2. QED BY <1>2, <2>1, SubmittedBegins DEF Submit, Serves
<1>3. QED BY <1>1, <1>2

LEMMA PreparedServes ==
    ASSUME NEW s, NEW by, NEW t, NEW u,
           Prepares(s, by, t), Serves(t, by, u)
    PROVE  Serves(s, by, u)
<1>1. Untouched(s, u) BY DEF Prepares, Serves, Untouched
<1>2. Own(s, by, u) BY DEF Prepares, Serves, Own
<1>3. Ended(t, by, u) => Ended(s, by, u)
  BY DEF Prepares, Ended, Flags
<1>4. Begun(t, by, Plain, u) => Begun(s, by, Plain, u)
  BY DEF Prepares, Begun, Flags
<1>5. QED BY <1>1, <1>2, <1>3, <1>4 DEF Serves

-----------------------------------------------------------------------------
(* Lists, records, deletes and formats *)

LEMMA ListNextServes ==
    ASSUME NEW s \in Context, NEW by \in Tickets, NEW refused \in BOOLEAN
    PROVE  Serves(s, by, ListNext(s, by, refused))
<1>1. "ok" \in Results BY DEF Results
<1>2. s.dump_records_seen \in Nat BY DEF Context
<1>3. "list" \in Plain BY DEF Plain, Reads
<1>4. Apt(s, [kind |-> "list", by |-> by, at |-> s.dump_records_seen])
  BY DEF Apt
<1>5. Serves(s, by, Submit(s, "list", by, s.dump_records_seen, refused))
  BY <1>2, <1>3, <1>4, SubmitServes
<1>6. Serves(s, by, Fulfill(s, by, "ok")) BY <1>1, FulfillServes
<1>7. QED BY <1>5, <1>6 DEF ListNext

LEMMA RecordsNextServes ==
    ASSUME NEW s \in Context, NEW by \in Tickets, NEW refused \in BOOLEAN
    PROVE  Serves(s, by, RecordsNext(s, by, refused))
<1>1. "ok" \in Results BY DEF Results
<1>2. s.dump_records_seen \in Nat BY DEF Context
<1>3. "records" \in Plain BY DEF Plain, Reads
<1>4. Apt(s, [kind |-> "records", by |-> by, at |-> s.dump_records_seen])
  BY DEF Apt
<1>5. Serves(s, by, Submit(s, "records", by, s.dump_records_seen, refused))
  BY <1>2, <1>3, <1>4, SubmitServes
<1>6. Serves(s, by, Fulfill(s, by, "ok")) BY <1>1, FulfillServes
<1>7. QED BY <1>5, <1>6 DEF RecordsNext

\* The cursor of a scan is set.
LEMMA CursorPrepares ==
    ASSUME NEW s \in Context, NEW by, NEW m \in Nat, NEW n \in Nat
    PROVE  Prepares(s, by, [s EXCEPT !.dump_records_seen = m,
                                     !.dump_target_count = n])
<1> DEFINE t == [s EXCEPT !.dump_records_seen = m, !.dump_target_count = n]
<1>1. t \in Context /\ t.admin_req = s.admin_req /\ t.io = s.io
  BY DEF Context
<1>2. Untouched(s, t) BY DEF Context, Untouched
<1> HIDE DEF t
<1>3. Prepares(s, by, t) BY <1>1, <1>2 DEF Prepares, Flags, Own
<1>4. QED BY <1>3 DEF t

\* An entry is added to the answer, and the cursor set.
LEMMA AnswerPrepares ==
    ASSUME NEW s \in Context, NEW by \in Tickets, NEW m \in Nat, NEW n \in Nat
    PROVE  Prepares(s, by,
              [s EXCEPT !.dump_records_seen = m, !.dump_target_count = n,
                        !.admin_req.resp =
                            Append(@, [by |-> by, entry |-> s.io_buf])])
<1> DEFINE e == [by |-> by, entry |-> s.io_buf]
           q == [s.admin_req EXCEPT !.resp = Append(s.admin_req.resp, e)]
           t == [s EXCEPT !.dump_records_seen = m, !.dump_target_count = n,
                          !.admin_req = q]
<1>1. s.admin_req \in Request /\ s.io_buf \in Entry BY DEF Context
<1>2. e \in [by : Tickets, entry : Entry] /\ e.by = by BY <1>1
<1> HIDE DEF e
<1>3. s.admin_req.resp \in Seq([by : Tickets, entry : Entry])
  BY <1>1 DEF Request
<1>4. q \in Request
  <2> DEFINE l == Append(s.admin_req.resp, e)
  <2>1. l \in Seq([by : Tickets, entry : Entry]) BY <1>2, <1>3
  <2> HIDE DEF l
  <2>2. [s.admin_req EXCEPT !.resp = l] \in Request
    BY <1>1, <2>1 DEF Request
  <2>3. QED BY <2>2 DEF l
<1>5. q.resp = Append(s.admin_req.resp, e) BY <1>1 DEF Request
<1>6. /\ q.busy = s.admin_req.busy /\ q.done = s.admin_req.done
      /\ q.abandoned = s.admin_req.abandoned /\ q.from = s.admin_req.from
  BY <1>1 DEF Request
<1>7. (\A k \in DOMAIN s.admin_req.resp : s.admin_req.resp[k].by = by) =>
         \A k \in DOMAIN q.resp : q.resp[k].by = by
  BY <1>2, <1>3, <1>5
<1>8. t = [s EXCEPT !.dump_records_seen = m, !.dump_target_count = n,
                    !.admin_req.resp =
                        Append(@, [by |-> by, entry |-> s.io_buf])]
  BY DEF Context, e
<1> HIDE DEF q
<1>9. t \in Context /\ t.admin_req = q /\ t.io = s.io /\ Untouched(s, t)
  BY <1>4 DEF Context, Untouched
<1> HIDE DEF t
<1>10. Prepares(s, by, t) BY <1>6, <1>7, <1>9 DEF Prepares, Flags, Own
<1>11. QED BY <1>8, <1>10

LEMMA ListServes ==
    ASSUME NEW s \in Context, NEW by \in Tickets, NEW refused \in BOOLEAN
    PROVE  Serves(s, by, List(s, by, refused))
<1> DEFINE t == [s EXCEPT !.dump_records_seen = 0,
                          !.dump_target_count = s.next_segment_id]
<1>1. s.next_segment_id \in Nat BY DEF Context
<1>2. Prepares(s, by, t) BY <1>1, CursorPrepares
<1>3. t \in Context BY <1>2 DEF Prepares
<1>4. Serves(t, by, ListNext(t, by, refused)) BY <1>3, ListNextServes
<1>5. QED BY <1>2, <1>4, PreparedServes DEF List

LEMMA ListReadServes ==
    ASSUME NEW s \in Context, NEW by \in Tickets, NEW refused \in BOOLEAN
    PROVE  Serves(s, by, ListRead(s, by, refused))
<1> DEFINE m == s.dump_records_seen + 1
           n == s.dump_target_count
           t == [s EXCEPT !.dump_records_seen = m, !.dump_target_count = n]
           u == [s EXCEPT !.dump_records_seen = m, !.dump_target_count = n,
                          !.admin_req.resp =
                              Append(@, [by |-> by, entry |-> s.io_buf])]
           v == [s EXCEPT !.dump_records_seen = @ + 1,
                    !.admin_req.resp = IF Listed(s.io_buf)
                       THEN Append(@, [by |-> by, entry |-> s.io_buf]) ELSE @]
<1>1. m \in Nat /\ n \in Nat BY DEF Context
<1>2. Prepares(s, by, t) BY <1>1, CursorPrepares
<1>3. Prepares(s, by, u) BY <1>1, AnswerPrepares
<1>4. v = IF Listed(s.io_buf) THEN u ELSE t
  <2>1. s.admin_req \in Request BY DEF Context
  <2>2. [s.admin_req EXCEPT !.resp = s.admin_req.resp] = s.admin_req
    BY <2>1 DEF Request
  <2> HIDE DEF Listed
  <2>3. QED BY <2>2 DEF Context
<1> HIDE DEF v, t, u
<1>5. Prepares(s, by, v) BY <1>2, <1>3, <1>4
<1>6. v \in Context BY <1>5 DEF Prepares
<1>7. Serves(v, by, ListNext(v, by, refused)) BY <1>6, ListNextServes
<1>8. QED BY <1>5, <1>7, PreparedServes DEF ListRead, v

LEMMA EntryReadServes ==
    ASSUME NEW s \in Context, NEW by \in Tickets, NEW refused \in BOOLEAN
    PROVE  Serves(s, by, EntryRead(s, by, refused))
<1> DEFINE t == [s EXCEPT !.dump_records_seen = 0,
                    !.dump_target_count = s.io_buf.chunks,
                    !.admin_req.resp = Append(@,
                       [by |-> by, entry |-> s.io_buf])]
<1>1. "ENOENT" \in Results /\ "EAGAIN" \in Results BY DEF Results
<1>2. s.io_buf.chunks \in Nat BY DEF Context, Entry
<1>3. Prepares(s, by, t) BY <1>2, AnswerPrepares
<1>4. t \in Context BY <1>3 DEF Prepares
<1> HIDE DEF t
<1>5. Serves(t, by, RecordsNext(t, by, refused)) BY <1>4, RecordsNextServes
<1>6. Serves(s, by, RecordsNext(t, by, refused))
  BY <1>3, <1>5, PreparedServes
<1>7. /\ Serves(s, by, Fulfill(s, by, "ENOENT"))
      /\ Serves(s, by, Fulfill(s, by, "EAGAIN"))
  BY <1>1, FulfillServes
<1>8. QED BY <1>6, <1>7 DEF EntryRead, t

LEMMA RecordsReadServes ==
    ASSUME NEW s \in Context, NEW by \in Tickets, NEW refused \in BOOLEAN
    PROVE  Serves(s, by, RecordsRead(s, by, refused))
<1> DEFINE m == s.dump_records_seen + 1
           n == s.dump_target_count
           t == [s EXCEPT !.dump_records_seen = m, !.dump_target_count = n]
<1>1. m \in Nat /\ n \in Nat BY DEF Context
<1>2. Prepares(s, by, t) BY <1>1, CursorPrepares
<1>3. t = [s EXCEPT !.dump_records_seen = @ + 1] BY DEF Context
<1> HIDE DEF t
<1>4. t \in Context BY <1>2 DEF Prepares
<1>5. Serves(t, by, RecordsNext(t, by, refused)) BY <1>4, RecordsNextServes
<1>6. QED BY <1>2, <1>3, <1>5, PreparedServes DEF RecordsRead

LEMMA SlotIsNat == Slots \subseteq Nat /\ 0 \in Slots
  BY BridgeAssumption DEF Slots

LEMMA DeleteServes ==
    ASSUME NEW s \in Context, NEW by \in Tickets, NEW refused \in BOOLEAN
    PROVE  Serves(s, by, Delete(s, by, refused))
<1> DEFINE g == s.admin_req.seg
<1>1. g \in Nat BY SlotIsNat DEF Context, Request
<1>2. "EBUSY" \in Results BY DEF Results
<1>3. "delRead" \in Plain BY DEF Plain, Reads
<1>4. Apt(s, [kind |-> "delRead", by |-> by, at |-> g]) BY DEF Apt
<1>5. Serves(s, by, Submit(s, "delRead", by, g, refused))
  BY <1>1, <1>3, <1>4, SubmitServes
<1>6. Serves(s, by, Fulfill(s, by, "EBUSY")) BY <1>2, FulfillServes
<1>7. QED BY <1>5, <1>6 DEF Delete

\* io_buf is filled with another entry.
LEMMA BufferPrepares ==
    ASSUME NEW s \in Context, NEW by, NEW e \in Entry
    PROVE  Prepares(s, by, [s EXCEPT !.io_buf = e])
<1> DEFINE t == [s EXCEPT !.io_buf = e]
<1>1. t \in Context /\ t.admin_req = s.admin_req /\ t.io = s.io
  BY DEF Context
<1>2. Untouched(s, t) BY DEF Context, Untouched
<1> HIDE DEF t
<1>3. Prepares(s, by, t) BY <1>1, <1>2 DEF Prepares, Flags, Own
<1>4. QED BY <1>3 DEF t

LEMMA DeleteReadServes ==
    ASSUME NEW s \in Context, NEW by \in Tickets, NEW refused \in BOOLEAN
    PROVE  Serves(s, by, DeleteRead(s, by, refused))
<1> DEFINE g == s.admin_req.seg
           e == [s.io_buf EXCEPT !.state = "DELETED"]
           t == [s EXCEPT !.io_buf = e]
<1>1. g \in Nat BY SlotIsNat DEF Context, Request
<1>2. "ENOENT" \in Results /\ "ok" \in Results BY DEF Results
<1>3. s.io_buf \in Entry BY DEF Context
<1>4. e \in Entry /\ e.state = "DELETED" BY <1>3 DEF Entry
<1>5. t = [s EXCEPT !.io_buf.state = "DELETED"] BY DEF Context
<1> HIDE DEF e
<1>6. Prepares(s, by, t) BY <1>4, BufferPrepares
<1>7. t \in Context /\ t.io_buf = e BY <1>4 DEF Context
<1> HIDE DEF t
<1>8. Apt(t, [kind |-> "delWrite", by |-> by, at |-> g])
  BY <1>4, <1>7 DEF Apt
<1>9. Serves(t, by, Submit(t, "delWrite", by, g, refused))
  BY <1>1, <1>7, <1>8, SubmitServes DEF Plain
<1>10. Serves(s, by, Submit(t, "delWrite", by, g, refused))
  BY <1>6, <1>9, PreparedServes
<1>11. /\ Serves(s, by, Fulfill(s, by, "ENOENT"))
       /\ Serves(s, by, Fulfill(s, by, "ok"))
  BY <1>2, FulfillServes
<1>12. QED BY <1>5, <1>10, <1>11 DEF DeleteRead

LEMMA FormatNextServes ==
    ASSUME NEW s \in Context, NEW by \in Tickets, NEW refused \in BOOLEAN
    PROVE  Serves(s, by, FormatNext(s, by, refused))
<1> DEFINE t == [s EXCEPT !.io_buf = FreeEntry]
<1>1. FreeEntry \in Entry /\ FreeEntry.state = "FREE" BY DEF FreeEntry, Entry
<1>2. Prepares(s, by, t) BY <1>1, BufferPrepares
<1>3. t \in Context /\ t.io_buf = FreeEntry /\ s.init_cur \in Nat
  BY <1>1 DEF Context
<1> HIDE DEF t
<1>4. Apt(t, [kind |-> "zero", by |-> by, at |-> s.init_cur])
  BY <1>1, <1>3 DEF Apt
<1>5. Serves(t, by, Submit(t, "zero", by, s.init_cur, refused))
  BY <1>3, <1>4, SubmitServes DEF Plain
<1>6. Serves(s, by, Submit(t, "zero", by, s.init_cur, refused))
  BY <1>2, <1>5, PreparedServes
<1>7. Apt(s, [kind |-> "fmtHdr", by |-> by, at |-> 0]) BY DEF Apt
<1>8. Serves(s, by, Submit(s, "fmtHdr", by, 0, refused))
  BY <1>7, SubmitServes DEF Plain
<1>9. QED BY <1>6, <1>8 DEF FormatNext, t

LEMMA FormatCursorPrepares ==
    ASSUME NEW s \in Context, NEW by, NEW n \in Nat
    PROVE  Prepares(s, by, [s EXCEPT !.init_cur = n])
<1> DEFINE t == [s EXCEPT !.init_cur = n]
<1>1. t \in Context /\ t.admin_req = s.admin_req /\ t.io = s.io
  BY DEF Context
<1>2. Untouched(s, t) BY DEF Context, Untouched
<1> HIDE DEF t
<1>3. Prepares(s, by, t) BY <1>1, <1>2 DEF Prepares, Flags, Own
<1>4. QED BY <1>3 DEF t

LEMMA FormatServes ==
    ASSUME NEW s \in Context, NEW by \in Tickets, NEW refused \in BOOLEAN
    PROVE  /\ Serves(s, by, Format(s, by, refused))
           /\ Serves(s, by, FormatZeroed(s, by, refused))
<1> DEFINE t == [s EXCEPT !.init_cur = 0]
           u == [s EXCEPT !.init_cur = @ + 1]
<1>1. "EBUSY" \in Results /\ s.init_cur + 1 \in Nat BY DEF Results, Context
<1>2. u = [s EXCEPT !.init_cur = s.init_cur + 1] BY DEF Context
<1> HIDE DEF u
<1>3. Prepares(s, by, t) /\ Prepares(s, by, u)
  BY <1>1, <1>2, FormatCursorPrepares
<1>4. t \in Context /\ u \in Context BY <1>3 DEF Prepares
<1>5. /\ Serves(t, by, FormatNext(t, by, refused))
      /\ Serves(u, by, FormatNext(u, by, refused))
  BY <1>4, FormatNextServes
<1>6. /\ Serves(s, by, FormatNext(t, by, refused))
      /\ Serves(s, by, FormatNext(u, by, refused))
  BY <1>3, <1>5, PreparedServes
<1>7. Serves(s, by, Fulfill(s, by, "EBUSY")) BY <1>1, FulfillServes
<1>8. QED BY <1>6, <1>7 DEF Format, FormatZeroed, u

LEMMA FormatHeaderDoneServes ==
    ASSUME NEW s \in Context, NEW by \in Tickets
    PROVE  Serves(s, by, FormatHeaderDone(s, by))
<1> DEFINE t == [s EXCEPT !.next_segment_id = 0]
<1>1. t \in Context /\ t.admin_req = s.admin_req /\ t.io = s.io
  BY DEF Context
<1>2. Untouched(s, t) BY DEF Context, Untouched
<1> HIDE DEF t
<1>3. Prepares(s, by, t) BY <1>1, <1>2 DEF Prepares, Flags, Own
<1>4. "ok" \in Results BY DEF Results
<1>5. Serves(t, by, Fulfill(t, by, "ok")) BY <1>1, <1>4, FulfillServes
<1>6. QED BY <1>3, <1>5, PreparedServes DEF FormatHeaderDone, t

-----------------------------------------------------------------------------
(* Claims *)

Claims(s, by, t) ==
    /\ t \in Context /\ Own(s, by, t)
    /\ t.up = s.up /\ t.shutting_down = s.shutting_down
    /\ t.draining = s.draining /\ t.stopped_by = s.stopped_by
    /\ t.buf_size = s.buf_size
    /\ s.recording => t.recording /\ t.segment_id = s.segment_id

LEMMA ClaimSegmentClaims ==
    ASSUME NEW s \in Context, ~s.recording, NEW by \in Tickets,
           NEW refused \in BOOLEAN
    PROVE  LET t == ClaimSegment(s, by, refused)
           IN  /\ Claims(s, by, t)
               /\ t.recording = s.recording /\ t.stopping = s.stopping
               /\ \/ /\ Ended(s, by, t)
                     /\ t.claim_in_progress => s.claim_in_progress
                  \/ /\ Begun(s, by, {"claimToc"}, t)
                     /\ t.claim_in_progress /\ ~t.recording
<1> DEFINE n == s.next_segment_id
           e == [seg |-> n, state |-> "OPEN", chunk |-> s.buf_size,
                 chunks |-> 0]
           t == [s EXCEPT !.claim_in_progress = TRUE, !.segment_id = n,
                          !.io_buf = e]
           u == [t EXCEPT !.claim_in_progress = FALSE]
<1>1. n \in Nat /\ s.buf_size \in Nat BY BridgeAssumption DEF Context
<1>2. e \in Entry BY <1>1 DEF Entry
<1>3. e.seg = n /\ e.state = "OPEN" /\ e.chunk = s.buf_size OBVIOUS
<1> HIDE DEF e
<1>4. /\ t \in Context /\ t.segment_id = n /\ t.io_buf = e
      /\ t.claim_in_progress
  BY <1>1, <1>2 DEF Context
<1>5. /\ t.up = s.up /\ t.shutting_down = s.shutting_down
      /\ t.draining = s.draining /\ t.stopped_by = s.stopped_by
      /\ t.buf_size = s.buf_size /\ t.recording = s.recording
      /\ t.stopping = s.stopping
      /\ t.io = s.io /\ t.admin_req = s.admin_req
  BY DEF Context
<1> HIDE DEF t
<1>6. /\ u \in Context /\ ~u.claim_in_progress /\ Untouched(u, u)
      /\ u.up = s.up /\ u.shutting_down = s.shutting_down
      /\ u.draining = s.draining /\ u.stopped_by = s.stopped_by
      /\ u.buf_size = s.buf_size /\ u.recording = s.recording
      /\ u.stopping = s.stopping
      /\ u.io = s.io /\ u.admin_req = s.admin_req
  BY <1>4, <1>5 DEF Context, Untouched
<1>7. ClaimSegment(s, by, refused) =
        IF n >= SegmentSlots THEN Fulfill(s, by, "ENOSPC")
        ELSE IF refused THEN Fulfill(u, by, "EIO")
        ELSE Submitted(t, "claimToc", by, n)
  BY <1>4 DEF ClaimSegment, ClaimFailed, t, e
<1> HIDE DEF u
<1>8. {"ENOSPC", "EIO"} \subseteq Results BY DEF Results
<1>9. \A rc \in Results :
         /\ Claims(s, by, Fulfill(s, by, rc))
         /\ Ended(s, by, Fulfill(s, by, rc))
         /\ Fulfill(s, by, rc).recording = s.recording
         /\ Fulfill(s, by, rc).stopping = s.stopping
         /\ Fulfill(s, by, rc).claim_in_progress = s.claim_in_progress
  BY FulfillServes DEF Claims, Serves, Untouched
<1>10. CASE n < SegmentSlots /\ refused
  <2> DEFINE w == Fulfill(u, by, "EIO")
  <2>1. Serves(u, by, w) /\ Ended(u, by, w) BY <1>6, <1>8, FulfillServes
  <2> HIDE DEF w
  <2>2. Claims(s, by, w) /\ Ended(s, by, w) /\ ~w.claim_in_progress
        /\ w.recording = s.recording /\ w.stopping = s.stopping
    BY <1>6, <1>10, <2>1 DEF Claims, Serves, Untouched, Ended, Own
  <2>3. ClaimSegment(s, by, refused) = w
    BY <1>1, <1>7, <1>10, BridgeAssumption DEF w
  <2>4. QED BY <2>2, <2>3
<1>11. CASE n < SegmentSlots /\ ~refused
  <2> DEFINE w == Submitted(t, "claimToc", by, n)
             r == [kind |-> "claimToc", by |-> by, at |-> n]
  <2>1. Apt(t, r) BY <1>3, <1>4, <1>5 DEF Apt
  <2>2. "claimToc" \in (Reads \cup Writes \cup Headers) \cap {"claimToc"}
    BY DEF Writes
  <2>3. /\ w \in Context /\ Untouched(t, w) /\ Own(t, by, w)
        /\ Begun(t, by, {"claimToc"}, w)
    BY <1>1, <1>4, <2>1, <2>2, SubmittedBegins
  <2> HIDE DEF w
  <2>4. Begun(s, by, {"claimToc"}, w)
    BY <1>5, <2>3 DEF Begun, Flags
  <2>5. Claims(s, by, w) /\ w.claim_in_progress /\ ~w.recording
        /\ w.recording = s.recording /\ w.stopping = s.stopping
    BY <1>4, <1>5, <1>11, <2>3 DEF Claims, Untouched, Own
  <2>6. ClaimSegment(s, by, refused) = w
    BY <1>1, <1>7, <1>11, BridgeAssumption DEF w
  <2>7. QED BY <2>4, <2>5, <2>6
<1>12. QED BY <1>1, <1>7, <1>8, <1>9, <1>10, <1>11, BridgeAssumption

\* A start's port is all that WithPort changes.
LEMMA WithPortRests ==
    ASSUME NEW s \in Context
    PROVE  LET p == WithPort(s)
           IN  /\ p \in Context /\ Rest(s, p) /\ p.io = s.io
               /\ p.admin_req = s.admin_req
<1> DEFINE n == s.admin_req.port
           p == [s EXCEPT !.udp_port = n]
<1>1. n \in Ports BY DEF Context, Request
<1> HIDE DEF n
<1>2. /\ p \in Context /\ Rest(s, p) /\ p.io = s.io
      /\ p.admin_req = s.admin_req
  BY <1>1 DEF Context, Rest
<1>3. Rest(s, s) BY DEF Rest
<1> HIDE DEF p
<1>4. WithPort(s) = s \/ WithPort(s) = p BY DEF WithPort, p, n
<1>5. QED BY <1>2, <1>3, <1>4

LEMMA StartClaims ==
    ASSUME NEW s \in Context, NEW by \in Tickets, NEW refused \in BOOLEAN
    PROVE  LET t == Start(s, by, refused)
           IN  /\ Claims(s, by, t)
               /\ t.recording = s.recording /\ t.stopping = s.stopping
               /\ \/ /\ Ended(s, by, t)
                     /\ t.claim_in_progress => s.claim_in_progress
                  \/ /\ Begun(s, by, {"claimToc"}, t)
                     /\ t.claim_in_progress /\ ~t.recording
<1> DEFINE p == WithPort(s)
           t == Start(s, by, refused)
<1>1. p \in Context /\ Rest(s, p) /\ p.io = s.io /\ p.admin_req = s.admin_req
  BY WithPortRests
<1>2. "EALREADY" \in Results /\ "EINVAL" \in Results BY DEF Results
<1>3. \/ t = Fulfill(s, by, "EALREADY") \/ t = Fulfill(p, by, "EINVAL")
      \/ ~s.recording /\ t = ClaimSegment(p, by, refused)
  BY DEF Start
<1> HIDE DEF p, t
<1>4. CASE t = Fulfill(s, by, "EALREADY")
  BY <1>2, <1>4, FulfillServes DEF Claims, Serves, Untouched, t
<1>5. CASE t = Fulfill(p, by, "EINVAL")
  <2>1. Serves(p, by, t) /\ Ended(p, by, t) BY <1>1, <1>2, <1>5, FulfillServes
  <2>2. Ended(s, by, t) BY <1>1, <2>1 DEF Ended
  <2>3. Claims(s, by, t) /\ t.recording = s.recording
        /\ t.stopping = s.stopping
        /\ t.claim_in_progress = s.claim_in_progress
    BY <1>1, <2>1 DEF Claims, Serves, Untouched, Own, Rest
  <2>4. QED BY <2>2, <2>3 DEF t
<1>6. CASE ~s.recording /\ t = ClaimSegment(p, by, refused)
  <2>1. ~p.recording BY <1>1, <1>6 DEF Rest
  <2>2. /\ Claims(p, by, t)
        /\ t.recording = p.recording /\ t.stopping = p.stopping
        /\ \/ /\ Ended(p, by, t)
              /\ t.claim_in_progress => p.claim_in_progress
           \/ /\ Begun(p, by, {"claimToc"}, t)
              /\ t.claim_in_progress /\ ~t.recording
    BY <1>1, <1>6, <2>1, ClaimSegmentClaims
  <2>3. Ended(p, by, t) => Ended(s, by, t) BY <1>1 DEF Ended
  <2>4. Begun(p, by, {"claimToc"}, t) => Begun(s, by, {"claimToc"}, t)
    BY <1>1 DEF Begun, Flags
  <2>5. Claims(s, by, t) BY <1>1, <2>2 DEF Claims, Rest, Own
  <2>6. QED BY <1>1, <2>2, <2>3, <2>4, <2>5 DEF Rest, t
<1>7. QED BY <1>3, <1>4, <1>5, <1>6

LEMMA ClaimFailedClaims ==
    ASSUME NEW s \in Context, NEW by \in Tickets, NEW rc \in Results
    PROVE  LET t == ClaimFailed(s, by, rc)
           IN  /\ Claims(s, by, t) /\ Ended(s, by, t)
               /\ ~t.claim_in_progress /\ t.recording = s.recording
               /\ t.stopping = s.stopping /\ t.segment_id = s.segment_id
<1> DEFINE u == [s EXCEPT !.claim_in_progress = FALSE]
           t == Fulfill(u, by, rc)
<1>1. /\ u \in Context /\ ~u.claim_in_progress
      /\ u.up = s.up /\ u.shutting_down = s.shutting_down
      /\ u.draining = s.draining /\ u.stopped_by = s.stopped_by
      /\ u.buf_size = s.buf_size /\ u.recording = s.recording
      /\ u.segment_id = s.segment_id
      /\ u.stopping = s.stopping
      /\ u.io = s.io /\ u.admin_req = s.admin_req
  BY DEF Context
<1>2. ClaimFailed(s, by, rc) = t BY DEF ClaimFailed
<1> HIDE DEF u
<1>3. Serves(u, by, t) /\ Ended(u, by, t) BY <1>1, FulfillServes
<1> HIDE DEF t
<1>4. QED BY <1>1, <1>2, <1>3 DEF Claims, Serves, Untouched, Ended, Own

LEMMA ClaimTocDoneClaims ==
    ASSUME NEW s \in Context, NEW by \in Tickets,
           NEW ok \in BOOLEAN, NEW refused \in BOOLEAN
    PROVE  LET t == ClaimTocDone(s, by, ok, refused)
           IN  /\ Claims(s, by, t)
               /\ t.recording = s.recording /\ t.stopping = s.stopping
               /\ \/ Ended(s, by, t) /\ ~t.claim_in_progress
                  \/ /\ ok /\ Begun(s, by, {"claimHdr"}, t)
                     /\ t.claim_in_progress = s.claim_in_progress
                     /\ t.segment_id = s.segment_id
<1> DEFINE u == [s EXCEPT !.next_segment_id = @ + 1]
           w == Submitted(u, "claimHdr", by, 0)
           r == [kind |-> "claimHdr", by |-> by, at |-> 0]
<1>1. s.next_segment_id + 1 \in Nat BY DEF Context
<1>2. /\ u \in Context
      /\ Untouched(s, u) /\ u.io = s.io /\ u.admin_req = s.admin_req
  BY <1>1 DEF Context, Untouched
<1> HIDE DEF u
<1>3. "EIO" \in Results BY DEF Results
<1>4. CASE ~ok
  BY <1>3, <1>4, ClaimFailedClaims DEF ClaimTocDone
<1>5. CASE ok /\ refused
  <2> DEFINE v == ClaimFailed(u, by, "EIO")
  <2>1. /\ Claims(u, by, v) /\ Ended(u, by, v)
        /\ ~v.claim_in_progress /\ v.recording = u.recording
        /\ v.stopping = u.stopping
    BY <1>2, <1>3, ClaimFailedClaims
  <2>2. ClaimTocDone(s, by, ok, refused) = v BY <1>5 DEF ClaimTocDone, u
  <2> HIDE DEF v
  <2>3. QED BY <1>2, <2>1, <2>2 DEF Claims, Untouched, Ended, Own
<1>6. CASE ok /\ ~refused
  <2>1. Apt(u, r) BY DEF Apt
  <2>2. "claimHdr" \in (Reads \cup Writes \cup Headers) \cap {"claimHdr"}
    BY DEF Headers
  <2>3. /\ w \in Context /\ Untouched(u, w) /\ Own(u, by, w)
        /\ Begun(u, by, {"claimHdr"}, w)
    BY <1>2, <2>1, <2>2, SubmittedBegins
  <2>4. ClaimTocDone(s, by, ok, refused) = w BY <1>6 DEF ClaimTocDone, u
  <2> HIDE DEF w
  <2>5. Begun(s, by, {"claimHdr"}, w) BY <1>2, <2>3 DEF Begun, Flags
  <2>6. QED BY <1>2, <1>6, <2>3, <2>4, <2>5 DEF Claims, Untouched, Own
<1>7. QED BY <1>4, <1>5, <1>6

LEMMA ClaimHeaderDoneClaims ==
    ASSUME NEW s \in Context, NEW by \in Tickets, NEW ok \in BOOLEAN
    PROVE  LET t == ClaimHeaderDone(s, by, ok)
           IN  /\ Claims(s, by, t) /\ Ended(s, by, t)
               /\ ~t.claim_in_progress /\ t.segment_id = s.segment_id
               /\ s.recording \/ ~t.recording \/ ~t.stopping
<1> DEFINE u == [s EXCEPT !.stopping = FALSE, !.recording = TRUE,
                          !.claim_in_progress = FALSE]
           t == Fulfill(u, by, "ok")
<1>1. /\ u \in Context /\ ~u.claim_in_progress /\ u.recording
      /\ ~u.stopping
      /\ u.up = s.up /\ u.shutting_down = s.shutting_down
      /\ u.draining = s.draining /\ u.stopped_by = s.stopped_by
      /\ u.buf_size = s.buf_size /\ u.segment_id = s.segment_id
      /\ u.io = s.io /\ u.admin_req = s.admin_req
  BY DEF Context
<1>2. "ok" \in Results /\ "EIO" \in Results BY DEF Results
<1>3. ok => ClaimHeaderDone(s, by, ok) = t BY DEF ClaimHeaderDone
<1> HIDE DEF u
<1>4. Serves(u, by, t) /\ Ended(u, by, t) BY <1>1, <1>2, FulfillServes
<1> HIDE DEF t
<1>5. CASE ok
  BY <1>1, <1>3, <1>4, <1>5 DEF Claims, Serves, Untouched, Ended, Own
<1>6. CASE ~ok
  <2> DEFINE v == ClaimFailed(s, by, "EIO")
  <2>1. ClaimHeaderDone(s, by, ok) = v BY <1>6 DEF ClaimHeaderDone
  <2>2. QED BY <1>2, <2>1, ClaimFailedClaims
<1>7. QED BY <1>5, <1>6

-----------------------------------------------------------------------------
(* Stops *)

Finalizes(s, by, t) ==
    /\ t \in Context /\ t.admin_req.resp = s.admin_req.resp
    /\ t.shutting_down = s.shutting_down /\ t.stopping = s.stopping
    /\ t.draining = s.draining /\ t.stopped_by = s.stopped_by
    /\ t.segment_id = s.segment_id /\ t.buf_size = s.buf_size
    /\ t.claim_in_progress = s.claim_in_progress
    /\ \/ /\ Begun(s, by, {"finHdr", "finToc"}, t)
          /\ t.up = s.up /\ t.recording = s.recording
       \/ s.shutting_down /\ ~t.up /\ t.io = s.io /\ Flags(s, t)
          /\ ~t.recording
       \/ ~s.shutting_down /\ t.up = s.up /\ Ended(s, by, t) /\ ~t.recording

LEMMA FinalizeTocDoneFinalizes ==
    ASSUME NEW s \in Context, NEW by \in Tickets, NEW ok \in BOOLEAN
    PROVE  /\ Finalizes(s, by, FinalizeTocDone(s, by, ok))
           /\ ~FinalizeTocDone(s, by, ok).recording
<1> DEFINE u == [s EXCEPT !.recording = FALSE]
           v == [u EXCEPT !.up = FALSE]
           rc == IF ok THEN "ok" ELSE "EIO"
           w == Fulfill(u, by, rc)
<1>1. /\ u \in Context /\ ~u.recording
      /\ u.up = s.up /\ u.shutting_down = s.shutting_down
      /\ u.draining = s.draining /\ u.stopped_by = s.stopped_by
      /\ u.buf_size = s.buf_size /\ u.segment_id = s.segment_id
      /\ u.claim_in_progress = s.claim_in_progress
      /\ u.stopping = s.stopping
      /\ u.io = s.io /\ u.admin_req = s.admin_req
  BY DEF Context
<1>2. FinalizeTocDone(s, by, ok) = IF s.shutting_down THEN v ELSE w
  BY DEF FinalizeTocDone
<1> HIDE DEF u
<1>3. /\ v \in Context /\ ~v.recording
      /\ ~v.up /\ v.shutting_down = s.shutting_down
      /\ v.draining = s.draining /\ v.stopped_by = s.stopped_by
      /\ v.buf_size = s.buf_size /\ v.segment_id = s.segment_id
      /\ v.claim_in_progress = s.claim_in_progress
      /\ v.stopping = s.stopping
      /\ v.io = s.io /\ v.admin_req = s.admin_req
  BY <1>1 DEF Context
<1>4. rc \in Results BY DEF Results
<1> HIDE DEF v, rc
<1>5. /\ Serves(u, by, w) /\ Ended(u, by, w)
      /\ w.admin_req.resp = u.admin_req.resp
  BY <1>1, <1>4, FulfillServes
<1> HIDE DEF w
<1>6. CASE s.shutting_down
  BY <1>2, <1>3, <1>6 DEF Finalizes, Flags
<1>7. CASE ~s.shutting_down
  BY <1>1, <1>2, <1>5, <1>7 DEF Finalizes, Serves, Untouched, Ended
<1>8. QED BY <1>6, <1>7

LEMMA FinalizeHeaderDoneFinalizes ==
    ASSUME NEW s \in Context, NEW by \in Tickets, NEW refused \in BOOLEAN
    PROVE  Finalizes(s, by, FinalizeHeaderDone(s, by, refused))
<1> DEFINE e == FinalizedEntry(s)
           u == [s EXCEPT !.io_buf = e]
           v == FinalizeTocDone(u, by, FALSE)
           w == Submitted(u, "finToc", by, s.segment_id)
           r == [kind |-> "finToc", by |-> by, at |-> s.segment_id]
<1>1. e \in Entry
  BY BridgeAssumption DEF FinalizedEntry, Entry, Context
<1> HIDE DEF e
<1>2. /\ u \in Context /\ Untouched(s, u) /\ u.io_buf = e
      /\ u.io = s.io /\ u.admin_req = s.admin_req
  BY <1>1 DEF Context, Untouched
<1>3. FinalizeHeaderDone(s, by, refused) = IF refused THEN v ELSE w
  BY DEF FinalizeHeaderDone, e
<1> HIDE DEF u
<1>4. CASE refused
  <2>1. Finalizes(u, by, v) BY <1>2, FinalizeTocDoneFinalizes
  <2> HIDE DEF v
  <2>2. QED
    BY <1>2, <1>3, <1>4, <2>1 DEF Finalizes, Untouched, Flags, Begun,
       Ended
<1>5. CASE ~refused
  <2>1. e = FinalizedEntry(u) BY <1>2 DEF e, FinalizedEntry, Untouched
  <2>2. Apt(u, r) BY <1>2, <2>1 DEF Apt, Untouched
  <2>3. "finToc" \in
          (Reads \cup Writes \cup Headers) \cap {"finHdr", "finToc"}
    BY DEF Writes
  <2>4. s.segment_id \in Nat BY DEF Context
  <2>5. /\ w \in Context /\ Untouched(u, w) /\ w.admin_req = u.admin_req
        /\ Begun(u, by, {"finHdr", "finToc"}, w)
    BY <1>2, <2>2, <2>3, <2>4, SubmittedBegins
  <2> HIDE DEF w
  <2>6. QED
    BY <1>2, <1>3, <1>5, <2>5 DEF Finalizes, Untouched, Flags, Begun
<1>6. QED BY <1>4, <1>5

LEMMA FinalizeSegmentFinalizes ==
    ASSUME NEW s \in Context, NEW by \in Tickets, NEW refused \in BOOLEAN
    PROVE  Finalizes(s, by, FinalizeSegment(s, by, refused))
<1> DEFINE w == Submitted(s, "finHdr", by, 0)
           r == [kind |-> "finHdr", by |-> by, at |-> 0]
<1>1. Apt(s, r) BY DEF Apt
<1>2. "finHdr" \in
        (Reads \cup Writes \cup Headers) \cap {"finHdr", "finToc"}
  BY DEF Headers
<1>3. /\ w \in Context /\ Untouched(s, w) /\ w.admin_req = s.admin_req
      /\ Begun(s, by, {"finHdr", "finToc"}, w)
  BY <1>1, <1>2, SubmittedBegins
<1>4. ~refused => FinalizeSegment(s, by, refused) = w
  BY DEF FinalizeSegment
<1> HIDE DEF w
<1>5. ~refused => Finalizes(s, by, FinalizeSegment(s, by, refused))
  BY <1>3, <1>4 DEF Finalizes, Untouched
<1>6. refused => Finalizes(s, by, FinalizeSegment(s, by, refused))
  BY FinalizeHeaderDoneFinalizes DEF FinalizeSegment
<1>7. QED BY <1>5, <1>6

\* The stop has begun: the last writes drain, or the segment is finalized.
StopBegun(s, by, u) ==
    /\ u \in Context /\ u.admin_req.resp = s.admin_req.resp
    /\ u.stopping /\ u.stopped_by = by
    /\ u.up = s.up /\ u.shutting_down = s.shutting_down
    /\ u.recording = s.recording /\ u.segment_id = s.segment_id
    /\ u.buf_size = s.buf_size /\ Flags(s, u) /\ u.io = s.io
    /\ u.claim_in_progress = s.claim_in_progress

LEMMA StopRecordingStops ==
    ASSUME NEW s \in Context, NEW by \in Tickets, ~s.stopping,
           NEW drained \in BOOLEAN, NEW refused \in BOOLEAN
    PROVE  LET t == StopRecording(s, by, drained, refused)
           IN  \/ StopBegun(s, by, t) /\ t.draining
               \/ \E u : /\ StopBegun(s, by, u) /\ u.draining = s.draining
                         /\ Finalizes(u, by, t)
<1> DEFINE u == [s EXCEPT !.stopping = TRUE, !.stopped_by = by]
           v == [u EXCEPT !.draining = TRUE]
<1>1. /\ u \in Context /\ u.stopping /\ u.stopped_by = by
      /\ u.up = s.up /\ u.shutting_down = s.shutting_down
      /\ u.recording = s.recording /\ u.segment_id = s.segment_id
      /\ u.buf_size = s.buf_size /\ u.io = s.io
      /\ u.admin_req = s.admin_req /\ u.draining = s.draining
      /\ u.claim_in_progress = s.claim_in_progress
  BY DEF Context
<1>2. StopRecording(s, by, drained, refused) =
        IF drained THEN FinalizeSegment(u, by, refused) ELSE v
  BY DEF StopRecording
<1> HIDE DEF u
<1>3. /\ v \in Context /\ v.stopping /\ v.stopped_by = by /\ v.draining
      /\ v.up = s.up /\ v.shutting_down = s.shutting_down
      /\ v.recording = s.recording /\ v.segment_id = s.segment_id
      /\ v.buf_size = s.buf_size /\ v.io = s.io
      /\ v.admin_req = s.admin_req
      /\ v.claim_in_progress = s.claim_in_progress
  BY <1>1 DEF Context
<1> HIDE DEF v
<1>4. StopBegun(s, by, u) BY <1>1 DEF StopBegun, Flags
<1>5. StopBegun(s, by, v) BY <1>3 DEF StopBegun, Flags
<1>6. Finalizes(u, by, FinalizeSegment(u, by, refused))
  BY <1>1, FinalizeSegmentFinalizes
<1>7. QED BY <1>1, <1>2, <1>3, <1>4, <1>5, <1>6

-----------------------------------------------------------------------------
(* SET_WRITE_CHUNK *)

LEMMA SetChunkSets ==
    ASSUME NEW s \in Context, NEW by \in Tickets
    PROVE  LET t == SetChunk(s, by)
           IN  /\ t \in Context /\ Own(s, by, t) /\ Ended(s, by, t)
               /\ t.up = s.up /\ t.shutting_down = s.shutting_down
               /\ t.recording = s.recording /\ t.stopping = s.stopping
               /\ t.draining = s.draining /\ t.stopped_by = s.stopped_by
               /\ t.claim_in_progress = s.claim_in_progress
               /\ t.segment_id = s.segment_id
               /\ s.claim_in_progress \/ s.recording =>
                     t.buf_size = s.buf_size
<1> DEFINE u == [s EXCEPT !.buf_size = s.admin_req.chunk]
<1>1. {"EBUSY", "EINVAL", "ok"} \subseteq Results BY DEF Results
<1>2. \A rc \in Results :
         Serves(s, by, Fulfill(s, by, rc)) /\ Ended(s, by, Fulfill(s, by, rc))
  BY FulfillServes
<1>3. CASE s.recording \/ s.claim_in_progress
  <2>1. SetChunk(s, by) = Fulfill(s, by, "EBUSY") BY <1>3 DEF SetChunk
  <2>2. QED BY <1>1, <1>2, <2>1 DEF Serves, Untouched
<1>4. CASE /\ ~(s.recording \/ s.claim_in_progress)
           /\ s.admin_req.chunk \notin ChunkSizes
  <2>1. SetChunk(s, by) = Fulfill(s, by, "EINVAL") BY <1>4 DEF SetChunk
  <2>2. QED BY <1>1, <1>2, <2>1 DEF Serves, Untouched
<1>5. CASE /\ ~(s.recording \/ s.claim_in_progress)
           /\ s.admin_req.chunk \in ChunkSizes
  <2> DEFINE t == Fulfill(u, by, "ok")
  <2>1. SetChunk(s, by) = t BY <1>5 DEF SetChunk
  <2>2. /\ u \in Context
        /\ u.up = s.up /\ u.shutting_down = s.shutting_down
        /\ u.recording = s.recording /\ u.stopping = s.stopping
        /\ u.draining = s.draining /\ u.stopped_by = s.stopped_by
        /\ u.claim_in_progress = s.claim_in_progress
        /\ u.segment_id = s.segment_id
        /\ u.io = s.io /\ u.admin_req = s.admin_req
    BY <1>5 DEF Context
  <2> HIDE DEF u
  <2>3. Serves(u, by, t) /\ Ended(u, by, t) BY <1>1, <2>2, FulfillServes
  <2> HIDE DEF t
  <2>4. QED
    BY <1>5, <2>1, <2>2, <2>3 DEF Serves, Untouched, Ended, Own
<1>6. QED BY <1>3, <1>4, <1>5

-----------------------------------------------------------------------------
(* Types, and the size of a claimed segment's chunks, whatever interleaves *)

\* t is a context, and its chunk size is that of s if one is claimed there.
Sized(s, t) ==
    /\ t \in Context
    /\ s.claim_in_progress \/ s.recording => t.buf_size = s.buf_size

LEMMA StopSized ==
    ASSUME NEW s \in Context, NEW by \in Tickets,
           NEW drained \in BOOLEAN, NEW refused \in BOOLEAN
    PROVE  /\ Sized(s, StopRecording(s, by, drained, refused))
           /\ Sized(s, Stop(s, by, drained, refused))
<1>1. Sized(s, StopRecording(s, by, drained, refused))
  <2>1. CASE s.stopping BY <2>1 DEF StopRecording, Sized
  <2>2. CASE ~s.stopping
    BY <2>2, StopRecordingStops DEF Sized, StopBegun, Finalizes
  <2>3. QED BY <2>1, <2>2
<1>2. "EALREADY" \in Results BY DEF Results
<1>3. Sized(s, Fulfill(s, by, "EALREADY"))
  BY <1>2, FulfillServes DEF Sized, Serves, Untouched
<1>4. QED BY <1>1, <1>3 DEF Stop

LEMMA DispatchedSized ==
    ASSUME NEW s \in Context, NEW by \in Tickets,
           NEW drained \in BOOLEAN, NEW refused \in BOOLEAN
    PROVE  Sized(s, Dispatched(s, by, drained, refused))
<1> DEFINE op == s.admin_req.op
<1>1. op \in AdminOps BY DEF Context, Request
<1>2. "ESHUTDOWN" \in Results BY DEF Results
<1>3. Sized(s, Fulfill(s, by, "ESHUTDOWN"))
  BY <1>2, FulfillServes DEF Sized, Serves, Untouched
<1>4. Sized(s, Stop(s, by, drained, refused)) BY StopSized
<1>5. Sized(s, Start(s, by, refused)) BY StartClaims DEF Sized, Claims
<1>6. Sized(s, List(s, by, refused))
  BY ListServes DEF Sized, Serves, Untouched
<1>7. Sized(s, Submit(s, "entry", by, s.admin_req.seg, refused))
  <2>1. s.admin_req.seg \in Nat BY SlotIsNat DEF Context, Request
  <2>2. Apt(s, [kind |-> "entry", by |-> by, at |-> s.admin_req.seg])
    BY DEF Apt
  <2>3. Serves(s, by, Submit(s, "entry", by, s.admin_req.seg, refused))
    BY <2>1, <2>2, SubmitServes DEF Plain, Reads
  <2>4. QED BY <2>3 DEF Sized, Serves, Untouched
<1>8. Sized(s, Delete(s, by, refused))
  BY DeleteServes DEF Sized, Serves, Untouched
<1>9. Sized(s, Format(s, by, refused))
  BY FormatServes DEF Sized, Serves, Untouched
<1>10. Sized(s, SetChunk(s, by)) BY SetChunkSets DEF Sized
<1>11. QED
  BY <1>1, <1>3, <1>4, <1>5, <1>6, <1>7, <1>8, <1>9, <1>10
     DEF Dispatched, AdminOps

LEMMA ServedServes ==
    ASSUME NEW s \in Context, NEW t \in Io, t.kind \in Plain,
           NEW refused \in BOOLEAN
    PROVE  Serves(s, t.by, Served(s, t, refused))
<1>1. t.by \in Tickets BY DEF Io
<1>2. /\ Serves(s, t.by, ListRead(s, t.by, refused))
      /\ Serves(s, t.by, EntryRead(s, t.by, refused))
      /\ Serves(s, t.by, RecordsRead(s, t.by, refused))
      /\ Serves(s, t.by, DeleteRead(s, t.by, refused))
      /\ Serves(s, t.by, FormatZeroed(s, t.by, refused))
      /\ Serves(s, t.by, FormatHeaderDone(s, t.by))
  BY <1>1, ListReadServes, EntryReadServes, RecordsReadServes,
     DeleteReadServes, FormatServes, FormatHeaderDoneServes
<1>3. "ok" \in Results BY DEF Results
<1>4. Serves(s, t.by, Fulfill(s, t.by, "ok")) BY <1>1, <1>3, FulfillServes
<1>5. QED BY <1>2, <1>4 DEF Served, Plain, Reads

LEMMA ContinuedSized ==
    ASSUME NEW s \in Context, NEW t \in Io,
           NEW ok \in BOOLEAN, NEW refused \in BOOLEAN
    PROVE  Sized(s, Continued(s, t, ok, refused))
<1>1. t.by \in Tickets /\ t.kind \in Reads \cup Writes \cup Headers
  BY DEF Io
<1>2. "EIO" \in Results BY DEF Results
<1>3. /\ Sized(s, ClaimTocDone(s, t.by, ok, refused))
      /\ Sized(s, ClaimHeaderDone(s, t.by, ok))
  BY <1>1, ClaimTocDoneClaims, ClaimHeaderDoneClaims DEF Sized, Claims
<1>4. /\ Sized(s, FinalizeHeaderDone(s, t.by, refused))
      /\ Sized(s, FinalizeTocDone(s, t.by, ok))
  BY <1>1, FinalizeHeaderDoneFinalizes, FinalizeTocDoneFinalizes
     DEF Sized, Finalizes
<1>5. Sized(s, Fulfill(s, t.by, "EIO"))
  BY <1>1, <1>2, FulfillServes DEF Sized, Serves, Untouched
<1>6. t.kind \in Plain => Sized(s, Served(s, t, refused))
  BY ServedServes DEF Sized, Serves, Untouched
<1>7. t.kind \in Plain \/ t.kind \in {"claimToc", "claimHdr", "finHdr", "finToc"}
  BY <1>1 DEF Plain, Reads, Writes, Headers
<1>8. QED BY <1>3, <1>4, <1>5, <1>6, <1>7 DEF Continued

\* The web thread changes nothing but the request.
LEMMA RequestSized ==
    ASSUME NEW s \in Context, NEW q \in Request
    PROVE  /\ Sized(s, [s EXCEPT !.admin_req = q])
           /\ Rest(s, [s EXCEPT !.admin_req = q])
           /\ [s EXCEPT !.admin_req = q].io = s.io
           /\ [s EXCEPT !.admin_req = q].admin_req = q
<1>1. [s EXCEPT !.admin_req = q] \in Context BY DEF Context
<1>2. QED BY <1>1 DEF Sized, Context, Rest

LEMMA ReceivedSets ==
    ASSUME ctx \in Context, Received
    PROVE  \E q \in Request :
              /\ ctx' = [ctx EXCEPT !.admin_req = q]
              /\ q.busy = ctx.admin_req.busy /\ q.done = ctx.admin_req.done
              /\ q.abandoned = ctx.admin_req.abandoned
              /\ q.from = ctx.admin_req.from /\ q.rc = ctx.admin_req.rc
              /\ q.resp = ctx.admin_req.resp
<1>1. PICK op \in Asked, seg \in Slots, chunk \in ChunkSizes \cup {0},
           port \in Ports :
         /\ web.pc = "recv" /\ web.conns < MaxCalls
         /\ op \notin {"records", "delete"} => seg = ctx.admin_req.seg
         /\ op # "chunk" => chunk = ctx.admin_req.chunk
         /\ op # "start" => port = ctx.admin_req.port
         /\ web' = [web EXCEPT !.pc = "call", !.conns = @ + 1]
         /\ ctx' = [ctx EXCEPT !.admin_req.op = op, !.admin_req.seg = seg,
                               !.admin_req.chunk = chunk,
                               !.admin_req.port = port]
         /\ UNCHANGED <<toc, msgs, deletes, faults>>
  BY Zenon DEF Received
<1> DEFINE q == [ctx.admin_req EXCEPT !.op = op, !.seg = seg,
                                      !.chunk = chunk, !.port = port]
<1>2. ctx.admin_req \in Request BY DEF Context
<1>3. op \in AdminOps /\ chunk \in Nat BY BridgeAssumption DEF AdminOps
<1>4. q \in Request BY <1>2, <1>3 DEF Request
<1>5. /\ q.busy = ctx.admin_req.busy /\ q.done = ctx.admin_req.done
      /\ q.abandoned = ctx.admin_req.abandoned
      /\ q.from = ctx.admin_req.from /\ q.rc = ctx.admin_req.rc
      /\ q.resp = ctx.admin_req.resp
  BY <1>2 DEF Request
<1>6. ctx' = [ctx EXCEPT !.admin_req = q] BY <1>1 DEF Context
<1> HIDE DEF q
<1>7. QED BY <1>4, <1>5, <1>6

LEMMA NoCallSets ==
    ASSUME ctx \in Context, NoCall
    PROVE  \E q \in Request :
              /\ ctx' = [ctx EXCEPT !.admin_req = q]
              /\ q.busy = ctx.admin_req.busy /\ q.done = ctx.admin_req.done
              /\ q.abandoned = ctx.admin_req.abandoned
              /\ q.from = ctx.admin_req.from /\ q.rc = ctx.admin_req.rc
              /\ q.resp = ctx.admin_req.resp
<1> DEFINE q == [ctx.admin_req EXCEPT !.op = "chunk"]
<1>1. ctx.admin_req \in Request BY DEF Context
<1>2. "chunk" \in AdminOps BY DEF AdminOps
<1>3. q \in Request BY <1>1, <1>2 DEF Request
<1>4. /\ q.busy = ctx.admin_req.busy /\ q.done = ctx.admin_req.done
      /\ q.abandoned = ctx.admin_req.abandoned
      /\ q.from = ctx.admin_req.from /\ q.rc = ctx.admin_req.rc
      /\ q.resp = ctx.admin_req.resp
  BY <1>1 DEF Request
<1>5. CASE ctx' = ctx
  <2>1. ctx' = [ctx EXCEPT !.admin_req = ctx.admin_req] BY <1>5 DEF Context
  <2>2. QED BY <1>1, <2>1
<1>6. CASE ctx' = [ctx EXCEPT !.admin_req.op = "chunk"]
  <2>1. ctx' = [ctx EXCEPT !.admin_req = q] BY <1>6 DEF Context
  <2> HIDE DEF q
  <2>2. QED BY <1>3, <1>4, <2>1
<1>7. QED BY <1>5, <1>6 DEF NoCall

LEMMA CallTakes ==
    ASSUME ctx \in Context, Call
    PROVE  \/ ctx.admin_req.busy /\ Refused /\ ctx' = ctx
           \/ /\ ~ctx.admin_req.busy
              /\ web' = [web EXCEPT !.pc = "wait", !.call = web.call + 1,
                                    !.op = ctx.admin_req.op]
              /\ msgs' = Append(msgs, web.call + 1)
              /\ deletes' \in {deletes, deletes \cup {ctx.admin_req.seg}}
              /\ \E q \in Request :
                    /\ ctx' = [ctx EXCEPT !.admin_req = q]
                    /\ q.busy /\ ~q.done /\ ~q.abandoned
                    /\ q.op = ctx.admin_req.op /\ q.resp = <<>>
<1> DEFINE q == [ctx.admin_req EXCEPT !.done = FALSE, !.busy = TRUE,
                                      !.abandoned = FALSE, !.resp = <<>>]
           s == [ctx EXCEPT !.admin_req.done = FALSE]
<1>1. CASE ctx.admin_req.busy /\ Refused BY <1>1 DEF Refused
<1>2. CASE ~ctx.admin_req.busy /\ Taken(s)
  <2>1. ctx.admin_req \in Request BY DEF Context
  <2>2. <<>> \in Seq([by : Tickets, entry : Entry]) OBVIOUS
  <2>3. /\ q \in Request /\ q.busy /\ ~q.done /\ ~q.abandoned
        /\ q.op = ctx.admin_req.op /\ q.resp = <<>>
    BY <2>1, <2>2 DEF Request
  <2>4. /\ s.admin_req.op = ctx.admin_req.op
        /\ s.admin_req.seg = ctx.admin_req.seg
    BY <2>1 DEF Context, Request
  <2>5. [s EXCEPT !.admin_req.busy = TRUE, !.admin_req.abandoned = FALSE,
                  !.admin_req.resp = <<>>] = [ctx EXCEPT !.admin_req = q]
    BY <2>1 DEF Context, Request
  <2>6. ctx' = [ctx EXCEPT !.admin_req = q] BY <1>2, <2>5 DEF Taken
  <2> HIDE DEF q, s
  <2>7. /\ web' = [web EXCEPT !.pc = "wait", !.call = web.call + 1,
                              !.op = ctx.admin_req.op]
        /\ msgs' = Append(msgs, web.call + 1)
        /\ deletes' \in {deletes, deletes \cup {ctx.admin_req.seg}}
    BY <1>2, <2>4 DEF Taken
  <2>8. QED BY <1>2, <2>3, <2>6, <2>7
<1>3. QED BY <1>1, <1>2 DEF Call

LEMMA WokenSets ==
    ASSUME ctx \in Context, Woken
    PROVE  \E q \in Request :
              /\ ctx' = [ctx EXCEPT !.admin_req = q]
              /\ ~q.busy /\ q.done = ctx.admin_req.done
              /\ q.abandoned = ctx.admin_req.abandoned
              /\ q.from = ctx.admin_req.from /\ q.rc = ctx.admin_req.rc
              /\ q.resp = ctx.admin_req.resp
<1> DEFINE q == [ctx.admin_req EXCEPT !.busy = FALSE]
<1>1. ctx.admin_req \in Request BY DEF Context
<1>2. q \in Request BY <1>1 DEF Request
<1>3. /\ ~q.busy /\ q.done = ctx.admin_req.done
      /\ q.abandoned = ctx.admin_req.abandoned
      /\ q.from = ctx.admin_req.from /\ q.rc = ctx.admin_req.rc
      /\ q.resp = ctx.admin_req.resp
  BY <1>1 DEF Request
<1>4. ctx' = [ctx EXCEPT !.admin_req = q] BY DEF Woken, Context
<1> HIDE DEF q
<1>5. QED BY <1>2, <1>3, <1>4

LEMMA TimedOutSets ==
    ASSUME ctx \in Context, TimedOut
    PROVE  \E q \in Request :
              /\ ctx' = [ctx EXCEPT !.admin_req = q]
              /\ q.abandoned /\ q.done = ctx.admin_req.done
              /\ q.busy = ctx.admin_req.busy
              /\ q.from = ctx.admin_req.from /\ q.rc = ctx.admin_req.rc
              /\ q.resp = ctx.admin_req.resp
<1> DEFINE q == [ctx.admin_req EXCEPT !.abandoned = TRUE]
<1>1. ctx.admin_req \in Request BY DEF Context
<1>2. q \in Request BY <1>1 DEF Request
<1>3. /\ q.abandoned /\ q.done = ctx.admin_req.done
      /\ q.busy = ctx.admin_req.busy
      /\ q.from = ctx.admin_req.from /\ q.rc = ctx.admin_req.rc
      /\ q.resp = ctx.admin_req.resp
  BY <1>1 DEF Request
<1>4. ctx' = [ctx EXCEPT !.admin_req = q] BY DEF TimedOut, Context
<1> HIDE DEF q
<1>5. QED BY <1>2, <1>3, <1>4

\* The context an I/O's callback finds.
Finds(t, ok) ==
    [ctx EXCEPT !.io = @ \ {t},
       !.io_buf = IF ok /\ t.kind \in Reads THEN BlockRead(t) ELSE @]

LEMMA FindsType ==
    ASSUME TypeOK, NEW t \in ctx.io, NEW ok \in BOOLEAN
    PROVE  LET s == Finds(t, ok)
           IN  /\ s \in Context /\ t \in Io
               /\ s.io = ctx.io \ {t} /\ s.admin_req = ctx.admin_req
               /\ Untouched(ctx, s)
               /\ s.next_segment_id = ctx.next_segment_id
               /\ s.dump_records_seen = ctx.dump_records_seen
               /\ s.dump_target_count = ctx.dump_target_count
               /\ s.io_buf = IF ok /\ t.kind \in Reads THEN BlockRead(t)
                             ELSE ctx.io_buf
<1> DEFINE e == IF ok /\ t.kind \in Reads THEN BlockRead(t) ELSE ctx.io_buf
           i == ctx.io \ {t}
<1>1. ctx \in Context /\ toc \in [Slots -> Entry] BY DEF TypeOK
<1>2. FreeEntry \in Entry BY DEF FreeEntry, Entry
<1>3. t \in Io /\ i \in SUBSET Io BY <1>1 DEF Context
<1>4. e \in Entry BY <1>1, <1>2 DEF BlockRead, Context
<1>5. Finds(t, ok) = [ctx EXCEPT !.io = i, !.io_buf = e]
  BY <1>1 DEF Finds, Context
<1> HIDE DEF e, i
<1>6. QED BY <1>1, <1>3, <1>4, <1>5 DEF Context, Untouched, e, i

\* What the steps of the reactor thread do to the daemon.
LEMMA DispatchSized ==
    ASSUME TypeOK, Dispatch
    PROVE  Sized(ctx, ctx')
<1>1. PICK drained \in BOOLEAN, refused \in BOOLEAN :
         ctx' = Dispatched(ctx, Head(msgs), drained, refused)
  BY DEF Dispatch
<1>2. Head(msgs) \in Tickets BY DEF Dispatch, TypeOK
<1>3. QED BY <1>1, <1>2, DispatchedSized DEF TypeOK

LEMMA IoDoneSized ==
    ASSUME TypeOK, IoDone
    PROVE  Sized(ctx, ctx') /\ toc' \in [Slots -> Entry]
<1>1. PICK t \in ctx.io, ok \in BOOLEAN, refused \in BOOLEAN :
         /\ ctx' = Continued(Finds(t, ok), t, ok, refused)
         /\ toc' = IF ok /\ t.kind \in Writes
                   THEN [toc EXCEPT ![t.at] = ctx.io_buf] ELSE toc
  BY DEF IoDone, Finds
<1>2. /\ Finds(t, ok) \in Context /\ t \in Io /\ Untouched(ctx, Finds(t, ok))
  BY FindsType
<1>3. Sized(Finds(t, ok), ctx') BY <1>1, <1>2, ContinuedSized
<1>4. Sized(ctx, ctx') BY <1>2, <1>3 DEF Sized, Untouched
<1>5. toc \in [Slots -> Entry] /\ ctx.io_buf \in Entry
  BY DEF TypeOK, Context
<1>6. QED BY <1>1, <1>4, <1>5

LEMMA DrainedSized ==
    ASSUME TypeOK, Drained
    PROVE  Sized(ctx, ctx')
<1> DEFINE s == [ctx EXCEPT !.draining = FALSE]
<1>1. PICK refused \in BOOLEAN :
         ctx' = FinalizeSegment(s, ctx.stopped_by, refused)
  BY DEF Drained
<1>2. ctx \in Context BY DEF TypeOK
<1>3. /\ s \in Context /\ s.buf_size = ctx.buf_size
      /\ ctx.stopped_by \in Tickets
  BY <1>2 DEF Context
<1> HIDE DEF s
<1>4. Finalizes(s, ctx.stopped_by, ctx')
  BY <1>1, <1>3, FinalizeSegmentFinalizes
<1>5. QED BY <1>3, <1>4 DEF Finalizes, Sized

LEMMA AutoStopSized ==
    ASSUME TypeOK, AutoStop
    PROVE  Sized(ctx, ctx')
<1>1. PICK drained \in BOOLEAN, refused \in BOOLEAN :
         ctx' = StopRecording(ctx, 0, drained, refused)
  BY DEF AutoStop
<1>2. 0 \in Tickets BY BridgeAssumption DEF Tickets
<1>3. QED BY <1>1, <1>2, StopSized DEF TypeOK

LEMMA ShutdownSized ==
    ASSUME TypeOK, Shutdown
    PROVE  Sized(ctx, ctx')
<1> DEFINE s == [ctx EXCEPT !.shutting_down = TRUE]
           u == [s EXCEPT !.up = FALSE]
<1>1. PICK drained \in BOOLEAN, refused \in BOOLEAN :
         ctx' = IF s.recording THEN StopRecording(s, 0, drained, refused)
                ELSE u
  BY DEF Shutdown
<1>2. ctx \in Context BY DEF TypeOK
<1>3. /\ s \in Context /\ s.buf_size = ctx.buf_size
      /\ s.recording = ctx.recording
      /\ s.claim_in_progress = ctx.claim_in_progress
  BY <1>2 DEF Context
<1> HIDE DEF s
<1>4. u \in Context /\ u.buf_size = s.buf_size BY <1>3 DEF Context
<1> HIDE DEF u
<1>5. 0 \in Tickets BY BridgeAssumption DEF Tickets
<1>6. Sized(s, StopRecording(s, 0, drained, refused))
  BY <1>3, <1>5, StopSized
<1>7. QED BY <1>1, <1>3, <1>4, <1>6 DEF Sized

\* The web thread sends no more calls than there are requests.
Paced ==
    /\ web.call <= web.conns /\ web.conns <= MaxCalls
    /\ web.pc = "call" => web.call < web.conns

TypeInv == TypeOK /\ Paced

LEMMA InitTypeInv == Init => TypeInv
<1> SUFFICES ASSUME Init PROVE TypeInv OBVIOUS
<1>1. FreeEntry \in Entry BY DEF FreeEntry, Entry
<1>2. MaxCalls \in Nat /\ 0 \in Tickets BY BridgeAssumption DEF Tickets
<1>3. ctx.admin_req \in Request
  BY <1>2, SlotIsNat DEF Init, Request, AdminOps, Results, Ports
<1>4. ctx \in Context
  <2> DEFINE q == [busy |-> FALSE, done |-> FALSE, abandoned |-> FALSE,
             op |-> "start", seg |-> 0, chunk |-> 0, port |-> 0, rc |-> "ok",
             from |-> 0, resp |-> <<>>]
  <2>1. PICK size \in ChunkSizes, port \in Ports : ctx =
         [up |-> TRUE, shutting_down |-> FALSE, recording |-> FALSE,
          stopping |-> FALSE, draining |-> FALSE,
          claim_in_progress |-> FALSE, stopped_by |-> 0, segment_id |-> 0,
          next_segment_id |-> 0, buf_size |-> size, udp_port |-> port,
          io_buf |-> FreeEntry,
          dump_target_count |-> 0, dump_records_seen |-> 0, init_cur |-> 0,
          io |-> {}, admin_req |-> q]
    BY Zenon DEF Init
  <2>2. ctx.admin_req = q BY <2>1
  <2> HIDE DEF q
  <2>3. q \in Request BY <1>3, <2>2
  <2>4. QED BY <1>1, <1>2, <2>1, <2>3 DEF Context
<1>5. toc \in [Slots -> Entry] /\ msgs \in Seq(Tickets) /\ faults \in Nat
      /\ deletes \subseteq Slots
  BY <1>1 DEF Init
<1>6. web \in Web /\ Paced BY <1>2 DEF Init, Web, AdminOps, Paced
<1>7. QED BY <1>4, <1>5, <1>6 DEF TypeInv, TypeOK

LEMMA NextSized == TypeInv /\ [Next]_vars => TypeInv' /\ Sized(ctx, ctx')
<1> SUFFICES ASSUME TypeInv, [Next]_vars PROVE TypeInv' /\ Sized(ctx, ctx')
  OBVIOUS
<1>1. /\ ctx \in Context /\ toc \in [Slots -> Entry] /\ msgs \in Seq(Tickets)
      /\ web \in Web /\ deletes \subseteq Slots /\ faults \in Nat /\ Paced
      /\ TypeOK
  BY DEF TypeInv, TypeOK
<1>2. MaxCalls \in Nat BY BridgeAssumption
<1>3. /\ web.pc \in {"accept", "recv", "call", "wait", "reply", "send", "left"}
      /\ web.op \in AdminOps /\ web.call \in Nat /\ web.conns \in Nat
  BY <1>1 DEF Web, Tickets
<1>4. CASE Received
  <2>1. Sized(ctx, ctx') BY <1>1, <1>4, ReceivedSets, RequestSized
  <2>2. /\ web' = [web EXCEPT !.pc = "call", !.conns = @ + 1]
        /\ web.conns < MaxCalls
    BY <1>4 DEF Received
  <2>3. /\ web' \in Web /\ web'.pc = "call" /\ web'.call = web.call
        /\ web'.conns = web.conns + 1
    <3> DEFINE w == [web EXCEPT !.pc = "call", !.conns = web.conns + 1]
    <3>1. web.conns + 1 \in Nat BY <1>3
    <3>2. /\ w \in Web /\ w.pc = "call" /\ w.call = web.call
          /\ w.conns = web.conns + 1
      BY <1>1, <3>1 DEF Web
    <3>3. web' = w BY <2>2
    <3> HIDE DEF w
    <3>4. QED BY <3>2, <3>3
  <2>4. Paced' BY <1>1, <1>2, <1>3, <2>2, <2>3 DEF Paced
  <2>5. QED BY <1>1, <1>4, <2>1, <2>3, <2>4 DEF Received, TypeInv, TypeOK, Sized
<1>5. CASE Call
  <2>1. web.pc = "call" /\ UNCHANGED <<toc, faults>> BY <1>5 DEF Call
  <2>2. CASE Refused
    <3>1. web' = [web EXCEPT !.pc = "send"] BY <2>2 DEF Refused
    <3>2. /\ web' \in Web /\ web'.pc = "send" /\ web'.call = web.call
          /\ web'.conns = web.conns
      BY <1>1, <3>1 DEF Web
    <3>3. Paced' BY <1>1, <3>2 DEF Paced
    <3>4. QED
      BY <1>1, <2>1, <2>2, <3>2, <3>3 DEF Refused, TypeInv, TypeOK, Sized
  <2>3. CASE ~Refused
    <3>1. /\ web' = [web EXCEPT !.pc = "wait", !.call = web.call + 1,
                                !.op = ctx.admin_req.op]
          /\ msgs' = Append(msgs, web.call + 1)
          /\ deletes' \in {deletes, deletes \cup {ctx.admin_req.seg}}
          /\ Sized(ctx, ctx')
      BY <1>1, <1>5, <2>3, CallTakes, RequestSized
    <3>2. web.call + 1 \in Tickets
      BY <1>1, <1>2, <1>3, <2>1 DEF Paced, Tickets
    <3>3. ctx.admin_req.op \in AdminOps /\ ctx.admin_req.seg \in Slots
      BY <1>1 DEF Context, Request
    <3>4. /\ web' \in Web /\ web'.pc = "wait"
          /\ web'.call = web.call + 1 /\ web'.conns = web.conns
      BY <1>1, <3>1, <3>2, <3>3 DEF Web
    <3>5. Paced' BY <1>1, <1>2, <1>3, <2>1, <3>4 DEF Paced
    <3>6. msgs' \in Seq(Tickets) BY <1>1, <3>1, <3>2
    <3>7. QED
      BY <1>1, <2>1, <3>1, <3>3, <3>4, <3>5, <3>6 DEF TypeInv, TypeOK, Sized
  <2>4. QED BY <2>2, <2>3
<1>6. CASE Woken \/ TimedOut
  <2>1. Sized(ctx, ctx')
    BY <1>1, <1>6, WokenSets, TimedOutSets, RequestSized
  <2>2. web' \in Web /\ Paced'
    BY <1>1, <1>2, <1>3, <1>6 DEF Woken, TimedOut, Web, Paced, Tickets
  <2>3. QED
    BY <1>1, <1>6, <2>1, <2>2 DEF Woken, TimedOut, TypeInv, TypeOK, Sized
<1>7. CASE Accept \/ Replied \/ Leave \/ NoCall
  <2>1. PICK pc \in {"accept", "recv", "send", "left"} :
           web' = [web EXCEPT !.pc = pc]
    BY <1>7 DEF Accept, Replied, Leave, NoCall
  <2>2. /\ web' \in Web /\ web'.pc = pc /\ web'.call = web.call
        /\ web'.conns = web.conns
    BY <1>1, <2>1 DEF Web
  <2>3. Paced' BY <1>1, <2>2 DEF Paced
  <2>4. Sized(ctx, ctx')
    BY <1>1, <1>7, NoCallSets, RequestSized DEF Accept, Replied, Leave, Sized
  <2>5. UNCHANGED <<toc, msgs, deletes, faults>>
    BY <1>7 DEF Accept, Replied, Leave, NoCall
  <2>6. QED BY <1>1, <2>2, <2>3, <2>4, <2>5 DEF TypeInv, TypeOK, Sized
<1>8. CASE Dispatch
  <2>1. msgs' \in Seq(Tickets) BY <1>1, <1>8 DEF Dispatch
  <2>2. faults' \in Nat BY <1>1, <1>8 DEF Dispatch, Fault
  <2>3. QED
    BY <1>1, <1>8, <2>1, <2>2, DispatchSized DEF Dispatch, TypeInv, TypeOK,
       Sized, Paced
<1>9. CASE IoDone
  <2>1. faults' \in Nat /\ UNCHANGED <<msgs, web, deletes>>
    BY <1>1, <1>9 DEF IoDone, Fault
  <2>2. QED
    BY <1>1, <1>9, <2>1, IoDoneSized DEF TypeInv, TypeOK, Sized, Paced
<1>10. CASE Drained \/ AutoStop \/ Shutdown
  <2>1. Sized(ctx, ctx')
    BY <1>1, <1>10, DrainedSized, AutoStopSized, ShutdownSized
  <2>2. faults' \in Nat /\ UNCHANGED <<toc, msgs, web, deletes>>
    BY <1>1, <1>10 DEF Drained, AutoStop, Shutdown, Fault
  <2>3. QED BY <1>1, <2>1, <2>2 DEF TypeInv, TypeOK, Sized, Paced
<1>11. CASE UNCHANGED vars
  BY <1>1, <1>11 DEF vars, TypeInv, TypeOK, Sized, Paced
<1>12. QED
  BY <1>4, <1>5, <1>6, <1>7, <1>8, <1>9, <1>10, <1>11 DEF Next

\* Every field of the request slot, the cursors, the messages and the I/O of
\* the two threads keep their types, however calls, time-outs and completions
\* interleave: no call is numbered past the requests received.
THEOREM BridgeTyped == Spec => []TypeOK
<1>1. TypeInv => TypeOK BY DEF TypeInv
<1>2. QED BY <1>1, InitTypeInv, NextSized, PTL DEF Spec

\* From the claim of a segment to the end of its recording no handler changes
\* the write chunk size, also while recordings end unasked.
THEOREM SizeFixed == Spec => GeometryFixed
<1>1. TypeInv /\ [Next]_vars =>
         [ctx.claim_in_progress \/ ctx.recording =>
            ctx'.buf_size = ctx.buf_size]_vars
  BY NextSized DEF Sized
<1>2. QED BY <1>1, InitTypeInv, NextSized, PTL DEF Spec, GeometryFixed

-----------------------------------------------------------------------------
(* One call at a time, when recordings end by stop calls and by SIGINT      *)

Claiming == {"claimToc", "claimHdr"}
Finalizing == {"finHdr", "finToc"}

\* The slot is held for call c, which is not answered.
Held(s, c) == c # 0 /\ s.admin_req.busy /\ ~s.admin_req.done

\* No stop is under way, and no claim.
Calm(s) ==
    /\ ~s.draining /\ ~s.claim_in_progress /\ ~s.shutting_down
    /\ s.recording => ~s.stopping

Ending(s) == s.recording /\ s.stopping /\ ~s.claim_in_progress

\* Nothing to do.
Idle(s, m) == m = <<>> /\ s.io = {} /\ Calm(s)

\* Call c waits to be dispatched.
Sent(s, m, c) == m = <<c>> /\ Held(s, c) /\ s.io = {} /\ Calm(s)

\* An operation of call c goes on when its only I/O completes.
Serving(s, m, c) ==
    /\ m = <<>> /\ Held(s, c)
    /\ \E r \in Io :
          /\ s.io = {r} /\ r.by = c /\ Apt(s, r)
          /\ \/ r.kind \in Plain /\ Calm(s)
             \/ /\ r.kind \in Claiming /\ s.claim_in_progress
                /\ ~s.recording /\ ~s.draining /\ ~s.shutting_down
             \/ r.kind \in Finalizing /\ Ending(s) /\ ~s.draining

\* Call c's stop waits for the last data write.
Draining(s, m, c) ==
    /\ m = <<>> /\ Held(s, c) /\ s.io = {}
    /\ s.draining /\ s.stopped_by = c /\ Ending(s)

\* SIGINT has ended the recording; a call may still come.
TearingDown(s, m, c) ==
    /\ s.shutting_down /\ Ending(s)
    /\ m = <<>> \/ (m = <<c>> /\ Held(s, c))
    /\ \/ s.io = {} /\ s.draining /\ s.stopped_by = 0
       \/ /\ ~s.draining
          /\ \E r \in Io : /\ s.io = {r} /\ r.by = 0 /\ Apt(s, r)
                           /\ r.kind \in Finalizing

Phase(s, m, c) ==
    \/ Idle(s, m) \/ Sent(s, m, c) \/ Serving(s, m, c) \/ Draining(s, m, c)
    \/ TearingDown(s, m, c)

\* The answer in the slot, and the thread that waits for it or sends it.
Slot(s, w) ==
    /\ w.pc = "wait" => s.admin_req.busy /\ ~s.admin_req.abandoned
    /\ w.pc = "reply" => s.admin_req.done
    /\ s.admin_req.done => s.admin_req.from = w.call
    /\ \A k \in DOMAIN s.admin_req.resp : s.admin_req.resp[k].by = w.call

Serial ==
    /\ \A t, u \in ctx.io : t = u
    /\ ctx.up => Phase(ctx, msgs, web.call)
    /\ Slot(ctx, web)

\* The entry of the segment being recorded still says what was claimed.
Kept ==
    \A g \in Slots :
        /\ g = ctx.segment_id /\ toc[g].state = "OPEN"
        /\ ctx.recording \/ \E r \in ctx.io : r.kind = "claimHdr"
        => toc[g].chunk = ctx.buf_size

\* What a step of the reactor leaves, with messages m and the web thread at w.
Settled(s, m, w) ==
    /\ \A t, u \in s.io : t = u
    /\ s.up => Phase(s, m, w.call)
    /\ Slot(s, w)

LEMMA EndedSlot ==
    ASSUME NEW s \in Context, NEW t \in Context, NEW w, Slot(s, w),
           Ended(s, w.call, t), Own(s, w.call, t)
    PROVE  Slot(t, w)
<1>1. s.admin_req \in Request /\ t.admin_req \in Request BY DEF Context
<1>2. /\ s.admin_req.abandoned \in BOOLEAN /\ s.admin_req.done \in BOOLEAN
      /\ t.admin_req.abandoned \in BOOLEAN /\ t.admin_req.done \in BOOLEAN
      /\ s.admin_req.busy \in BOOLEAN /\ t.admin_req.busy \in BOOLEAN
  BY <1>1 DEF Request
<1>3. QED BY <1>2 DEF Slot, Ended, Own

LEMMA FlagsSlot ==
    ASSUME NEW s, NEW t, NEW w, Slot(s, w), Flags(s, t), Own(s, w.call, t)
    PROVE  Slot(t, w)
  BY DEF Slot, Flags, Own

\* An operation that is not about the recording answers its call, or goes on.
LEMMA ServesSettles ==
    ASSUME NEW s \in Context, NEW t, NEW w, s.io = {}, Calm(s),
           Held(s, w.call), Slot(s, w), Serves(s, w.call, t)
    PROVE  Settled(t, <<>>, w)
<1>1. t \in Context /\ Untouched(s, t) /\ Own(s, w.call, t)
  BY DEF Serves
<1>2. Calm(t) BY <1>1 DEF Calm, Untouched
<1>3. CASE Ended(s, w.call, t)
  <2>1. Slot(t, w) BY <1>1, <1>3, EndedSlot
  <2>2. t.io = {} BY <1>3 DEF Ended
  <2>3. QED BY <1>2, <2>1, <2>2 DEF Settled, Phase, Idle
<1>4. CASE Begun(s, w.call, Plain, t)
  <2>1. Slot(t, w) /\ Held(t, w.call)
    BY <1>1, <1>4, FlagsSlot DEF Begun, Held, Flags
  <2>2. PICK r \in Io : /\ t.io = {r} /\ r.by = w.call
                        /\ r.kind \in Plain /\ Apt(t, r)
    BY <1>4 DEF Begun
  <2>3. Serving(t, <<>>, w.call) BY <1>2, <2>1, <2>2 DEF Serving
  <2>4. QED BY <2>1, <2>2, <2>3 DEF Settled, Phase
<1>5. QED BY <1>3, <1>4 DEF Serves

LEMMA ClaimsSettles ==
    ASSUME NEW s \in Context, NEW t, NEW w, s.io = {}, ~s.draining,
           ~s.shutting_down, Held(s, w.call), Slot(s, w),
           Claims(s, w.call, t), t.recording => ~t.stopping,
           \/ Ended(s, w.call, t) /\ ~t.claim_in_progress
           \/ /\ Begun(s, w.call, Claiming, t)
              /\ t.claim_in_progress /\ ~t.recording
    PROVE  Settled(t, <<>>, w)
<1>1. /\ t \in Context /\ Own(s, w.call, t) /\ ~t.draining
      /\ ~t.shutting_down
  BY DEF Claims
<1>2. CASE Ended(s, w.call, t) /\ ~t.claim_in_progress
  <2>1. Slot(t, w) BY <1>1, <1>2, EndedSlot
  <2>2. t.io = {} BY <1>2 DEF Ended
  <2>3. QED BY <1>1, <1>2, <2>1, <2>2 DEF Settled, Phase, Idle, Calm
<1>3. CASE /\ Begun(s, w.call, Claiming, t)
           /\ t.claim_in_progress /\ ~t.recording
  <2>1. Slot(t, w) /\ Held(t, w.call)
    BY <1>1, <1>3, FlagsSlot DEF Begun, Held, Flags
  <2>2. PICK r \in Io : /\ t.io = {r} /\ r.by = w.call
                        /\ r.kind \in Claiming /\ Apt(t, r)
    BY <1>3 DEF Begun
  <2>3. Serving(t, <<>>, w.call) BY <1>1, <1>3, <2>1, <2>2 DEF Serving
  <2>4. QED BY <2>1, <2>2, <2>3 DEF Settled, Phase
<1>4. QED BY <1>2, <1>3

\* So does the end of a recording that the call stopped.
LEMMA FinalizesSettles ==
    ASSUME NEW s \in Context, NEW t, NEW w, s.io = {}, ~s.draining,
           Ending(s), Held(s, w.call), Slot(s, w),
           Finalizes(s, w.call, t)
    PROVE  Settled(t, <<>>, w)
<1>1. /\ t \in Context /\ Own(s, w.call, t) /\ ~t.draining
      /\ t.shutting_down = s.shutting_down /\ t.stopping
      /\ ~t.claim_in_progress
  BY DEF Finalizes, Own, Ending
<1>2. CASE /\ Begun(s, w.call, {"finHdr", "finToc"}, t)
           /\ t.up = s.up /\ t.recording = s.recording
  <2>1. Slot(t, w) /\ Held(t, w.call) /\ Ending(t)
    BY <1>1, <1>2, FlagsSlot DEF Begun, Held, Flags, Ending
  <2>2. PICK r \in Io : /\ t.io = {r} /\ r.by = w.call
                        /\ r.kind \in Finalizing /\ Apt(t, r)
    BY <1>2 DEF Begun, Finalizing
  <2>3. Serving(t, <<>>, w.call) BY <1>1, <2>1, <2>2 DEF Serving
  <2>4. QED BY <2>1, <2>2, <2>3 DEF Settled, Phase
<1>3. CASE s.shutting_down /\ ~t.up /\ t.io = s.io /\ Flags(s, t)
  BY <1>1, <1>3, FlagsSlot DEF Settled
<1>4. CASE ~s.shutting_down /\ Ended(s, w.call, t) /\ ~t.recording
  <2>1. Slot(t, w) BY <1>1, <1>4, EndedSlot
  <2>2. t.io = {} BY <1>4 DEF Ended
  <2>3. QED BY <1>1, <1>4, <2>1, <2>2 DEF Settled, Phase, Idle, Calm
<1>5. QED BY <1>2, <1>3, <1>4 DEF Finalizes

\* A recording that SIGINT stopped ends with the reactor.
LEMMA FinalizesTearsDown ==
    ASSUME NEW s \in Context, NEW t, NEW m, NEW w, s.io = {}, ~s.draining,
           Ending(s), s.shutting_down, Slot(s, w), Finalizes(s, 0, t),
           m = <<>> \/ (m = <<w.call>> /\ Held(s, w.call))
    PROVE  Settled(t, m, w)
<1>1. /\ t \in Context /\ Own(s, w.call, t) /\ ~t.draining
      /\ t.shutting_down /\ t.stopping /\ ~t.claim_in_progress
  BY DEF Finalizes, Own, Ending
<1>2. CASE /\ Begun(s, 0, {"finHdr", "finToc"}, t)
           /\ t.up = s.up /\ t.recording = s.recording
  <2>1. Slot(t, w) /\ Ending(t) /\ (Held(s, w.call) => Held(t, w.call))
    BY <1>1, <1>2, FlagsSlot DEF Begun, Held, Flags, Ending
  <2>2. PICK r \in Io : /\ t.io = {r} /\ r.by = 0
                        /\ r.kind \in Finalizing /\ Apt(t, r)
    BY <1>2 DEF Begun, Finalizing
  <2>3. TearingDown(t, m, w.call) BY <1>1, <2>1, <2>2 DEF TearingDown
  <2>4. QED BY <2>1, <2>2, <2>3 DEF Settled, Phase
<1>3. CASE s.shutting_down /\ ~t.up /\ t.io = s.io /\ Flags(s, t)
  BY <1>1, <1>3, FlagsSlot DEF Settled
<1>4. QED BY <1>2, <1>3 DEF Finalizes

LEMMA DispatchSettles ==
    ASSUME TypeInv, Serial, Dispatch
    PROVE  Settled(ctx', msgs', web')
<1> DEFINE c == web.call
           op == ctx.admin_req.op
<1>1. PICK drained \in BOOLEAN, refused \in BOOLEAN :
         ctx' = Dispatched(ctx, Head(msgs), drained, refused)
  BY DEF Dispatch
<1>2. /\ ctx \in Context /\ msgs \in Seq(Tickets) /\ c \in Tickets
      /\ op \in AdminOps
  BY DEF TypeInv, TypeOK, Web, Context, Request
<1>3. /\ ctx.up /\ msgs # <<>> /\ msgs' = Tail(msgs) /\ web' = web
      /\ Slot(ctx, web) /\ Phase(ctx, msgs, c)
  BY DEF Dispatch, Serial
<1>4. msgs = <<c>> /\ Held(ctx, c)
  BY <1>3 DEF Phase, Idle, Sent, Serving, Draining, TearingDown
<1>5. Head(msgs) = c /\ msgs' = <<>> BY <1>3, <1>4
<1>6. ctx' = Dispatched(ctx, c, drained, refused) BY <1>1, <1>5
<1>7. CASE Sent(ctx, msgs, c)
  <2>1. ctx.io = {} /\ Calm(ctx) BY <1>7 DEF Sent
  <2>2. ~ctx.shutting_down /\ ~ctx.claim_in_progress /\ ~ctx.draining
    BY <2>1 DEF Calm
  <2>3. ASSUME Serves(ctx, c, ctx') PROVE Settled(ctx', <<>>, web)
    BY <1>2, <1>3, <1>4, <2>1, <2>3, ServesSettles
  <2>4. CASE op = "stop"
    <3>1. ctx' = Stop(ctx, c, drained, refused)
      BY <1>6, <2>2, <2>4 DEF Dispatched
    <3>2. CASE ~ctx.recording
      <4>1. "EALREADY" \in Results BY DEF Results
      <4>2. Serves(ctx, c, ctx')
        BY <1>2, <3>1, <3>2, <4>1, FulfillServes DEF Stop
      <4>3. QED BY <1>3, <1>5, <2>3, <4>2
    <3>3. CASE ctx.recording
      <4>1. ~ctx.stopping /\ ctx' = StopRecording(ctx, c, drained, refused)
        BY <2>1, <3>1, <3>3 DEF Calm, Stop
      <4>2. \/ StopBegun(ctx, c, ctx') /\ ctx'.draining
            \/ \E u : /\ StopBegun(ctx, c, u) /\ u.draining = ctx.draining
                      /\ Finalizes(u, c, ctx')
        BY <1>2, <4>1, StopRecordingStops
      <4>3. ASSUME NEW u, StopBegun(ctx, c, u)
            PROVE  /\ Slot(u, web) /\ Held(u, c) /\ Ending(u) /\ u.io = {}
                   /\ u \in Context
        <5>1. /\ u \in Context /\ Own(ctx, c, u) /\ Flags(ctx, u)
              /\ u.io = {}
          BY <2>1, <4>3 DEF StopBegun, Own
        <5>2. Slot(u, web) BY <1>3, <5>1, FlagsSlot
        <5>3. Held(u, c) BY <1>4, <5>1 DEF Held, Flags
        <5>4. Ending(u) BY <2>2, <3>3, <4>3 DEF StopBegun, Ending
        <5>5. QED BY <5>1, <5>2, <5>3, <5>4
      <4>4. CASE StopBegun(ctx, c, ctx') /\ ctx'.draining
        <5>1. Draining(ctx', <<>>, c)
          BY <4>3, <4>4 DEF Draining, StopBegun
        <5>2. QED
          BY <1>3, <1>5, <4>3, <4>4, <5>1 DEF Settled, Phase
      <4>5. CASE \E u : /\ StopBegun(ctx, c, u) /\ u.draining = ctx.draining
                        /\ Finalizes(u, c, ctx')
        <5>1. PICK u : /\ StopBegun(ctx, c, u) /\ u.draining = ctx.draining
                       /\ Finalizes(u, c, ctx')
          BY <4>5
        <5>2. /\ Slot(u, web) /\ Held(u, c) /\ Ending(u) /\ u.io = {}
              /\ u \in Context /\ ~u.draining
          BY <2>2, <4>3, <5>1
        <5>3. Settled(ctx', <<>>, web) BY <5>1, <5>2, FinalizesSettles
        <5>4. QED BY <1>3, <1>5, <5>3
      <4>6. QED BY <4>2, <4>4, <4>5
    <3>4. QED BY <3>2, <3>3
  <2>5. CASE op = "start"
    <3>1. ctx' = Start(ctx, c, refused) BY <1>6, <2>2, <2>5 DEF Dispatched
    <3>2. /\ Claims(ctx, c, ctx')
          /\ ctx'.recording = ctx.recording /\ ctx'.stopping = ctx.stopping
          /\ \/ /\ Ended(ctx, c, ctx')
                /\ ctx'.claim_in_progress => ctx.claim_in_progress
             \/ /\ Begun(ctx, c, {"claimToc"}, ctx')
                /\ ctx'.claim_in_progress /\ ~ctx'.recording
      BY <1>2, <3>1, StartClaims
    <3>3. Begun(ctx, c, {"claimToc"}, ctx') => Begun(ctx, c, Claiming, ctx')
      BY DEF Begun, Claiming
    <3>4. ctx'.recording => ~ctx'.stopping BY <2>1, <3>2 DEF Calm
    <3>5. ctx' \in Context BY <3>2 DEF Claims
    <3>6. ctx'.claim_in_progress \in BOOLEAN BY <3>5 DEF Context
    <3>7. \/ Ended(ctx, c, ctx') /\ ~ctx'.claim_in_progress
          \/ /\ Begun(ctx, c, Claiming, ctx')
             /\ ctx'.claim_in_progress /\ ~ctx'.recording
      BY <2>2, <3>2, <3>3
    <3>8. Settled(ctx', <<>>, web)
      BY <1>2, <1>3, <1>4, <2>1, <2>2, <3>2, <3>4, <3>7, ClaimsSettles
    <3>9. QED BY <1>3, <1>5, <3>8
  <2>6. CASE op = "records"
    <3>1. ctx' = Submit(ctx, "entry", c, ctx.admin_req.seg, refused)
      BY <1>6, <2>2, <2>6 DEF Dispatched
    <3>2. ctx.admin_req.seg \in Nat BY <1>2, SlotIsNat DEF Context, Request
    <3>3. Apt(ctx, [kind |-> "entry", by |-> c, at |-> ctx.admin_req.seg])
      BY DEF Apt
    <3>4. Serves(ctx, c, ctx')
      BY <1>2, <3>1, <3>2, <3>3, SubmitServes DEF Plain, Reads
    <3>5. QED BY <1>3, <1>5, <2>3, <3>4
  <2>7. CASE op \in {"list", "delete", "format"}
    <3>1. \/ ctx' = List(ctx, c, refused)
          \/ ctx' = Delete(ctx, c, refused)
          \/ ctx' = Format(ctx, c, refused)
      BY <1>6, <2>2, <2>7 DEF Dispatched
    <3>2. Serves(ctx, c, ctx')
      BY <1>2, <3>1, ListServes, DeleteServes, FormatServes
    <3>3. QED BY <1>3, <1>5, <2>3, <3>2
  <2>8. CASE op = "chunk"
    <3>1. ctx' = SetChunk(ctx, c) BY <1>6, <2>2, <2>8 DEF Dispatched
    <3>2. /\ ctx' \in Context /\ Own(ctx, c, ctx') /\ Ended(ctx, c, ctx')
          /\ ctx'.up = ctx.up /\ ctx'.shutting_down = ctx.shutting_down
          /\ ctx'.recording = ctx.recording /\ ctx'.stopping = ctx.stopping
          /\ ctx'.draining = ctx.draining
          /\ ctx'.claim_in_progress = ctx.claim_in_progress
      BY <1>2, <3>1, SetChunkSets
    <3>3. Slot(ctx', web) BY <1>2, <1>3, <3>2, EndedSlot
    <3>4. Idle(ctx', <<>>) BY <2>1, <3>2 DEF Idle, Calm, Ended
    <3>5. QED BY <1>3, <1>5, <3>3, <3>4 DEF Settled, Phase, Idle
  <2>9. QED BY <1>2, <2>4, <2>5, <2>6, <2>7, <2>8 DEF AdminOps
<1>8. CASE TearingDown(ctx, msgs, c)
  <2>1. ctx.shutting_down /\ ctx.recording /\ ctx.stopping
    BY <1>8 DEF TearingDown, Ending
  <2>2. CASE op = "stop"
    <3>1. ctx' = ctx
      BY <1>6, <2>1, <2>2 DEF Dispatched, Stop, StopRecording
    <3>2. TearingDown(ctx, <<>>, c) BY <1>8 DEF TearingDown
    <3>3. QED BY <1>3, <1>5, <3>1, <3>2 DEF Settled, Phase, Serial
  <2>3. CASE op # "stop"
    <3>1. ctx' = Fulfill(ctx, c, "ESHUTDOWN")
      BY <1>6, <2>1, <2>3 DEF Dispatched
    <3>2. "ESHUTDOWN" \in Results BY DEF Results
    <3>3. /\ Rest(ctx, ctx') /\ Ended(ctx, c, ctx') /\ ctx' \in Context
          /\ Own(ctx, c, ctx')
      BY <1>2, <3>1, <3>2, FulfillServes DEF Serves
    <3>4. Slot(ctx', web) BY <1>2, <1>3, <3>3, EndedSlot
    <3>5. ctx'.io = ctx.io BY <3>3 DEF Ended
    <3>6. \A r \in Io : Apt(ctx, r) => Apt(ctx', r)
      BY <3>3 DEF Apt, Rest, FinalizedEntry
    <3>7. TearingDown(ctx', <<>>, c)
      BY <1>8, <3>3, <3>5, <3>6 DEF TearingDown, Ending, Rest
    <3>8. QED BY <1>3, <1>5, <3>4, <3>5, <3>7 DEF Settled, Phase, Serial
  <2>4. QED BY <2>2, <2>3
<1>9. QED
  BY <1>3, <1>4, <1>7, <1>8 DEF Phase, Idle, Serving, Draining

LEMMA DrainedSettles ==
    ASSUME TypeInv, Serial, Drained
    PROVE  Settled(ctx', msgs', web')
<1> DEFINE c == web.call
           s == [ctx EXCEPT !.draining = FALSE]
<1>1. PICK refused \in BOOLEAN :
         ctx' = FinalizeSegment(s, ctx.stopped_by, refused)
  BY DEF Drained
<1>2. ctx \in Context BY DEF TypeInv, TypeOK
<1>3. /\ ctx.draining /\ msgs' = msgs /\ web' = web
      /\ Slot(ctx, web) /\ Phase(ctx, msgs, c)
  BY DEF Drained, Serial
<1>4. /\ s \in Context /\ ~s.draining /\ s.io = ctx.io
      /\ s.recording = ctx.recording /\ s.stopping = ctx.stopping
      /\ s.claim_in_progress = ctx.claim_in_progress
      /\ s.shutting_down = ctx.shutting_down
      /\ s.admin_req = ctx.admin_req /\ ctx.stopped_by \in Tickets
  BY <1>2 DEF Context
<1> HIDE DEF s
<1>5. Finalizes(s, ctx.stopped_by, ctx')
  BY <1>1, <1>4, FinalizeSegmentFinalizes
<1>6. Slot(s, web) BY <1>3, <1>4 DEF Slot
<1>7. CASE Draining(ctx, msgs, c)
  <2>1. Ending(s) /\ Held(s, c) /\ s.io = {} /\ ctx.stopped_by = c
    BY <1>4, <1>7 DEF Draining, Ending, Held
  <2>2. Settled(ctx', <<>>, web)
    BY <1>4, <1>5, <1>6, <2>1, FinalizesSettles
  <2>3. QED BY <1>3, <1>7, <2>2 DEF Draining
<1>8. CASE TearingDown(ctx, msgs, c)
  <2>1. /\ Ending(s) /\ s.shutting_down /\ s.io = {} /\ ctx.stopped_by = 0
        /\ msgs = <<>> \/ (msgs = <<c>> /\ Held(s, c))
    BY <1>3, <1>4, <1>8 DEF TearingDown, Ending, Held
  <2>2. Settled(ctx', msgs, web)
    BY <1>4, <1>5, <1>6, <2>1, FinalizesTearsDown
  <2>3. QED BY <1>3, <2>2
<1>9. QED
  BY <1>3, <1>7, <1>8 DEF Phase, Idle, Sent, Serving, Calm

LEMMA ShutdownSettles ==
    ASSUME TypeInv, Serial, Shutdown, Overlap = FALSE
    PROVE  Settled(ctx', msgs', web')
<1> DEFINE c == web.call
           s == [ctx EXCEPT !.shutting_down = TRUE]
           v == [s EXCEPT !.up = FALSE]
<1>1. PICK drained \in BOOLEAN, refused \in BOOLEAN :
         ctx' = IF s.recording THEN StopRecording(s, 0, drained, refused)
                ELSE v
  BY DEF Shutdown
<1>2. ctx \in Context BY DEF TypeInv, TypeOK
<1>3. /\ ctx.io = {} /\ ~ctx.shutting_down /\ msgs' = msgs /\ web' = web
      /\ Slot(ctx, web) /\ Phase(ctx, msgs, c)
  BY DEF Shutdown, Serial
<1>4. /\ s \in Context /\ s.draining = ctx.draining /\ s.io = {}
      /\ s.recording = ctx.recording /\ s.stopping = ctx.stopping
      /\ s.claim_in_progress = ctx.claim_in_progress
      /\ s.shutting_down /\ s.stopped_by = ctx.stopped_by
      /\ s.admin_req = ctx.admin_req
  BY <1>2, <1>3 DEF Context
<1> HIDE DEF s
<1>5. /\ v \in Context /\ ~v.up /\ v.io = {} /\ v.admin_req = s.admin_req
  BY <1>4 DEF Context
<1> HIDE DEF v
<1>6. Slot(s, web) /\ (Held(ctx, c) => Held(s, c))
  BY <1>3, <1>4 DEF Slot, Held
<1>7. CASE ~ctx.recording
  <2>1. Slot(v, web) BY <1>5, <1>6 DEF Slot
  <2>2. QED BY <1>1, <1>3, <1>4, <1>5, <1>7, <2>1 DEF Settled
<1>8. CASE ctx.recording /\ Draining(ctx, msgs, c)
  <2>1. ctx' = s BY <1>1, <1>4, <1>8 DEF StopRecording, Draining, Ending
  <2>2. Draining(s, msgs, c) BY <1>4, <1>6, <1>8 DEF Draining, Ending
  <2>3. QED BY <1>3, <1>4, <1>6, <2>1, <2>2 DEF Settled, Phase
<1>9. CASE ctx.recording /\ (Idle(ctx, msgs) \/ Sent(ctx, msgs, c))
  <2>1. /\ ~s.stopping /\ ~s.draining /\ ~s.claim_in_progress
        /\ msgs = <<>> \/ (msgs = <<c>> /\ Held(s, c))
    BY <1>4, <1>6, <1>9 DEF Idle, Sent, Calm
  <2>2. 0 \in Tickets BY BridgeAssumption DEF Tickets
  <2>3. \/ StopBegun(s, 0, ctx') /\ ctx'.draining
        \/ \E u : /\ StopBegun(s, 0, u) /\ u.draining = s.draining
                  /\ Finalizes(u, 0, ctx')
    BY <1>1, <1>4, <1>9, <2>1, <2>2, StopRecordingStops
  <2>4. ASSUME NEW u, StopBegun(s, 0, u)
        PROVE  /\ Slot(u, web) /\ Ending(u) /\ u.io = {} /\ u.shutting_down
               /\ u \in Context
               /\ msgs = <<>> \/ (msgs = <<c>> /\ Held(u, c))
    <3>1. u \in Context /\ Own(s, c, u) /\ Flags(s, u) /\ u.io = {}
      BY <1>4, <2>4 DEF StopBegun, Own
    <3>2. Slot(u, web) BY <1>6, <3>1, FlagsSlot
    <3>3. msgs = <<>> \/ (msgs = <<c>> /\ Held(u, c))
      BY <2>1, <3>1 DEF Held, Flags
    <3>4. Ending(u) /\ u.shutting_down
      BY <1>4, <1>9, <2>1, <2>4 DEF StopBegun, Ending
    <3>5. QED BY <3>1, <3>2, <3>3, <3>4
  <2>5. CASE StopBegun(s, 0, ctx') /\ ctx'.draining
    <3>1. TearingDown(ctx', msgs, c)
      BY <2>4, <2>5 DEF TearingDown, StopBegun
    <3>2. QED BY <1>3, <2>4, <2>5, <3>1 DEF Settled, Phase
  <2>6. CASE \E u : /\ StopBegun(s, 0, u) /\ u.draining = s.draining
                    /\ Finalizes(u, 0, ctx')
    <3>1. PICK u : /\ StopBegun(s, 0, u) /\ u.draining = s.draining
                   /\ Finalizes(u, 0, ctx')
      BY <2>6
    <3>2. /\ Slot(u, web) /\ Ending(u) /\ u.io = {} /\ u.shutting_down
          /\ u \in Context /\ ~u.draining
          /\ msgs = <<>> \/ (msgs = <<c>> /\ Held(u, c))
      BY <2>1, <2>4, <3>1
    <3>3. Settled(ctx', msgs, web) BY <3>1, <3>2, FinalizesTearsDown
    <3>4. QED BY <1>3, <3>3
  <2>7. QED BY <2>3, <2>5, <2>6
<1>10. QED
  BY <1>3, <1>7, <1>8, <1>9 DEF Phase, Serving, TearingDown

LEMMA IoDoneSettles ==
    ASSUME TypeInv, Serial, IoDone
    PROVE  Settled(ctx', msgs', web')
<1> DEFINE c == web.call
<1>1. PICK t \in ctx.io, ok \in BOOLEAN, refused \in BOOLEAN :
         ctx' = Continued(Finds(t, ok), t, ok, refused)
  BY DEF IoDone, Finds
<1> DEFINE s == Finds(t, ok)
<1>2. /\ ctx.up /\ msgs' = msgs /\ web' = web
      /\ Slot(ctx, web) /\ Phase(ctx, msgs, c)
      /\ \A x, y \in ctx.io : x = y
  BY DEF IoDone, Serial
<1>3. /\ s \in Context /\ t \in Io /\ s.io = ctx.io \ {t}
      /\ s.admin_req = ctx.admin_req /\ Untouched(ctx, s)
  BY FindsType DEF TypeInv
<1>4. s.io = {} BY <1>2, <1>3
<1>5. ctx' = Continued(s, t, ok, refused) BY <1>1
<1> HIDE DEF s
<1>6. Slot(s, web) /\ (Held(ctx, c) => Held(s, c))
  BY <1>2, <1>3 DEF Slot, Held
<1>7. t.by \in Tickets /\ 0 \in Tickets
  BY <1>3, BridgeAssumption DEF Io, Tickets
<1>8. CASE Serving(ctx, msgs, c)
  <2>1. /\ msgs = <<>> /\ Held(s, c) /\ t.by = c
        /\ \/ t.kind \in Plain /\ Calm(ctx)
           \/ /\ t.kind \in Claiming /\ ctx.claim_in_progress
              /\ ~ctx.recording /\ ~ctx.draining /\ ~ctx.shutting_down
           \/ t.kind \in Finalizing /\ Ending(ctx) /\ ~ctx.draining
    BY <1>6, <1>8 DEF Serving
  <2>2. CASE t.kind \in Plain /\ Calm(ctx)
    <3>1. Calm(s) BY <1>3, <2>2 DEF Calm, Untouched
    <3>2. ctx' = IF ok THEN Served(s, t, refused) ELSE Fulfill(s, t.by, "EIO")
      BY <1>5, <2>2 DEF Continued, Plain, Reads
    <3>3. "EIO" \in Results BY DEF Results
    <3>4. Serves(s, c, ctx')
      BY <1>3, <1>7, <2>1, <2>2, <3>2, <3>3, ServedServes, FulfillServes
    <3>5. Settled(ctx', <<>>, web)
      BY <1>3, <1>4, <1>6, <2>1, <3>1, <3>4, ServesSettles
    <3>6. QED BY <1>2, <2>1, <3>5
  <2>3. CASE /\ t.kind \in Claiming /\ ctx.claim_in_progress
             /\ ~ctx.recording /\ ~ctx.draining /\ ~ctx.shutting_down
    <3>1. /\ s.claim_in_progress /\ ~s.recording /\ ~s.draining
          /\ ~s.shutting_down
      BY <1>3, <2>3 DEF Untouched
    <3>2. CASE t.kind = "claimToc"
      <4>1. ctx' = ClaimTocDone(s, c, ok, refused)
        BY <1>5, <2>1, <3>2 DEF Continued
      <4>2. /\ Claims(s, c, ctx') /\ ~ctx'.recording
            /\ \/ Ended(s, c, ctx') /\ ~ctx'.claim_in_progress
               \/ /\ Begun(s, c, {"claimHdr"}, ctx')
                  /\ ctx'.claim_in_progress
        BY <1>3, <1>7, <2>1, <3>1, <4>1, ClaimTocDoneClaims
      <4>3. Begun(s, c, {"claimHdr"}, ctx') => Begun(s, c, Claiming, ctx')
        BY DEF Begun, Claiming
      <4>4. Settled(ctx', <<>>, web)
        BY <1>3, <1>4, <1>6, <2>1, <3>1, <4>2, <4>3, ClaimsSettles
      <4>5. QED BY <1>2, <2>1, <4>4
    <3>3. CASE t.kind = "claimHdr"
      <4>1. ctx' = ClaimHeaderDone(s, c, ok)
        BY <1>5, <2>1, <3>3 DEF Continued
      <4>2. /\ Claims(s, c, ctx') /\ Ended(s, c, ctx')
            /\ ~ctx'.claim_in_progress
            /\ ctx'.recording => ~ctx'.stopping
        BY <1>3, <1>7, <2>1, <3>1, <4>1, ClaimHeaderDoneClaims
      <4>3. Settled(ctx', <<>>, web)
        BY <1>3, <1>4, <1>6, <2>1, <3>1, <4>2, ClaimsSettles
      <4>4. QED BY <1>2, <2>1, <4>3
    <3>4. QED BY <2>3, <3>2, <3>3 DEF Claiming
  <2>4. CASE t.kind \in Finalizing /\ Ending(ctx) /\ ~ctx.draining
    <3>1. Ending(s) /\ ~s.draining BY <1>3, <2>4 DEF Untouched, Ending
    <3>2. \/ ctx' = FinalizeHeaderDone(s, c, refused)
          \/ ctx' = FinalizeTocDone(s, c, ok)
      BY <1>5, <2>1, <2>4 DEF Continued, Finalizing
    <3>3. Finalizes(s, c, ctx')
      BY <1>3, <1>7, <2>1, <3>2, FinalizeHeaderDoneFinalizes,
         FinalizeTocDoneFinalizes
    <3>4. Settled(ctx', <<>>, web)
      BY <1>3, <1>4, <1>6, <2>1, <3>1, <3>3, FinalizesSettles
    <3>5. QED BY <1>2, <2>1, <3>4
  <2>5. QED BY <2>1, <2>2, <2>3, <2>4
<1>9. CASE TearingDown(ctx, msgs, c)
  <2>1. /\ ctx.shutting_down /\ Ending(ctx) /\ ~ctx.draining
        /\ t.by = 0 /\ t.kind \in Finalizing
        /\ msgs = <<>> \/ (msgs = <<c>> /\ Held(s, c))
    BY <1>6, <1>9 DEF TearingDown
  <2>2. Ending(s) /\ ~s.draining /\ s.shutting_down
    BY <1>3, <2>1 DEF Untouched, Ending
  <2>3. \/ ctx' = FinalizeHeaderDone(s, 0, refused)
        \/ ctx' = FinalizeTocDone(s, 0, ok)
    BY <1>5, <2>1 DEF Continued, Finalizing
  <2>4. Finalizes(s, 0, ctx')
    BY <1>3, <1>7, <2>3, FinalizeHeaderDoneFinalizes,
       FinalizeTocDoneFinalizes
  <2>5. Settled(ctx', msgs, web)
    BY <1>3, <1>4, <1>6, <2>1, <2>2, <2>4, FinalizesTearsDown
  <2>6. QED BY <1>2, <2>5
<1>10. QED
  BY <1>2, <1>8, <1>9 DEF Phase, Idle, Sent, Draining

\* A change of the request alone leaves the phase, if the slot stays held.
LEMMA RestPhase ==
    ASSUME NEW s, NEW t, NEW m, NEW c, Rest(s, t), t.io = s.io,
           Phase(s, m, c), Held(s, c) => Held(t, c)
    PROVE  Phase(t, m, c)
<1>1. \A r : Apt(s, r) => Apt(t, r) BY DEF Apt, Rest, FinalizedEntry
<1>2. (Calm(s) => Calm(t)) /\ (Ending(s) => Ending(t))
  BY DEF Calm, Ending, Rest
<1>3. Idle(s, m) => Idle(t, m) BY <1>2 DEF Idle
<1>4. Sent(s, m, c) => Sent(t, m, c) BY <1>2 DEF Sent
<1>5. Serving(s, m, c) => Serving(t, m, c)
  BY <1>1, <1>2 DEF Serving, Rest
<1>6. Draining(s, m, c) => Draining(t, m, c)
  BY <1>2 DEF Draining, Rest
<1>7. TearingDown(s, m, c) => TearingDown(t, m, c)
  BY <1>1, <1>2 DEF TearingDown, Rest
<1>8. QED BY <1>3, <1>4, <1>5, <1>6, <1>7 DEF Phase

LEMMA WebThreadSettles ==
    ASSUME TypeInv, Serial, WebThread
    PROVE  Settled(ctx', msgs', web')
<1> DEFINE c == web.call
<1>1. /\ ctx \in Context /\ web \in Web /\ Slot(ctx, web)
      /\ ctx.up => Phase(ctx, msgs, c)
      /\ \A x, y \in ctx.io : x = y
  BY DEF TypeInv, TypeOK, Serial
<1>2. ASSUME NEW q \in Request, ctx' = [ctx EXCEPT !.admin_req = q]
      PROVE  /\ Rest(ctx, ctx') /\ ctx'.io = ctx.io /\ ctx'.admin_req = q
             /\ ctx' \in Context
  BY <1>1, <1>2, RequestSized DEF Sized
<1>3. CASE Received \/ NoCall
  <2>1. PICK q \in Request :
           /\ ctx' = [ctx EXCEPT !.admin_req = q]
           /\ q.busy = ctx.admin_req.busy /\ q.done = ctx.admin_req.done
           /\ q.abandoned = ctx.admin_req.abandoned
           /\ q.from = ctx.admin_req.from /\ q.rc = ctx.admin_req.rc
           /\ q.resp = ctx.admin_req.resp
    BY <1>1, <1>3, ReceivedSets, NoCallSets
  <2>2. /\ Rest(ctx, ctx') /\ ctx'.io = ctx.io /\ ctx'.admin_req = q
    BY <1>2, <2>1
  <2>3. web'.pc \in {"call", "send"} /\ web'.call = c /\ msgs' = msgs
    BY <1>1, <1>3 DEF Received, NoCall, Web
  <2>4. Slot(ctx', web') BY <1>1, <2>1, <2>2, <2>3 DEF Slot
  <2>5. Held(ctx, c) => Held(ctx', c) BY <2>1, <2>2 DEF Held
  <2>6. ctx'.up => Phase(ctx', msgs, c)
    BY <1>1, <2>2, <2>5, RestPhase DEF Rest
  <2>7. QED BY <1>1, <2>2, <2>3, <2>4, <2>6 DEF Settled
<1>4. CASE Call
  <2>1. CASE ctx.admin_req.busy /\ Refused
    <3>1. web'.pc = "send" /\ web'.call = c /\ msgs' = msgs /\ ctx' = ctx
      BY <1>1, <2>1 DEF Refused, Web
    <3>2. QED BY <1>1, <3>1 DEF Settled, Slot
  <2>2. CASE ~(ctx.admin_req.busy /\ Refused)
    <3>1. /\ ~ctx.admin_req.busy
          /\ web' = [web EXCEPT !.pc = "wait", !.call = web.call + 1,
                                !.op = ctx.admin_req.op]
          /\ msgs' = Append(msgs, web.call + 1)
          /\ \E q \in Request :
                /\ ctx' = [ctx EXCEPT !.admin_req = q]
                /\ q.busy /\ ~q.done /\ ~q.abandoned
                /\ q.op = ctx.admin_req.op /\ q.resp = <<>>
      BY <1>1, <1>4, <2>2, CallTakes
    <3>2. PICK q \in Request :
             /\ ctx' = [ctx EXCEPT !.admin_req = q]
             /\ q.busy /\ ~q.done /\ ~q.abandoned
             /\ q.op = ctx.admin_req.op /\ q.resp = <<>>
      BY <3>1
    <3>3. /\ Rest(ctx, ctx') /\ ctx'.io = ctx.io /\ ctx'.admin_req = q
      BY <1>2, <3>2
    <3>4. web'.pc = "wait" /\ web'.call = c + 1 /\ c \in Nat
      BY <1>1, <3>1 DEF Web, Tickets
    <3>5. Slot(ctx', web') BY <3>2, <3>3, <3>4 DEF Slot
    <3>6. ASSUME ctx'.up PROVE Phase(ctx', msgs', c + 1)
      <4>1. Phase(ctx, msgs, c) BY <1>1, <3>3, <3>6 DEF Rest
      <4>2. ~Held(ctx, c) BY <3>1 DEF Held
      <4>3. msgs = <<>> /\ (Idle(ctx, msgs) \/ TearingDown(ctx, msgs, c))
        BY <4>1, <4>2 DEF Phase, Idle, Sent, Serving, Draining, TearingDown
      <4>4. msgs' = <<c + 1>> BY <3>1, <4>3
      <4>5. Held(ctx', c + 1) BY <3>2, <3>3, <3>4 DEF Held
      <4>6. CASE Idle(ctx, msgs)
        <5>1. Sent(ctx', msgs', c + 1)
          BY <3>3, <4>4, <4>5, <4>6 DEF Sent, Idle, Calm, Rest
        <5>2. QED BY <5>1 DEF Phase
      <4>7. CASE TearingDown(ctx, msgs, c)
        <5>1. \A r : Apt(ctx, r) => Apt(ctx', r)
          BY <3>3 DEF Apt, Rest, FinalizedEntry
        <5>2. Ending(ctx') BY <3>3, <4>7 DEF TearingDown, Ending, Rest
        <5>3. TearingDown(ctx', msgs', c + 1)
          BY <3>3, <4>4, <4>5, <4>7, <5>1, <5>2 DEF TearingDown, Rest
        <5>4. QED BY <5>3 DEF Phase
      <4>8. QED BY <4>3, <4>6, <4>7
    <3>7. QED BY <1>1, <3>3, <3>4, <3>5, <3>6 DEF Settled
  <2>3. QED BY <2>1, <2>2
<1>5. CASE Woken
  <2>1. PICK q \in Request :
           /\ ctx' = [ctx EXCEPT !.admin_req = q]
           /\ ~q.busy /\ q.done = ctx.admin_req.done
           /\ q.abandoned = ctx.admin_req.abandoned
           /\ q.from = ctx.admin_req.from /\ q.rc = ctx.admin_req.rc
           /\ q.resp = ctx.admin_req.resp
    BY <1>1, <1>5, WokenSets
  <2>2. /\ Rest(ctx, ctx') /\ ctx'.io = ctx.io /\ ctx'.admin_req = q
    BY <1>2, <2>1
  <2>3. /\ web'.pc = "reply" /\ web'.call = c /\ msgs' = msgs
        /\ ctx.admin_req.done
    BY <1>1, <1>5 DEF Woken, Web
  <2>4. Slot(ctx', web') BY <1>1, <2>1, <2>2, <2>3 DEF Slot
  <2>5. ~Held(ctx, c) BY <2>3 DEF Held
  <2>6. ctx'.up => Phase(ctx', msgs, c)
    BY <1>1, <2>2, <2>5, RestPhase DEF Rest
  <2>7. QED BY <1>1, <2>2, <2>3, <2>4, <2>6 DEF Settled
<1>6. CASE TimedOut
  <2>1. PICK q \in Request :
           /\ ctx' = [ctx EXCEPT !.admin_req = q]
           /\ q.abandoned /\ q.done = ctx.admin_req.done
           /\ q.busy = ctx.admin_req.busy
           /\ q.from = ctx.admin_req.from /\ q.rc = ctx.admin_req.rc
           /\ q.resp = ctx.admin_req.resp
    BY <1>1, <1>6, TimedOutSets
  <2>2. /\ Rest(ctx, ctx') /\ ctx'.io = ctx.io /\ ctx'.admin_req = q
    BY <1>2, <2>1
  <2>3. web'.pc = "send" /\ web'.call = c /\ msgs' = msgs
    BY <1>1, <1>6 DEF TimedOut, Web
  <2>4. Slot(ctx', web') BY <1>1, <2>1, <2>2, <2>3 DEF Slot
  <2>5. Held(ctx, c) => Held(ctx', c) BY <2>1, <2>2 DEF Held
  <2>6. ctx'.up => Phase(ctx', msgs, c)
    BY <1>1, <2>2, <2>5, RestPhase DEF Rest
  <2>7. QED BY <1>1, <2>2, <2>3, <2>4, <2>6 DEF Settled
<1>7. CASE Accept \/ Replied \/ Leave
  <2>1. /\ web'.pc \in {"accept", "recv", "left"} /\ web'.call = c
        /\ msgs' = msgs /\ ctx' = ctx
    BY <1>1, <1>7 DEF Accept, Replied, Leave, Web
  <2>2. QED BY <1>1, <2>1 DEF Settled, Slot
<1>8. QED BY <1>3, <1>4, <1>5, <1>6, <1>7 DEF WebThread

LEMMA NextSerial ==
    ASSUME Overlap = FALSE
    PROVE  TypeInv /\ Serial /\ [Next]_vars => Serial'
<1> SUFFICES ASSUME TypeInv, Serial, [Next]_vars PROVE Serial' OBVIOUS
<1>1. CASE WebThread
  BY <1>1, WebThreadSettles DEF Settled, Serial
<1>2. CASE Dispatch
  BY <1>2, DispatchSettles DEF Settled, Serial
<1>3. CASE IoDone
  BY <1>3, IoDoneSettles DEF Settled, Serial
<1>4. CASE Drained
  BY <1>4, DrainedSettles DEF Settled, Serial
<1>5. CASE AutoStop BY <1>5 DEF AutoStop
<1>6. CASE Shutdown
  BY <1>6, ShutdownSettles DEF Settled, Serial
<1>7. CASE UNCHANGED vars BY <1>7 DEF vars, Serial
<1>8. QED
  BY <1>1, <1>2, <1>3, <1>4, <1>5, <1>6, <1>7 DEF Next, WebThread

LEMMA InitSerial == Init => Serial
<1> SUFFICES ASSUME Init PROVE Serial OBVIOUS
<1>1. /\ ctx.io = {} /\ ~ctx.draining /\ ~ctx.claim_in_progress
      /\ ~ctx.shutting_down /\ ~ctx.recording
      /\ ~ctx.admin_req.done /\ ctx.admin_req.resp = <<>>
      /\ msgs = <<>> /\ web.pc = "accept"
  BY DEF Init
<1>2. Phase(ctx, msgs, web.call) BY <1>1 DEF Phase, Idle, Calm
<1>3. Slot(ctx, web) BY <1>1 DEF Slot
<1>4. QED BY <1>1, <1>2, <1>3 DEF Serial

\* Without recordings that end unasked, the slot stays taken until the last
\* handler of its call has run: a call that comes meanwhile is refused, also
\* when the web thread has given up on the one before.
THEOREM SlotIsHeld ==
    ASSUME Overlap = FALSE
    PROVE  Spec => []SlotHeldWhileWorking
<1>1. TypeInv /\ Serial => SlotHeldWhileWorking
  <2> SUFFICES ASSUME TypeInv, Serial, ctx.up, msgs # <<>> \/ CallIo # {}
               PROVE  ctx.admin_req.busy
    BY DEF SlotHeldWhileWorking
  <2>1. Phase(ctx, msgs, web.call) BY DEF Serial
  <2>2. CASE Sent(ctx, msgs, web.call) \/ Serving(ctx, msgs, web.call)
    BY <2>2 DEF Sent, Serving, Held
  <2>3. CASE TearingDown(ctx, msgs, web.call)
    <3>1. CallIo = {} BY <2>3 DEF TearingDown, CallIo
    <3>2. QED BY <2>3, <3>1 DEF TearingDown, Held
  <2>4. CASE Idle(ctx, msgs) \/ Draining(ctx, msgs, web.call)
    BY <2>4 DEF Idle, Draining, CallIo
  <2>5. QED BY <2>1, <2>2, <2>3, <2>4 DEF Phase
<1>2. QED
  BY <1>1, InitTypeInv, NextSized, InitSerial, NextSerial, PTL DEF Spec

\* ... and then no two I/Os are ever outstanding on the one io_buf.
THEOREM OneUserOfIoBuf ==
    ASSUME Overlap = FALSE
    PROVE  Spec => []IoBufHasOneUser
<1>1. Serial => IoBufHasOneUser
  <2> SUFFICES ASSUME Serial PROVE IoBufHasOneUser OBVIOUS
  <2> DEFINE S == {t \in ctx.io : t.kind \in Reads \cup Writes}
  <2>1. \A t, u \in S : t = u BY DEF Serial
  <2>2. CASE S = {} BY <2>2, FS_EmptySet DEF IoBufHasOneUser
  <2>3. CASE S # {}
    <3>1. PICK t \in S : TRUE BY <2>3
    <3>2. S = {t} BY <2>1, <3>1
    <3> HIDE DEF S
    <3>3. Cardinality(S) = 1 BY <3>2, FS_Singleton
    <3>4. QED BY <3>3 DEF IoBufHasOneUser, S
  <2>4. QED BY <2>2, <2>3
<1>2. QED
  BY <1>1, InitTypeInv, NextSized, InitSerial, NextSerial, PTL DEF Spec

\* ... and the return code and the entries the web thread reads without the
\* lock are those of the call it made, never of one it gave up on.
THEOREM AnswersOwnCall ==
    ASSUME Overlap = FALSE
    PROVE  Spec => []AnswerIsOwn
<1>1. Serial => AnswerIsOwn BY DEF Serial, Slot, AnswerIsOwn
<1>2. QED
  BY <1>1, InitTypeInv, NextSized, InitSerial, NextSerial, PTL DEF Spec

-----------------------------------------------------------------------------
(* The claimed entry, from its write to the finalize                        *)

\* From the write of its entry on, a segment is being recorded.
Recorded(s) == s.recording \/ \E r \in s.io : r.kind = "claimHdr"

\* A segment being recorded was so before, under the same size.
Retains(s, t) ==
    Recorded(t) =>
       /\ Recorded(s) /\ t.segment_id = s.segment_id
       /\ t.buf_size = s.buf_size

LEMMA KeptRetained ==
    ASSUME Kept, Retains(ctx, ctx'), toc' = toc
    PROVE  Kept'
  BY DEF Kept, Retains, Recorded

LEMMA RestRetains ==
    ASSUME NEW s, NEW t, Rest(s, t), t.io = s.io
    PROVE  Retains(s, t)
  BY DEF Rest, Retains, Recorded

LEMMA ServesRetains ==
    ASSUME NEW s, NEW t, NEW by, Serves(s, by, t)
    PROVE  Retains(s, t)
<1>1. Untouched(s, t) BY DEF Serves
<1>2. \A r \in t.io : r.kind = "claimHdr" => r \in s.io
  BY DEF Serves, Ended, Begun, Plain, Reads
<1>3. QED BY <1>1, <1>2 DEF Retains, Recorded, Untouched

LEMMA FinalizesRetains ==
    ASSUME NEW s, NEW t, NEW by, s.recording, Finalizes(s, by, t)
    PROVE  Retains(s, t)
  BY DEF Finalizes, Retains, Recorded

LEMMA StopRetains ==
    ASSUME NEW s \in Context, NEW by \in Tickets, s.recording,
           NEW drained \in BOOLEAN, NEW refused \in BOOLEAN
    PROVE  Retains(s, StopRecording(s, by, drained, refused))
<1> DEFINE t == StopRecording(s, by, drained, refused)
<1>1. CASE s.stopping BY <1>1 DEF StopRecording, Retains
<1>2. CASE ~s.stopping
  <2>1. \/ StopBegun(s, by, t) /\ t.draining
        \/ \E u : /\ StopBegun(s, by, u) /\ u.draining = s.draining
                  /\ Finalizes(u, by, t)
    BY <1>2, StopRecordingStops
  <2> HIDE DEF t
  <2>2. t.segment_id = s.segment_id /\ t.buf_size = s.buf_size
    BY <2>1 DEF StopBegun, Finalizes
  <2>3. Retains(s, t) BY <2>2 DEF Retains, Recorded
  <2>4. QED BY <2>3 DEF t
<1>3. QED BY <1>1, <1>2

LEMMA DispatchedRetains ==
    ASSUME NEW s \in Context, NEW by \in Tickets,
           NEW drained \in BOOLEAN, NEW refused \in BOOLEAN,
           ~ \E r \in s.io : r.kind = "claimHdr"
    PROVE  Retains(s, Dispatched(s, by, drained, refused))
<1> DEFINE op == s.admin_req.op
<1>1. op \in AdminOps BY DEF Context, Request
<1>2. \A rc \in Results : Retains(s, Fulfill(s, by, rc))
  BY FulfillServes, ServesRetains
<1>3. "ESHUTDOWN" \in Results /\ "EALREADY" \in Results BY DEF Results
<1>4. Retains(s, Stop(s, by, drained, refused))
  BY <1>2, <1>3, StopRetains DEF Stop
<1>5. Retains(s, Start(s, by, refused))
  <2> DEFINE t == Start(s, by, refused)
  <2>1. /\ Claims(s, by, t)
        /\ t.recording = s.recording
        /\ Ended(s, by, t) \/ Begun(s, by, {"claimToc"}, t)
    BY StartClaims
  <2> HIDE DEF t
  <2>2. ~ \E r \in t.io : r.kind = "claimHdr" BY <2>1 DEF Ended, Begun
  <2>3. Retains(s, t) BY <2>1, <2>2 DEF Retains, Recorded, Claims
  <2>4. QED BY <2>3 DEF t
<1>6. /\ Retains(s, List(s, by, refused))
      /\ Retains(s, Delete(s, by, refused))
      /\ Retains(s, Format(s, by, refused))
  BY ListServes, DeleteServes, FormatServes, ServesRetains
<1>7. Retains(s, Submit(s, "entry", by, s.admin_req.seg, refused))
  <2>1. s.admin_req.seg \in Nat BY SlotIsNat DEF Context, Request
  <2>2. Apt(s, [kind |-> "entry", by |-> by, at |-> s.admin_req.seg])
    BY DEF Apt
  <2>3. Serves(s, by, Submit(s, "entry", by, s.admin_req.seg, refused))
    BY <2>1, <2>2, SubmitServes DEF Plain, Reads
  <2>4. QED BY <2>3, ServesRetains
<1>8. Retains(s, SetChunk(s, by))
  BY SetChunkSets DEF Retains, Recorded, Ended
<1>9. QED
  BY <1>1, <1>2, <1>3, <1>4, <1>5, <1>6, <1>7, <1>8
     DEF Dispatched, AdminOps

\* The only I/O of a call, when it completes.
LEMMA Completing ==
    ASSUME TypeInv, Serial, ctx.up, NEW t \in ctx.io
    PROVE  /\ ctx.io = {t} /\ Apt(ctx, t) /\ t \in Io
           /\ \/ t.kind \in Plain
              \/ t.kind \in Claiming /\ ctx.claim_in_progress /\ ~ctx.recording
              \/ t.kind \in Finalizing /\ Ending(ctx)
<1>1. Phase(ctx, msgs, web.call) BY DEF Serial
<1>2. Serving(ctx, msgs, web.call) \/ TearingDown(ctx, msgs, web.call)
  BY <1>1 DEF Phase, Idle, Sent, Draining
<1>3. QED BY <1>2 DEF Serving, TearingDown

LEMMA IoDoneKeeps ==
    ASSUME TypeInv, Serial, Kept, IoDone
    PROVE  Kept'
<1>1. PICK t \in ctx.io, ok \in BOOLEAN, refused \in BOOLEAN :
         /\ ctx' = Continued(Finds(t, ok), t, ok, refused)
         /\ toc' = IF ok /\ t.kind \in Writes
                   THEN [toc EXCEPT ![t.at] = ctx.io_buf] ELSE toc
  BY DEF IoDone, Finds
<1> DEFINE s == Finds(t, ok)
<1>2. /\ s \in Context /\ t \in Io /\ s.io = ctx.io \ {t}
      /\ Untouched(ctx, s)
  BY FindsType DEF TypeInv
<1>3. /\ ctx.io = {t} /\ Apt(ctx, t)
      /\ \/ t.kind \in Plain
         \/ t.kind \in Claiming /\ ctx.claim_in_progress /\ ~ctx.recording
         \/ t.kind \in Finalizing /\ Ending(ctx)
  BY Completing DEF IoDone
<1>4. /\ toc \in [Slots -> Entry] /\ t.by \in Tickets
  BY <1>2 DEF TypeInv, TypeOK, Io
<1>5. ctx' = Continued(s, t, ok, refused) BY <1>1
<1> HIDE DEF s
<1>6. s.io = {} BY <1>2, <1>3
<1>7. ASSUME Retains(s, ctx'), t.kind # "claimHdr"
      PROVE  Retains(ctx, ctx') /\ (Recorded(ctx') => ctx.recording)
  BY <1>2, <1>6, <1>7 DEF Retains, Recorded, Untouched
<1>8. CASE t.kind \in Plain
  <2>1. ctx' = IF ok THEN Served(s, t, refused) ELSE Fulfill(s, t.by, "EIO")
    BY <1>5, <1>8 DEF Continued, Plain, Reads
  <2>2. "EIO" \in Results BY DEF Results
  <2>3. Serves(s, t.by, ctx')
    BY <1>2, <1>4, <1>8, <2>1, <2>2, ServedServes, FulfillServes
  <2>4. Retains(ctx, ctx')
    BY <1>7, <1>8, <2>3, ServesRetains DEF Plain, Reads
  <2>5. CASE toc' = toc BY <2>4, <2>5, KeptRetained
  <2>6. CASE toc' = [toc EXCEPT ![t.at] = ctx.io_buf] /\ t.kind \in Writes
    <3>1. ctx.io_buf.state # "OPEN"
      BY <1>3, <1>8, <2>6 DEF Apt, Plain, Reads, Writes
    <3>2. \A g \in Slots : toc'[g].state = "OPEN" => toc'[g] = toc[g]
      BY <1>4, <2>6, <3>1
    <3>3. QED BY <2>4, <3>2 DEF Kept, Retains, Recorded
  <2>7. QED BY <1>1, <2>5, <2>6
<1>9. CASE t.kind = "claimToc" /\ ~ctx.recording
  <2>1. ctx' = ClaimTocDone(s, t.by, ok, refused)
    BY <1>5, <1>9 DEF Continued
  <2>2. /\ ctx'.recording = s.recording /\ ctx'.buf_size = s.buf_size
        /\ \/ Ended(s, t.by, ctx')
           \/ /\ ok /\ Begun(s, t.by, {"claimHdr"}, ctx')
              /\ ctx'.segment_id = s.segment_id
    BY <1>2, <1>4, <2>1, ClaimTocDoneClaims DEF Claims
  <2>3. CASE Ended(s, t.by, ctx')
    <3>1. ~Recorded(ctx')
      BY <1>2, <1>6, <1>9, <2>2, <2>3 DEF Recorded, Ended, Untouched
    <3>2. QED BY <3>1 DEF Kept, Recorded
  <2>4. CASE ok /\ ctx'.segment_id = s.segment_id
    <3>1. /\ t.at = ctx.segment_id /\ ctx.io_buf.chunk = ctx.buf_size
          /\ ctx'.segment_id = t.at /\ ctx'.buf_size = ctx.buf_size
      BY <1>2, <1>3, <1>9, <2>2, <2>4 DEF Apt, Untouched
    <3>2. toc' = [toc EXCEPT ![t.at] = ctx.io_buf]
      BY <1>1, <1>9, <2>4 DEF Writes
    <3>3. \A g \in Slots : g = t.at => toc'[g].chunk = ctx.buf_size
      BY <1>4, <3>1, <3>2
    <3>4. QED BY <3>1, <3>3 DEF Kept
  <2>5. QED BY <2>2, <2>3, <2>4
<1>10. CASE t.kind = "claimHdr"
  <2>1. ctx' = ClaimHeaderDone(s, t.by, ok) BY <1>5, <1>10 DEF Continued
  <2>2. ctx'.segment_id = s.segment_id /\ ctx'.buf_size = s.buf_size
    BY <1>2, <1>4, <2>1, ClaimHeaderDoneClaims DEF Claims
  <2>3. Retains(ctx, ctx')
    BY <1>2, <1>10, <2>2 DEF Retains, Recorded, Untouched
  <2>4. toc' = toc BY <1>1, <1>10 DEF Writes
  <2>5. QED BY <2>3, <2>4, KeptRetained
<1>11. CASE t.kind = "finHdr" /\ Ending(ctx)
  <2>1. ctx' = FinalizeHeaderDone(s, t.by, refused)
    BY <1>5, <1>11 DEF Continued
  <2>2. s.recording BY <1>2, <1>11 DEF Untouched, Ending
  <2>3. Retains(ctx, ctx')
    BY <1>2, <1>4, <1>7, <1>11, <2>1, <2>2, FinalizeHeaderDoneFinalizes,
       FinalizesRetains
  <2>4. toc' = toc BY <1>1, <1>11 DEF Writes
  <2>5. QED BY <2>3, <2>4, KeptRetained
<1>12. CASE t.kind = "finToc" /\ Ending(ctx)
  <2>1. ctx' = FinalizeTocDone(s, t.by, ok) BY <1>5, <1>12 DEF Continued
  <2>2. s.recording BY <1>2, <1>12 DEF Untouched, Ending
  <2>3. Finalizes(s, t.by, ctx') /\ ~ctx'.recording
    BY <1>2, <1>4, <2>1, FinalizeTocDoneFinalizes
  <2>4. ~Recorded(ctx')
    BY <1>6, <2>2, <2>3 DEF Finalizes, Ended, Recorded
  <2>5. QED BY <2>4 DEF Kept, Recorded
<1>13. QED
  BY <1>3, <1>8, <1>9, <1>10, <1>11, <1>12 DEF Claiming, Finalizing

LEMMA WebThreadRests ==
    ASSUME TypeInv, WebThread
    PROVE  Rest(ctx, ctx') /\ ctx'.io = ctx.io /\ toc' = toc
<1>1. ctx \in Context BY DEF TypeInv, TypeOK
<1>2. ASSUME NEW q \in Request, ctx' = [ctx EXCEPT !.admin_req = q]
      PROVE  Rest(ctx, ctx') /\ ctx'.io = ctx.io
  BY <1>1, <1>2, RequestSized
<1>3. Received \/ NoCall \/ Woken \/ TimedOut =>
         Rest(ctx, ctx') /\ ctx'.io = ctx.io
  BY <1>1, <1>2, ReceivedSets, NoCallSets, WokenSets, TimedOutSets
<1>4. Call => Rest(ctx, ctx') /\ ctx'.io = ctx.io
  BY <1>1, <1>2, CallTakes DEF Rest
<1>5. Accept \/ Replied \/ Leave => Rest(ctx, ctx') /\ ctx'.io = ctx.io
  BY DEF Accept, Replied, Leave, Rest
<1>6. toc' = toc
  BY DEF WebThread, Accept, Received, NoCall, Call, Woken, TimedOut, Replied,
         Leave
<1>7. QED BY <1>3, <1>4, <1>5, <1>6 DEF WebThread

LEMMA NextKept ==
    ASSUME Overlap = FALSE
    PROVE  TypeInv /\ Serial /\ Kept /\ [Next]_vars => Kept'
<1> SUFFICES ASSUME TypeInv, Serial, Kept, [Next]_vars PROVE Kept' OBVIOUS
<1>1. ctx \in Context /\ msgs \in Seq(Tickets) /\ 0 \in Tickets
  BY BridgeAssumption DEF TypeInv, TypeOK, Tickets
<1>2. CASE WebThread
  BY <1>2, WebThreadRests, RestRetains, KeptRetained
<1>3. CASE Dispatch
  <2>1. PICK drained \in BOOLEAN, refused \in BOOLEAN :
           ctx' = Dispatched(ctx, Head(msgs), drained, refused)
    BY <1>3 DEF Dispatch
  <2>2. Head(msgs) \in Tickets /\ msgs # <<>> /\ ctx.up /\ toc' = toc
    BY <1>1, <1>3 DEF Dispatch
  <2>3. Sent(ctx, msgs, web.call) \/ TearingDown(ctx, msgs, web.call)
    BY <2>2 DEF Serial, Phase, Idle, Serving, Draining
  <2>4. ~ \E r \in ctx.io : r.kind = "claimHdr"
    BY <2>3 DEF Sent, TearingDown, Finalizing
  <2>5. Retains(ctx, ctx') BY <1>1, <2>1, <2>2, <2>4, DispatchedRetains
  <2>6. QED BY <2>2, <2>5, KeptRetained
<1>4. CASE IoDone BY <1>4, IoDoneKeeps
<1>5. CASE Drained
  <2> DEFINE s == [ctx EXCEPT !.draining = FALSE]
  <2>1. PICK refused \in BOOLEAN :
           ctx' = FinalizeSegment(s, ctx.stopped_by, refused)
    BY <1>5 DEF Drained
  <2>2. /\ s \in Context /\ s.recording = ctx.recording /\ s.io = ctx.io
        /\ s.segment_id = ctx.segment_id /\ s.buf_size = ctx.buf_size
        /\ ctx.stopped_by \in Tickets
    BY <1>1 DEF Context
  <2> HIDE DEF s
  <2>3. ctx.up /\ ctx.draining /\ toc' = toc BY <1>5 DEF Drained
  <2>4. ctx.recording
    BY <2>3 DEF Serial, Phase, Idle, Sent, Serving, Draining, TearingDown,
       Calm, Ending
  <2>5. Retains(s, ctx')
    BY <2>1, <2>2, <2>4, FinalizeSegmentFinalizes, FinalizesRetains
  <2>6. Retains(ctx, ctx') BY <2>2, <2>5 DEF Retains, Recorded
  <2>7. QED BY <2>3, <2>6, KeptRetained
<1>6. CASE AutoStop BY <1>6 DEF AutoStop
<1>7. CASE Shutdown
  <2> DEFINE s == [ctx EXCEPT !.shutting_down = TRUE]
             v == [s EXCEPT !.up = FALSE]
  <2>1. PICK drained \in BOOLEAN, refused \in BOOLEAN :
           ctx' = IF s.recording THEN StopRecording(s, 0, drained, refused)
                  ELSE v
    BY <1>7 DEF Shutdown
  <2>2. toc' = toc BY <1>7 DEF Shutdown
  <2>3. /\ s \in Context /\ s.recording = ctx.recording /\ s.io = ctx.io
        /\ s.segment_id = ctx.segment_id /\ s.buf_size = ctx.buf_size
    BY <1>1 DEF Context
  <2> HIDE DEF s
  <2>4. Retains(s, v) BY <2>3 DEF Context, Retains, Recorded
  <2> HIDE DEF v
  <2>5. Retains(s, ctx') BY <1>1, <2>1, <2>3, <2>4, StopRetains
  <2>6. Retains(ctx, ctx') BY <2>3, <2>5 DEF Retains, Recorded
  <2>7. QED BY <2>2, <2>6, KeptRetained
<1>8. CASE UNCHANGED vars BY <1>8 DEF vars, Kept
<1>9. QED
  BY <1>2, <1>3, <1>4, <1>5, <1>6, <1>7, <1>8 DEF Next, WebThread

LEMMA InitKept == Init => Kept
  BY DEF Init, Kept, FreeEntry

\* Finalize, which rebuilds the TOC entry from nothing, writes the entry of
\* the segment that was claimed, and with the chunk size its claim wrote down.
THEOREM ClaimIsKept ==
    ASSUME Overlap = FALSE
    PROVE  Spec => FinalizeKeepsClaim
<1> DEFINE A == \A g \in Slots :
              toc[g].state # "FINALIZED" /\ toc'[g].state = "FINALIZED" =>
                 /\ toc'[g].seg = g
                 /\ toc[g].state = "OPEN" => toc'[g].chunk = toc[g].chunk
<1>1. TypeInv /\ Serial /\ Kept /\ [Next]_vars => [A]_vars
  <2> SUFFICES ASSUME TypeInv, Serial, Kept, Next, NEW g \in Slots,
                      toc[g].state # "FINALIZED",
                      toc'[g].state = "FINALIZED"
               PROVE  /\ toc'[g].seg = g
                      /\ toc[g].state = "OPEN" => toc'[g].chunk = toc[g].chunk
    OBVIOUS
  <2>1. ctx.up /\ IoDone
    <3>1. toc' # toc OBVIOUS
    <3>2. WebThread => toc' = toc BY WebThreadRests
    <3>3. IoDone
      BY <3>1, <3>2 DEF Next, WebThread, Dispatch, Drained, AutoStop, Shutdown
    <3>4. QED BY <3>3 DEF IoDone
  <2>2. PICK t \in ctx.io, ok \in BOOLEAN :
           toc' = IF ok /\ t.kind \in Writes
                  THEN [toc EXCEPT ![t.at] = ctx.io_buf] ELSE toc
    BY <2>1 DEF IoDone
  <2>3. toc \in [Slots -> Entry] BY DEF TypeInv, TypeOK
  <2>4. /\ t.kind \in Writes /\ g = t.at /\ toc'[g] = ctx.io_buf
    BY <2>2, <2>3
  <2>5. /\ Apt(ctx, t)
        /\ t.kind \in Finalizing => Ending(ctx)
    BY <2>1, Completing DEF Plain, Reads, Claiming, Finalizing
  <2>6. t.kind = "finToc"
    BY <2>4, <2>5 DEF Apt, Writes
  <2>7. /\ g = ctx.segment_id /\ ctx.recording
        /\ toc'[g].seg = g /\ toc'[g].chunk = ctx.buf_size
    BY <2>4, <2>5, <2>6 DEF Apt, FinalizedEntry, Ending, Finalizing
  <2>8. toc[g].state = "OPEN" => toc[g].chunk = ctx.buf_size
    BY <2>7 DEF Kept
  <2>9. QED BY <2>7, <2>8
<1>2. QED
  BY <1>1, InitTypeInv, NextSized, InitSerial, NextSerial, InitKept, NextKept,
     PTL DEF Spec, FinalizeKeepsClaim

-----------------------------------------------------------------------------
(* What a list shows *)

\* Lists, of a TOC d.
Shows(d, resp, n) ==
    /\ {resp[k].entry.seg : k \in DOMAIN resp} =
          {g \in 0 .. n - 1 : Listed(d[g])}
    /\ \A j, k \in DOMAIN resp :
          j < k => resp[j].entry.seg < resp[k].entry.seg

\* An entry says which slot it is of.
Seated(d) == \A g \in Slots : Listed(d[g]) => d[g].seg = g

\* The next segment has a slot while it is claimed.
Counted(s) ==
    /\ s.next_segment_id <= SegmentSlots
    /\ \A r \in s.io : r.kind = "claimToc" => s.next_segment_id < SegmentSlots

NoList(s) == \A r \in s.io : r.kind # "list"

\* A message is still to be dispatched: the answer is empty, and the request
\* of a list is the one that was made.
Queued(s, m, w) ==
    m # <<>> => /\ s.admin_req.resp = <<>>
                /\ w.pc = "wait" /\ w.op = "list" => s.admin_req.op = "list"

\* The answer shows all slots before the one being read.
Cursor(s, d) == \A r \in s.io : r.kind = "list" =>
    /\ r.at = s.dump_records_seen /\ r.at < s.next_segment_id
    /\ s.dump_target_count = s.next_segment_id
    /\ Shows(d, s.admin_req.resp, r.at)

\* A list that is neither answered nor to be dispatched reads.
Reading(s, m, w) ==
    w.pc = "wait" /\ w.op = "list" /\ ~s.admin_req.done /\ m = <<>> =>
       ~NoList(s)

Complete(s, w, d) ==
    /\ w.pc \in {"wait", "reply"} /\ w.op = "list"
    /\ s.admin_req.done /\ s.admin_req.rc = "ok"
    => Shows(d, s.admin_req.resp, s.next_segment_id)

Lister(s, m, w, d) ==
    Queued(s, m, w) /\ Cursor(s, d) /\ Reading(s, m, w) /\ Complete(s, w, d)

Listing ==
    Seated(toc) /\ Counted(ctx) /\ (ctx.up => Lister(ctx, msgs, web, toc))

\* An operator submits no list and no claim, and counts no segment.
Passes(s, t) ==
    /\ t \in Context /\ t.next_segment_id = s.next_segment_id
    /\ \A r \in t.io : r.kind \in {"list", "claimToc"} => r \in s.io

LEMMA PassesCounted ==
    ASSUME NEW s, NEW t, Passes(s, t), Counted(s), NoList(s)
    PROVE  Counted(t) /\ NoList(t)
  BY DEF Passes, Counted, NoList

LEMMA PassesOn ==
    ASSUME NEW s, NEW t, NEW u, Passes(t, u),
           t.next_segment_id = s.next_segment_id, t.io = s.io
    PROVE  Passes(s, u)
  BY DEF Passes

LEMMA FulfillPasses ==
    ASSUME NEW s \in Context, NEW by \in Tickets, NEW rc \in Results
    PROVE  Passes(s, Fulfill(s, by, rc))
  BY FulfillType DEF Rest, Passes

LEMMA OtherPasses ==
    ASSUME NEW s \in Context, NEW by \in Tickets, NEW at \in Nat,
           NEW kind \in Reads \cup Writes \cup Headers,
           kind \notin {"list", "claimToc"}
    PROVE  /\ Passes(s, Submitted(s, kind, by, at))
           /\ Submitted(s, kind, by, at).admin_req = s.admin_req
<1> DEFINE r == [kind |-> kind, by |-> by, at |-> at]
           t == Submitted(s, kind, by, at)
<1>1. /\ t \in Context /\ Rest(s, t) /\ t.io = s.io \cup {r}
      /\ t.admin_req = s.admin_req /\ r \in Io
  BY SubmittedType
<1>2. r.kind \notin {"list", "claimToc"} OBVIOUS
<1> HIDE DEF r, t
<1>3. QED BY <1>1, <1>2 DEF Passes, Rest, t

LEMMA SubmittedPasses ==
    ASSUME NEW s \in Context, NEW by \in Tickets, NEW at \in Nat,
           NEW kind \in (Reads \cup Writes \cup Headers)
                          \ {"list", "claimToc"}
    PROVE  /\ Passes(s, Submitted(s, kind, by, at))
           /\ Submitted(s, kind, by, at).admin_req = s.admin_req
<1>1. kind \in Reads \cup Writes \cup Headers OBVIOUS
<1>2. kind \notin {"list", "claimToc"} OBVIOUS
<1>3. QED BY <1>1, <1>2, OtherPasses

LEMMA SubmitPasses ==
    ASSUME NEW s \in Context, NEW by \in Tickets, NEW at \in Nat,
           NEW kind \in (Reads \cup Writes \cup Headers)
                          \ {"list", "claimToc"},
           NEW refused \in BOOLEAN
    PROVE  Passes(s, Submit(s, kind, by, at, refused))
<1>1. "EIO" \in Results BY DEF Results
<1>2. Passes(s, Fulfill(s, by, "EIO")) BY <1>1, FulfillPasses
<1>3. Passes(s, Submitted(s, kind, by, at)) BY SubmittedPasses
<1>4. QED BY <1>2, <1>3 DEF Submit

LEMMA RecordsNextPasses ==
    ASSUME NEW s \in Context, NEW by \in Tickets, NEW refused \in BOOLEAN
    PROVE  Passes(s, RecordsNext(s, by, refused))
<1>1. "ok" \in Results BY DEF Results
<1>2. s.dump_records_seen \in Nat BY DEF Context
<1>3. "records" \in (Reads \cup Writes \cup Headers) \ {"list", "claimToc"}
  BY DEF Reads
<1>4. Passes(s, Submit(s, "records", by, s.dump_records_seen, refused))
  BY <1>2, <1>3, SubmitPasses
<1>5. Passes(s, Fulfill(s, by, "ok")) BY <1>1, FulfillPasses
<1>6. QED BY <1>4, <1>5 DEF RecordsNext

LEMMA EntryReadPasses ==
    ASSUME NEW s \in Context, NEW by \in Tickets, NEW refused \in BOOLEAN
    PROVE  Passes(s, EntryRead(s, by, refused))
<1> DEFINE t == [s EXCEPT !.dump_records_seen = 0,
                    !.dump_target_count = s.io_buf.chunks,
                    !.admin_req.resp = Append(@,
                       [by |-> by, entry |-> s.io_buf])]
<1>1. "ENOENT" \in Results /\ "EAGAIN" \in Results BY DEF Results
<1>2. s.io_buf.chunks \in Nat BY DEF Context, Entry
<1>3. Prepares(s, by, t) BY <1>2, AnswerPrepares
<1>4. t.next_segment_id = s.next_segment_id BY DEF Context
<1>5. t \in Context /\ t.io = s.io BY <1>3 DEF Prepares
<1> HIDE DEF t
<1>6. Passes(t, RecordsNext(t, by, refused)) BY <1>5, RecordsNextPasses
<1>7. Passes(s, RecordsNext(t, by, refused)) BY <1>4, <1>5, <1>6, PassesOn
<1>8. /\ Passes(s, Fulfill(s, by, "ENOENT"))
      /\ Passes(s, Fulfill(s, by, "EAGAIN"))
  BY <1>1, FulfillPasses
<1>9. QED BY <1>7, <1>8 DEF EntryRead, t

LEMMA RecordsReadPasses ==
    ASSUME NEW s \in Context, NEW by \in Tickets, NEW refused \in BOOLEAN
    PROVE  Passes(s, RecordsRead(s, by, refused))
<1> DEFINE t == [s EXCEPT !.dump_records_seen = @ + 1]
<1>1. /\ t \in Context /\ t.io = s.io
      /\ t.next_segment_id = s.next_segment_id
  BY DEF Context
<1> HIDE DEF t
<1>2. Passes(t, RecordsNext(t, by, refused)) BY <1>1, RecordsNextPasses
<1>3. QED BY <1>1, <1>2, PassesOn DEF RecordsRead, t

LEMMA DeletePasses ==
    ASSUME NEW s \in Context, NEW by \in Tickets, NEW refused \in BOOLEAN
    PROVE  /\ Passes(s, Delete(s, by, refused))
           /\ Passes(s, DeleteRead(s, by, refused))
<1> DEFINE g == s.admin_req.seg
           t == [s EXCEPT !.io_buf.state = "DELETED"]
<1>1. g \in Nat BY SlotIsNat DEF Context, Request
<1>2. "EBUSY" \in Results /\ "ENOENT" \in Results /\ "ok" \in Results
  BY DEF Results
<1>3. /\ Passes(s, Fulfill(s, by, "EBUSY"))
      /\ Passes(s, Fulfill(s, by, "ENOENT"))
      /\ Passes(s, Fulfill(s, by, "ok"))
  BY <1>2, FulfillPasses
<1>4. {"delRead", "delWrite"} \subseteq
         (Reads \cup Writes \cup Headers) \ {"list", "claimToc"}
  BY DEF Reads, Writes
<1>5. Passes(s, Submit(s, "delRead", by, g, refused))
  BY <1>1, <1>4, SubmitPasses
<1>6. /\ t \in Context /\ t.io = s.io
      /\ t.next_segment_id = s.next_segment_id
  <2> DEFINE e == [s.io_buf EXCEPT !.state = "DELETED"]
  <2>1. s.io_buf \in Entry BY DEF Context
  <2>2. e \in Entry BY <2>1 DEF Entry
  <2>3. t = [s EXCEPT !.io_buf = e] BY DEF Context
  <2> HIDE DEF e, t
  <2>4. QED BY <2>2, <2>3 DEF Context
<1> HIDE DEF t
<1>7. Passes(t, Submit(t, "delWrite", by, g, refused))
  BY <1>1, <1>4, <1>6, SubmitPasses
<1>8. Passes(s, Submit(t, "delWrite", by, g, refused))
  BY <1>6, <1>7, PassesOn
<1>9. QED BY <1>3, <1>5, <1>8 DEF Delete, DeleteRead, t

LEMMA FormatNextPasses ==
    ASSUME NEW s \in Context, NEW by \in Tickets, NEW refused \in BOOLEAN
    PROVE  Passes(s, FormatNext(s, by, refused))
<1> DEFINE t == [s EXCEPT !.io_buf = FreeEntry]
<1>1. FreeEntry \in Entry BY DEF FreeEntry, Entry
<1>2. /\ t \in Context /\ t.io = s.io /\ s.init_cur \in Nat
      /\ t.next_segment_id = s.next_segment_id
  BY <1>1 DEF Context
<1>3. {"zero", "fmtHdr"} \subseteq
         (Reads \cup Writes \cup Headers) \ {"list", "claimToc"}
  BY DEF Writes, Headers
<1> HIDE DEF t
<1>4. Passes(t, Submit(t, "zero", by, s.init_cur, refused))
  BY <1>2, <1>3, SubmitPasses
<1>5. Passes(s, Submit(t, "zero", by, s.init_cur, refused))
  BY <1>2, <1>4, PassesOn
<1>6. Passes(s, Submit(s, "fmtHdr", by, 0, refused)) BY <1>3, SubmitPasses
<1>7. QED BY <1>5, <1>6 DEF FormatNext, t

LEMMA FormatPasses ==
    ASSUME NEW s \in Context, NEW by \in Tickets, NEW refused \in BOOLEAN
    PROVE  /\ Passes(s, Format(s, by, refused))
           /\ Passes(s, FormatZeroed(s, by, refused))
<1> DEFINE t == [s EXCEPT !.init_cur = 0]
           u == [s EXCEPT !.init_cur = @ + 1]
<1>1. "EBUSY" \in Results BY DEF Results
<1>2. /\ t \in Context /\ t.io = s.io
      /\ t.next_segment_id = s.next_segment_id
      /\ u \in Context /\ u.io = s.io
      /\ u.next_segment_id = s.next_segment_id
  BY DEF Context
<1> HIDE DEF t, u
<1>3. /\ Passes(t, FormatNext(t, by, refused))
      /\ Passes(u, FormatNext(u, by, refused))
  BY <1>2, FormatNextPasses
<1>4. /\ Passes(s, FormatNext(t, by, refused))
      /\ Passes(s, FormatNext(u, by, refused))
  BY <1>2, <1>3, PassesOn
<1>5. Passes(s, Fulfill(s, by, "EBUSY")) BY <1>1, FulfillPasses
<1>6. QED BY <1>4, <1>5 DEF Format, FormatZeroed, t, u

LEMMA SetChunkPasses ==
    ASSUME NEW s \in Context, NEW by \in Tickets
    PROVE  Passes(s, SetChunk(s, by))
<1> DEFINE t == [s EXCEPT !.buf_size = s.admin_req.chunk]
<1>1. "EBUSY" \in Results /\ "EINVAL" \in Results /\ "ok" \in Results
  BY DEF Results
<1>2. /\ Passes(s, Fulfill(s, by, "EBUSY"))
      /\ Passes(s, Fulfill(s, by, "EINVAL"))
  BY <1>1, FulfillPasses
<1>3. ASSUME s.admin_req.chunk \in ChunkSizes
      PROVE  Passes(s, Fulfill(t, by, "ok"))
  <2>1. /\ t \in Context /\ t.io = s.io
        /\ t.next_segment_id = s.next_segment_id
    BY <1>3 DEF Context
  <2> HIDE DEF t
  <2>2. Passes(t, Fulfill(t, by, "ok")) BY <1>1, <2>1, FulfillPasses
  <2>3. QED BY <2>1, <2>2, PassesOn
<1>4. QED BY <1>2, <1>3 DEF SetChunk, t

LEMMA FinalizeTocDonePasses ==
    ASSUME NEW s \in Context, NEW by \in Tickets, NEW ok \in BOOLEAN
    PROVE  /\ Passes(s, FinalizeTocDone(s, by, ok))
           /\ s.shutting_down => ~FinalizeTocDone(s, by, ok).up
<1> DEFINE t == [s EXCEPT !.recording = FALSE]
           u == [t EXCEPT !.up = FALSE]
           rc == IF ok THEN "ok" ELSE "EIO"
<1>1. /\ t \in Context /\ t.io = s.io
      /\ t.next_segment_id = s.next_segment_id
      /\ t.shutting_down = s.shutting_down
  BY DEF Context
<1> HIDE DEF t
<1>2. /\ u \in Context /\ u.io = t.io /\ ~u.up
      /\ u.next_segment_id = t.next_segment_id
  BY <1>1 DEF Context
<1> HIDE DEF u
<1>3. rc \in Results BY DEF Results
<1> HIDE DEF rc
<1>4. Passes(t, Fulfill(t, by, rc)) BY <1>1, <1>3, FulfillPasses
<1>5. Passes(s, Fulfill(t, by, rc)) BY <1>1, <1>4, PassesOn
<1>6. Passes(s, u) BY <1>1, <1>2 DEF Passes
<1>7. QED BY <1>1, <1>2, <1>5, <1>6 DEF FinalizeTocDone, t, u, rc

\* In a teardown the handlers of a stop say nothing to the web thread.
Silent(s, t) == s.shutting_down /\ t.up => t.admin_req = s.admin_req

LEMMA FinalizeHeaderDonePasses ==
    ASSUME NEW s \in Context, NEW by \in Tickets, NEW refused \in BOOLEAN
    PROVE  /\ Passes(s, FinalizeHeaderDone(s, by, refused))
           /\ Silent(s, FinalizeHeaderDone(s, by, refused))
<1> DEFINE t == [s EXCEPT !.io_buf = FinalizedEntry(s)]
           u == FinalizeTocDone(t, by, FALSE)
           v == Submitted(t, "finToc", by, s.segment_id)
<1>1. FinalizedEntry(s) \in Entry
  BY BridgeAssumption DEF FinalizedEntry, Entry, Context
<1>2. /\ t \in Context /\ t.io = s.io /\ s.segment_id \in Nat
      /\ t.next_segment_id = s.next_segment_id
      /\ t.shutting_down = s.shutting_down /\ t.admin_req = s.admin_req
  BY <1>1 DEF Context
<1> HIDE DEF t
<1>3. Passes(t, u) /\ (t.shutting_down => ~u.up)
  BY <1>2, FinalizeTocDonePasses
<1>4. "finToc" \in (Reads \cup Writes \cup Headers) \ {"list", "claimToc"}
  BY DEF Writes
<1>5. Passes(t, v) /\ v.admin_req = t.admin_req
  BY <1>2, <1>4, SubmittedPasses
<1> HIDE DEF u, v
<1>6. Passes(s, u) /\ Passes(s, v) BY <1>2, <1>3, <1>5, PassesOn
<1>7. Silent(s, u) /\ Silent(s, v) BY <1>2, <1>3, <1>5 DEF Silent
<1>8. QED BY <1>6, <1>7 DEF FinalizeHeaderDone, t, u, v

LEMMA FinalizeSegmentPasses ==
    ASSUME NEW s \in Context, NEW by \in Tickets, NEW refused \in BOOLEAN
    PROVE  /\ Passes(s, FinalizeSegment(s, by, refused))
           /\ Silent(s, FinalizeSegment(s, by, refused))
<1> DEFINE v == Submitted(s, "finHdr", by, 0)
<1>1. "finHdr" \in (Reads \cup Writes \cup Headers) \ {"list", "claimToc"}
  BY DEF Headers
<1>2. Passes(s, v) /\ v.admin_req = s.admin_req BY <1>1, SubmittedPasses
<1> HIDE DEF v
<1>3. Silent(s, v) BY <1>2 DEF Silent
<1>4. QED
  BY <1>2, <1>3, FinalizeHeaderDonePasses DEF FinalizeSegment, v

LEMMA StopRecordingPasses ==
    ASSUME NEW s \in Context, NEW by \in Tickets, NEW drained \in BOOLEAN,
           NEW refused \in BOOLEAN
    PROVE  /\ Passes(s, StopRecording(s, by, drained, refused))
           /\ Silent(s, StopRecording(s, by, drained, refused))
<1> DEFINE t == [s EXCEPT !.stopping = TRUE, !.stopped_by = by]
           u == [t EXCEPT !.draining = TRUE]
           v == FinalizeSegment(t, by, refused)
<1>1. /\ t \in Context /\ t.io = s.io /\ t.admin_req = s.admin_req
      /\ t.next_segment_id = s.next_segment_id
      /\ t.shutting_down = s.shutting_down
  BY DEF Context
<1> HIDE DEF t
<1>2. /\ u \in Context /\ u.io = t.io /\ u.admin_req = t.admin_req
      /\ u.next_segment_id = t.next_segment_id
  BY <1>1 DEF Context
<1> HIDE DEF u
<1>3. Passes(t, v) /\ Silent(t, v) BY <1>1, FinalizeSegmentPasses
<1> HIDE DEF v
<1>4. Passes(s, u) /\ Passes(s, v) /\ Silent(s, u) /\ Silent(s, v)
  BY <1>1, <1>2, <1>3, PassesOn DEF Passes, Silent
<1>5. Passes(s, s) /\ Silent(s, s) BY DEF Passes, Silent
<1>6. QED BY <1>4, <1>5 DEF StopRecording, t, u, v

LEMMA ClaimHeaderDonePasses ==
    ASSUME NEW s \in Context, NEW by \in Tickets, NEW ok \in BOOLEAN
    PROVE  Passes(s, ClaimHeaderDone(s, by, ok))
<1> DEFINE t == [s EXCEPT !.claim_in_progress = FALSE]
           u == [s EXCEPT !.stopping = FALSE, !.recording = TRUE,
                          !.claim_in_progress = FALSE]
<1>1. /\ t \in Context /\ t.io = s.io
      /\ t.next_segment_id = s.next_segment_id
      /\ u \in Context /\ u.io = s.io
      /\ u.next_segment_id = s.next_segment_id
  BY DEF Context
<1>2. "EIO" \in Results /\ "ok" \in Results BY DEF Results
<1> HIDE DEF t, u
<1>3. Passes(t, Fulfill(t, by, "EIO")) /\ Passes(u, Fulfill(u, by, "ok"))
  BY <1>1, <1>2, FulfillPasses
<1>4. Passes(s, Fulfill(t, by, "EIO")) /\ Passes(s, Fulfill(u, by, "ok"))
  BY <1>1, <1>3, PassesOn
<1>5. QED BY <1>4 DEF ClaimHeaderDone, ClaimFailed, t, u

\* A claim fails with no more I/O than there was.
LEMMA ClaimFailedCounts ==
    ASSUME NEW s \in Context, s.io = {}, s.next_segment_id <= SegmentSlots,
           NEW by \in Tickets, NEW rc \in Results
    PROVE  LET t == ClaimFailed(s, by, rc) IN Counted(t) /\ NoList(t)
<1> DEFINE t == [s EXCEPT !.claim_in_progress = FALSE]
<1>1. /\ t \in Context /\ t.io = {}
      /\ t.next_segment_id = s.next_segment_id
  BY DEF Context
<1> HIDE DEF t
<1>2. Passes(t, Fulfill(t, by, rc)) BY <1>1, FulfillPasses
<1>3. Counted(t) /\ NoList(t) BY <1>1 DEF Counted, NoList
<1>4. QED BY <1>2, <1>3, PassesCounted DEF ClaimFailed, t

\* A start claims a slot that is there.
LEMMA ClaimSegmentCounts ==
    ASSUME NEW s \in Context, Counted(s), s.io = {}, NEW by \in Tickets,
           NEW refused \in BOOLEAN
    PROVE  LET t == ClaimSegment(s, by, refused) IN Counted(t) /\ NoList(t)
<1> DEFINE n == s.next_segment_id
           e == [seg |-> n, state |-> "OPEN", chunk |-> s.buf_size,
                 chunks |-> 0]
           t == [s EXCEPT !.claim_in_progress = TRUE, !.segment_id = n,
                          !.io_buf = e]
           r == [kind |-> "claimToc", by |-> by, at |-> t.segment_id]
           y == Submitted(t, "claimToc", by, t.segment_id)
<1>1. n \in Nat /\ s.buf_size \in Nat /\ n <= SegmentSlots
  BY BridgeAssumption DEF Context, Counted
<1>2. e \in Entry BY <1>1 DEF Entry
<1>3. ClaimSegment(s, by, refused) =
        IF n >= SegmentSlots THEN Fulfill(s, by, "ENOSPC")
        ELSE IF refused THEN ClaimFailed(t, by, "EIO") ELSE y
  BY DEF ClaimSegment
<1> HIDE DEF e
<1>4. /\ t \in Context /\ t.io = {} /\ t.next_segment_id = n
      /\ t.segment_id \in Nat
  BY <1>1, <1>2 DEF Context
<1> HIDE DEF t
<1>5. "ENOSPC" \in Results /\ "EIO" \in Results BY DEF Results
<1>6. Counted(s) /\ NoList(s) BY DEF NoList
<1>7. Counted(Fulfill(s, by, "ENOSPC")) /\ NoList(Fulfill(s, by, "ENOSPC"))
  BY <1>5, <1>6, FulfillPasses, PassesCounted
<1>8. Counted(ClaimFailed(t, by, "EIO")) /\ NoList(ClaimFailed(t, by, "EIO"))
  <2>1. t.next_segment_id <= SegmentSlots BY <1>1, <1>4
  <2>2. QED BY <1>4, <1>5, <2>1, ClaimFailedCounts
<1>9. ASSUME ~(n >= SegmentSlots) PROVE Counted(y) /\ NoList(y)
  <2>1. "claimToc" \in Reads \cup Writes \cup Headers BY DEF Writes
  <2>2. /\ y \in Context /\ Rest(t, y) /\ y.io = t.io \cup {r}
        /\ y.admin_req = t.admin_req /\ r \in Io
    BY <1>4, <2>1, SubmittedType
  <2>3. r.kind = "claimToc" OBVIOUS
  <2> HIDE DEF r, y
  <2>4. n < SegmentSlots BY <1>1, <1>9, BridgeAssumption
  <2>5. y.next_segment_id = n BY <1>4, <2>2 DEF Rest
  <2>6. QED BY <1>1, <1>4, <2>2, <2>3, <2>4, <2>5 DEF Counted, NoList
<1> HIDE DEF y
<1>10. QED BY <1>3, <1>7, <1>8, <1>9

LEMMA StartCounts ==
    ASSUME NEW s \in Context, Counted(s), s.io = {}, NEW by \in Tickets,
           NEW refused \in BOOLEAN
    PROVE  LET t == Start(s, by, refused) IN Counted(t) /\ NoList(t)
<1> DEFINE p == WithPort(s)
<1>1. p \in Context /\ Rest(s, p) /\ p.io = s.io BY WithPortRests
<1>2. "EALREADY" \in Results /\ "EINVAL" \in Results BY DEF Results
<1>3. \/ Start(s, by, refused) = Fulfill(s, by, "EALREADY")
      \/ Start(s, by, refused) = Fulfill(p, by, "EINVAL")
      \/ Start(s, by, refused) = ClaimSegment(p, by, refused)
  BY DEF Start
<1> HIDE DEF p
<1>4. Counted(p) /\ NoList(p) /\ NoList(s)
  BY <1>1 DEF Counted, NoList, Rest
<1>5. \A s2 \in {s, p}, rc \in {"EALREADY", "EINVAL"} :
         Counted(Fulfill(s2, by, rc)) /\ NoList(Fulfill(s2, by, rc))
  BY <1>1, <1>2, <1>4, FulfillPasses, PassesCounted
<1>6. /\ Counted(ClaimSegment(p, by, refused))
      /\ NoList(ClaimSegment(p, by, refused))
  BY <1>1, <1>4, ClaimSegmentCounts
<1>7. QED BY <1>3, <1>5, <1>6

LEMMA ClaimTocDoneCounts ==
    ASSUME NEW s \in Context, s.io = {}, s.next_segment_id < SegmentSlots,
           NEW by \in Tickets, NEW ok \in BOOLEAN, NEW refused \in BOOLEAN
    PROVE  LET t == ClaimTocDone(s, by, ok, refused)
           IN  Counted(t) /\ NoList(t)
<1> DEFINE n == s.next_segment_id
           t == [s EXCEPT !.next_segment_id = n + 1]
           y == Submitted(t, "claimHdr", by, 0)
<1>1. n \in Nat /\ SegmentSlots \in Nat BY BridgeAssumption DEF Context
<1>2. n <= SegmentSlots /\ n + 1 <= SegmentSlots BY <1>1
<1>3. ClaimTocDone(s, by, ok, refused) =
        IF ~ok THEN ClaimFailed(s, by, "EIO")
        ELSE IF refused THEN ClaimFailed(t, by, "EIO") ELSE y
  BY DEF ClaimTocDone, Context
<1>4. t \in Context /\ t.io = {} /\ t.next_segment_id = n + 1
  BY <1>1 DEF Context
<1> HIDE DEF t
<1>5. "EIO" \in Results BY DEF Results
<1>6. /\ Counted(ClaimFailed(s, by, "EIO"))
      /\ NoList(ClaimFailed(s, by, "EIO"))
      /\ Counted(ClaimFailed(t, by, "EIO"))
      /\ NoList(ClaimFailed(t, by, "EIO"))
  BY <1>2, <1>4, <1>5, ClaimFailedCounts
<1>7. "claimHdr" \in (Reads \cup Writes \cup Headers) \ {"list", "claimToc"}
  BY DEF Headers
<1>8. Passes(t, y) BY <1>4, <1>7, SubmittedPasses
<1>9. Counted(t) /\ NoList(t) BY <1>2, <1>4 DEF Counted, NoList
<1> HIDE DEF y
<1>10. Counted(y) /\ NoList(y) BY <1>8, <1>9, PassesCounted
<1>11. QED BY <1>3, <1>6, <1>10

LEMMA FormatHeaderDoneCounts ==
    ASSUME NEW s \in Context, s.io = {}, NEW by \in Tickets
    PROVE  LET t == FormatHeaderDone(s, by) IN Counted(t) /\ NoList(t)
<1> DEFINE t == [s EXCEPT !.next_segment_id = 0]
<1>1. t \in Context /\ t.io = {} /\ t.next_segment_id = 0 BY DEF Context
<1> HIDE DEF t
<1>2. "ok" \in Results BY DEF Results
<1>3. Passes(t, Fulfill(t, by, "ok")) BY <1>1, <1>2, FulfillPasses
<1>4. Counted(t) /\ NoList(t) BY <1>1, BridgeAssumption DEF Counted, NoList
<1>5. QED BY <1>3, <1>4, PassesCounted DEF FormatHeaderDone, t

\* Whatever is not a list lists nothing, and counts no more than there is.
LEMMA DispatchedCounts ==
    ASSUME NEW s \in Context, Counted(s), s.io = {},
           NEW by \in Tickets, NEW drained \in BOOLEAN,
           NEW refused \in BOOLEAN, s.admin_req.op # "list"
    PROVE  LET t == Dispatched(s, by, drained, refused)
           IN  Counted(t) /\ NoList(t)
<1> DEFINE op == s.admin_req.op
<1>1. op \in AdminOps BY DEF Context, Request
<1>2. "ESHUTDOWN" \in Results /\ "EALREADY" \in Results BY DEF Results
<1>3. NoList(s) BY DEF NoList
<1>4. /\ Passes(s, Fulfill(s, by, "ESHUTDOWN"))
      /\ Passes(s, Fulfill(s, by, "EALREADY"))
  BY <1>2, FulfillPasses
<1>5. Passes(s, Stop(s, by, drained, refused))
  BY <1>4, StopRecordingPasses DEF Stop
<1>6. /\ Passes(s, Delete(s, by, refused))
      /\ Passes(s, Format(s, by, refused)) /\ Passes(s, SetChunk(s, by))
  BY DeletePasses, FormatPasses, SetChunkPasses
<1>7. Passes(s, Submit(s, "entry", by, s.admin_req.seg, refused))
  <2>1. s.admin_req.seg \in Nat BY SlotIsNat DEF Context, Request
  <2>2. "entry" \in (Reads \cup Writes \cup Headers) \ {"list", "claimToc"}
    BY DEF Reads
  <2>3. QED BY <2>1, <2>2, SubmitPasses
<1>8. op = "start" /\ ~s.shutting_down =>
         Dispatched(s, by, drained, refused) = Start(s, by, refused)
  BY DEF Dispatched
<1>9. CASE op = "start" /\ ~s.shutting_down
  BY <1>8, <1>9, StartCounts
<1>10. CASE ~(op = "start" /\ ~s.shutting_down)
  <2>1. Passes(s, Dispatched(s, by, drained, refused))
    BY <1>1, <1>4, <1>5, <1>6, <1>7, <1>10 DEF Dispatched, AdminOps
  <2>2. QED BY <1>3, <2>1, PassesCounted
<1>11. QED BY <1>9, <1>10

LEMMA ContinuedCounts ==
    ASSUME NEW s \in Context, s.io = {}, s.next_segment_id <= SegmentSlots,
           NEW t \in Io, t.kind # "list",
           t.kind = "claimToc" => s.next_segment_id < SegmentSlots,
           NEW ok \in BOOLEAN, NEW refused \in BOOLEAN
    PROVE  LET u == Continued(s, t, ok, refused)
           IN  Counted(u) /\ NoList(u)
<1> DEFINE u == Continued(s, t, ok, refused)
<1>1. t.by \in Tickets /\ t.kind \in Reads \cup Writes \cup Headers
  BY DEF Io
<1>2. "EIO" \in Results /\ "ok" \in Results BY DEF Results
<1>3. Counted(s) /\ NoList(s) BY DEF Counted, NoList
<1>4. CASE t.kind = "claimToc"
  BY <1>1, <1>4, ClaimTocDoneCounts DEF Continued
<1>5. CASE t.kind = "fmtHdr" /\ ok
  <2>1. u = FormatHeaderDone(s, t.by) BY <1>5 DEF Continued, Served
  <2>2. QED BY <1>1, <2>1, FormatHeaderDoneCounts
<1>6. CASE t.kind # "claimToc" /\ ~(t.kind = "fmtHdr" /\ ok)
  <2>1. /\ Passes(s, Fulfill(s, t.by, "EIO"))
        /\ Passes(s, Fulfill(s, t.by, "ok"))
    BY <1>1, <1>2, FulfillPasses
  <2>2. /\ Passes(s, EntryRead(s, t.by, refused))
        /\ Passes(s, RecordsRead(s, t.by, refused))
        /\ Passes(s, DeleteRead(s, t.by, refused))
        /\ Passes(s, FormatZeroed(s, t.by, refused))
    BY <1>1, EntryReadPasses, RecordsReadPasses, DeletePasses, FormatPasses
  <2>3. /\ Passes(s, ClaimHeaderDone(s, t.by, ok))
        /\ Passes(s, FinalizeHeaderDone(s, t.by, refused))
        /\ Passes(s, FinalizeTocDone(s, t.by, ok))
    BY <1>1, ClaimHeaderDonePasses, FinalizeHeaderDonePasses,
       FinalizeTocDonePasses
  <2>4. t.kind \in Plain /\ ok => Passes(s, Served(s, t, refused))
    BY <1>6, <2>1, <2>2 DEF Served, Plain, Reads
  <2>5. t.kind \in Plain \/ t.kind \in {"claimHdr", "finHdr", "finToc"}
    BY <1>1, <1>6 DEF Plain, Reads, Writes, Headers
  <2>6. t.kind \in Plain =>
           u = IF ok THEN Served(s, t, refused) ELSE Fulfill(s, t.by, "EIO")
    BY DEF Continued, Plain, Reads
  <2>7. Passes(s, u)
    BY <2>1, <2>3, <2>4, <2>5, <2>6 DEF Continued
  <2> HIDE DEF u
  <2>8. Counted(u) /\ NoList(u) BY <1>3, <2>7, PassesCounted
  <2>9. QED BY <2>8 DEF u
<1>7. QED BY <1>4, <1>5, <1>6

LEMMA ShowsIs ==
    ASSUME NEW d, NEW resp, NEW n,
           {resp[k].entry.seg : k \in DOMAIN resp} =
              {g \in 0 .. n - 1 : Listed(d[g])},
           \A j, k \in DOMAIN resp :
              j < k => resp[j].entry.seg < resp[k].entry.seg
    PROVE  Shows(d, resp, n)
  BY DEF Shows

LEMMA ShowsNone ==
    ASSUME NEW d
    PROVE  Shows(d, <<>>, 0)
<1>1. DOMAIN <<>> = {} /\ 0 .. 0 - 1 = {} OBVIOUS
<1>2. QED BY <1>1 DEF Shows

\* The cursor passes an entry that is listed.
LEMMA ShowsListed ==
    ASSUME NEW d \in [Slots -> Entry], Seated(d), NEW n \in Slots,
           Listed(d[n]), NEW by \in Tickets,
           NEW resp \in Seq([by : Tickets, entry : Entry]),
           Shows(d, resp, n)
    PROVE  Shows(d, Append(resp, [by |-> by, entry |-> d[n]]), n + 1)
<1> DEFINE x == [by |-> by, entry |-> d[n]]
           r == Append(resp, x)
           last == Len(resp) + 1
<1>1. n \in Nat BY SlotIsNat
<1>2. d[n] \in Entry /\ d[n].seg = n BY DEF Seated
<1>3. x \in [by : Tickets, entry : Entry] /\ x.entry = d[n] BY <1>2
<1> HIDE DEF x
<1>4. /\ DOMAIN r = 1 .. last /\ DOMAIN resp = 1 .. last - 1
      /\ last \in Nat \ {0} /\ r[last] = x
      /\ \A k \in DOMAIN resp : r[k] = resp[k]
  BY <1>3
<1> HIDE DEF r, last
<1>5. \A k \in DOMAIN r : k = last \/ k \in DOMAIN resp BY <1>4
<1>6. DOMAIN resp \subseteq DOMAIN r /\ last \in DOMAIN r BY <1>4
<1>7. r[last].entry.seg = n BY <1>2, <1>3, <1>4
<1>8. {g \in 0 .. n + 1 - 1 : Listed(d[g])} =
         {g \in 0 .. n - 1 : Listed(d[g])} \cup {n}
  <2>1. \A g : g \in 0 .. n + 1 - 1 <=> g \in 0 .. n - 1 \/ g = n
    BY <1>1
  <2>2. QED BY <2>1
<1>9. {r[k].entry.seg : k \in DOMAIN r} =
         {resp[k].entry.seg : k \in DOMAIN resp} \cup {n}
  BY <1>4, <1>5, <1>6, <1>7
<1>10. \A k \in DOMAIN resp : resp[k].entry.seg \in 0 .. n - 1
  BY DEF Shows
<1>11. ASSUME NEW j \in DOMAIN r, NEW k \in DOMAIN r, j < k
       PROVE  r[j].entry.seg < r[k].entry.seg
  <2>1. j \in DOMAIN resp
    <3>1. j # last BY <1>4, <1>11
    <3>2. QED BY <1>5, <3>1
  <2>2. CASE k = last
    <3>1. resp[j].entry.seg < n BY <1>1, <1>10, <2>1
    <3>2. QED BY <1>4, <1>7, <2>1, <2>2, <3>1
  <2>3. CASE k \in DOMAIN resp
    BY <1>4, <1>11, <2>1, <2>3 DEF Shows
  <2>4. QED BY <1>5, <2>2, <2>3
<1>12. {r[k].entry.seg : k \in DOMAIN r} =
          {g \in 0 .. n + 1 - 1 : Listed(d[g])}
  <2>1. {resp[k].entry.seg : k \in DOMAIN resp} =
           {g \in 0 .. n - 1 : Listed(d[g])}
    BY DEF Shows
  <2>2. QED BY <1>8, <1>9, <2>1
<1>13. \A j, k \in DOMAIN r : j < k => r[j].entry.seg < r[k].entry.seg
  BY <1>11
<1> DEFINE m == n + 1
<1>14. Shows(d, r, m)
  <2>1. {r[k].entry.seg : k \in DOMAIN r} =
           {g \in 0 .. m - 1 : Listed(d[g])}
    BY <1>12
  <2> HIDE DEF m
  <2>2. QED BY <1>13, <2>1, ShowsIs
<1>15. QED BY <1>14 DEF r, x

LEMMA ShowsUnlisted ==
    ASSUME NEW d, NEW n \in Nat, ~Listed(d[n]), NEW resp, Shows(d, resp, n)
    PROVE  Shows(d, resp, n + 1)
<1>1. \A g : g \in 0 .. n + 1 - 1 <=> g \in 0 .. n - 1 \/ g = n OBVIOUS
<1>2. {g \in 0 .. n + 1 - 1 : Listed(d[g])} =
         {g \in 0 .. n - 1 : Listed(d[g])}
  BY <1>1
<1>3. QED BY <1>2 DEF Shows

\* A list has read below its cursor.
Reached(s, d) ==
    /\ s.io = {} /\ s.dump_target_count = s.next_segment_id
    /\ s.dump_records_seen <= s.next_segment_id
    /\ Shows(d, s.admin_req.resp, s.dump_records_seen)

\* A list reads on, or is answered: with success when it has shown everything.
Goes(s, t, d) ==
    /\ t \in Context /\ t.next_segment_id = s.next_segment_id
    /\ \A r \in t.io : r.kind = "list"
    /\ Cursor(t, d)
    /\ \/ /\ t.io = {} /\ (s.admin_req.abandoned \/ t.admin_req.done)
          /\ t.admin_req.rc = "ok" =>
                Shows(d, t.admin_req.resp, t.next_segment_id)
       \/ t.io # {} /\ t.admin_req.done = s.admin_req.done

LEMMA FailsGoes ==
    ASSUME NEW s \in Context, NEW d, s.io = {}, NEW by \in Tickets
    PROVE  Goes(s, Fulfill(s, by, "EIO"), d)
<1> DEFINE t == Fulfill(s, by, "EIO")
<1>1. "EIO" \in Results BY DEF Results
<1>2. t \in Context /\ Rest(s, t) /\ t.io = s.io /\ Answered(s, by, "EIO", t)
  BY <1>1, FulfillType
<1> HIDE DEF t
<1>3. QED BY <1>2 DEF Goes, Rest, Answered, Cursor, t

LEMMA ListNextGoes ==
    ASSUME NEW s \in Context, NEW d, Reached(s, d), NEW by \in Tickets,
           NEW refused \in BOOLEAN
    PROVE  Goes(s, ListNext(s, by, refused), d)
<1> DEFINE c == s.dump_records_seen
           n == s.next_segment_id
<1>1. c \in Nat /\ n \in Nat /\ c <= n /\ s.dump_target_count = n /\ s.io = {}
  BY DEF Context, Reached
<1>2. CASE c >= n
  <2> DEFINE t == Fulfill(s, by, "ok")
  <2>1. "ok" \in Results BY DEF Results
  <2>2. /\ t \in Context /\ Rest(s, t) /\ t.io = s.io
        /\ Answered(s, by, "ok", t)
    BY <2>1, FulfillType
  <2>3. ListNext(s, by, refused) = t BY <1>1, <1>2 DEF ListNext
  <2> HIDE DEF t
  <2>4. c = n BY <1>1, <1>2
  <2>5. Shows(d, s.admin_req.resp, n) BY <2>4 DEF Reached
  <2>6. Goes(s, t, d) BY <1>1, <2>2, <2>5 DEF Goes, Rest, Answered, Cursor
  <2>7. QED BY <2>3, <2>6
<1>3. CASE ~(c >= n) /\ refused
  BY <1>1, <1>3, FailsGoes DEF ListNext, Submit
<1>4. CASE ~(c >= n) /\ ~refused
  <2> DEFINE t == Submitted(s, "list", by, c)
             r == [kind |-> "list", by |-> by, at |-> c]
  <2>1. "list" \in Reads \cup Writes \cup Headers BY DEF Reads
  <2>2. /\ t \in Context /\ Rest(s, t) /\ t.io = s.io \cup {r}
        /\ t.admin_req = s.admin_req /\ r \in Io
    BY <1>1, <2>1, SubmittedType
  <2>3. r.kind = "list" /\ r.at = c OBVIOUS
  <2>4. ListNext(s, by, refused) = t
    BY <1>1, <1>4 DEF ListNext, Submit
  <2> HIDE DEF t, r
  <2>5. t.io = {r} /\ c < n BY <1>1, <1>4, <2>2
  <2>6. /\ t.dump_records_seen = c /\ t.dump_target_count = n
        /\ t.next_segment_id = n
    BY <1>1, <2>2 DEF Rest
  <2>7. Shows(d, t.admin_req.resp, c) BY <2>2 DEF Reached
  <2>8. Cursor(t, d) BY <2>3, <2>5, <2>6, <2>7 DEF Cursor
  <2>9. Goes(s, t, d) BY <2>2, <2>3, <2>5, <2>6, <2>8 DEF Goes
  <2>10. QED BY <2>4, <2>9
<1>5. QED BY <1>2, <1>3, <1>4

LEMMA GoesOn ==
    ASSUME NEW s, NEW t, NEW u, NEW d, Goes(t, u, d),
           t.next_segment_id = s.next_segment_id,
           t.admin_req.done = s.admin_req.done,
           t.admin_req.abandoned = s.admin_req.abandoned
    PROVE  Goes(s, u, d)
  BY DEF Goes

LEMMA ListGoes ==
    ASSUME NEW s \in Context, NEW d, s.io = {}, s.admin_req.resp = <<>>,
           NEW by \in Tickets, NEW refused \in BOOLEAN
    PROVE  Goes(s, List(s, by, refused), d)
<1> DEFINE t == [s EXCEPT !.dump_records_seen = 0,
                          !.dump_target_count = s.next_segment_id]
<1>1. /\ t \in Context /\ t.io = {} /\ t.admin_req = s.admin_req
      /\ t.dump_records_seen = 0 /\ t.dump_target_count = s.next_segment_id
      /\ t.next_segment_id = s.next_segment_id /\ s.next_segment_id \in Nat
  BY DEF Context
<1> HIDE DEF t
<1>2. Shows(d, t.admin_req.resp, 0) BY <1>1, ShowsNone
<1>3. 0 <= s.next_segment_id BY <1>1
<1>4. Reached(t, d) BY <1>1, <1>2, <1>3 DEF Reached
<1>5. Goes(t, ListNext(t, by, refused), d) BY <1>1, <1>4, ListNextGoes
<1>6. Goes(s, ListNext(t, by, refused), d) BY <1>1, <1>5, GoesOn
<1>7. QED BY <1>6 DEF List, t

\* A read brings the entry at the cursor.
LEMMA ListReadGoes ==
    ASSUME NEW s \in Context, NEW d \in [Slots -> Entry], Seated(d),
           s.io = {}, s.dump_target_count = s.next_segment_id,
           s.dump_records_seen \in Slots,
           s.dump_records_seen < s.next_segment_id,
           s.io_buf = d[s.dump_records_seen],
           Shows(d, s.admin_req.resp, s.dump_records_seen),
           NEW by \in Tickets, NEW refused \in BOOLEAN
    PROVE  Goes(s, ListRead(s, by, refused), d)
<1> DEFINE n == s.dump_records_seen
           q == s.admin_req
           a == Append(q.resp, [by |-> by, entry |-> s.io_buf])
           z == IF Listed(s.io_buf) THEN a ELSE q.resp
           p == [q EXCEPT !.resp = z]
           m == n + 1
           t == [s EXCEPT !.dump_records_seen = m, !.admin_req = p]
<1>1. /\ q \in Request /\ q.resp \in Seq([by : Tickets, entry : Entry])
      /\ s.io_buf \in Entry /\ n \in Nat /\ s.next_segment_id \in Nat
  BY DEF Context, Request
<1>2. Shows(d, z, n + 1)
  BY <1>1, ShowsListed, ShowsUnlisted
<1>3. a \in Seq([by : Tickets, entry : Entry]) BY <1>1
<1>4. z \in Seq([by : Tickets, entry : Entry]) BY <1>1, <1>3
<1>5. ListRead(s, by, refused) = ListNext(t, by, refused)
  BY DEF ListRead, Context, Request
<1> HIDE DEF a, z
<1>6. /\ p \in Request /\ p.resp = z /\ p.done = q.done
      /\ p.abandoned = q.abandoned
  BY <1>1, <1>4 DEF Request
<1> HIDE DEF p
<1>7. m \in Nat BY <1>1
<1> HIDE DEF m
<1>8. /\ t \in Context /\ t.io = {} /\ t.admin_req = p
      /\ t.dump_records_seen = m
      /\ t.dump_target_count = s.next_segment_id
      /\ t.next_segment_id = s.next_segment_id
  BY <1>6, <1>7 DEF Context
<1> HIDE DEF t
<1>9. m <= s.next_segment_id BY <1>1 DEF m
<1>10. Reached(t, d) BY <1>2, <1>6, <1>8, <1>9 DEF Reached, m
<1>11. Goes(t, ListNext(t, by, refused), d) BY <1>8, <1>10, ListNextGoes
<1>12. Goes(s, ListNext(t, by, refused), d)
  BY <1>6, <1>8, <1>11, GoesOn
<1>13. QED BY <1>5, <1>12

\* The web thread neither waits for a list nor sends one.
Aside(w) == ~(w.pc \in {"wait", "reply"} /\ w.op = "list")

LEMMA AsideLister ==
    ASSUME NEW t, NEW w, NEW d, NoList(t), Aside(w)
    PROVE  Lister(t, <<>>, w, d)
  BY DEF NoList, Aside, Lister, Queued, Cursor, Reading, Complete

LEMMA GoesLister ==
    ASSUME NEW s, NEW t, NEW w, NEW d, Slot(s, w), Held(s, w.call),
           Counted(s), Goes(s, t, d)
    PROVE  Counted(t) /\ Lister(t, <<>>, w, d)
<1>1. Counted(t) BY DEF Goes, Counted
<1>2. Queued(t, <<>>, w) /\ Cursor(t, d) BY DEF Goes, Queued
<1>3. CASE /\ t.io = {} /\ (s.admin_req.abandoned \/ t.admin_req.done)
           /\ t.admin_req.rc = "ok" =>
                 Shows(d, t.admin_req.resp, t.next_segment_id)
  <2>1. Reading(t, <<>>, w) BY <1>3 DEF Reading, Slot
  <2>2. Complete(t, w, d) BY <1>3 DEF Complete
  <2>3. QED BY <1>1, <1>2, <2>1, <2>2 DEF Lister
<1>4. CASE t.io # {} /\ t.admin_req.done = s.admin_req.done
  <2>1. ~NoList(t) BY <1>4 DEF Goes, NoList
  <2>2. Reading(t, <<>>, w) BY <2>1 DEF Reading
  <2>3. Complete(t, w, d) BY <1>4 DEF Complete, Held
  <2>4. QED BY <1>1, <1>2, <2>2, <2>3 DEF Lister
<1>5. QED BY <1>3, <1>4 DEF Goes

\* What says nothing to the web thread changes no list.
LEMMA SilentLister ==
    ASSUME NEW s, NEW t, NEW m, NEW w, NEW d, NoList(s), Passes(s, t),
           t.admin_req = s.admin_req, Lister(s, m, w, d)
    PROVE  Lister(t, m, w, d)
<1>1. NoList(t) BY DEF NoList, Passes
<1>2. Reading(t, m, w) BY DEF Reading, Lister
<1>3. QED
  BY <1>1, <1>2 DEF Lister, Queued, Cursor, Complete, NoList, Passes

\* A call that is being dispatched or served is the last one made, and the
\* web thread does not wait for a list unless one is read.
LEMMA HeldAside ==
    ASSUME NEW s, NEW w, NEW d, Slot(s, w), Held(s, w.call),
           Lister(s, <<>>, w, d), NoList(s)
    PROVE  Aside(w)
  BY DEF Slot, Held, Lister, Reading, Aside

LEMMA DispatchLists ==
    ASSUME TypeInv, Serial, Listing, Dispatch
    PROVE  Listing'
<1> DEFINE c == web.call
           op == ctx.admin_req.op
<1>1. PICK drained \in BOOLEAN, refused \in BOOLEAN :
         ctx' = Dispatched(ctx, Head(msgs), drained, refused)
  BY DEF Dispatch
<1>2. /\ ctx \in Context /\ msgs \in Seq(Tickets) /\ c \in Tickets
      /\ op \in AdminOps
  BY DEF TypeInv, TypeOK, Web, Context, Request
<1>3. /\ ctx.up /\ msgs # <<>> /\ msgs' = Tail(msgs) /\ web' = web
      /\ toc' = toc
      /\ Slot(ctx, web) /\ Phase(ctx, msgs, c)
  BY DEF Dispatch, Serial
<1>4. msgs = <<c>> /\ Held(ctx, c)
  BY <1>3 DEF Phase, Idle, Sent, Serving, Draining, TearingDown
<1>5. Head(msgs) = c /\ msgs' = <<>> BY <1>3, <1>4
<1>6. ctx' = Dispatched(ctx, c, drained, refused) BY <1>1, <1>5
<1>7. /\ Seated(toc) /\ Counted(ctx) /\ Lister(ctx, msgs, web, toc)
      /\ ctx.admin_req.resp = <<>>
      /\ web.pc = "wait" /\ web.op = "list" => op = "list"
  BY <1>3 DEF Listing, Lister, Queued
<1>8. web.pc # "reply" BY <1>3, <1>4 DEF Held, Slot
<1>9. ASSUME Counted(ctx'), Lister(ctx', <<>>, web, toc) PROVE Listing'
  BY <1>3, <1>5, <1>7, <1>9 DEF Listing
<1>10. CASE Sent(ctx, msgs, c) /\ op = "list"
  <2>1. ctx.io = {} /\ ~ctx.shutting_down BY <1>10 DEF Sent, Calm
  <2>2. ctx' = List(ctx, c, refused) BY <1>6, <1>10, <2>1 DEF Dispatched
  <2>3. Goes(ctx, ctx', toc) BY <1>2, <1>7, <2>1, <2>2, ListGoes
  <2>4. Counted(ctx') /\ Lister(ctx', <<>>, web, toc)
    BY <1>3, <1>4, <1>7, <2>3, GoesLister
  <2>5. QED BY <1>9, <2>4
<1>11. CASE Sent(ctx, msgs, c) /\ op # "list"
  <2>1. ctx.io = {} BY <1>11 DEF Sent
  <2>2. Counted(ctx') /\ NoList(ctx')
    BY <1>2, <1>6, <1>7, <1>11, <2>1, DispatchedCounts
  <2>3. Aside(web) BY <1>7, <1>8, <1>11 DEF Aside
  <2>4. Lister(ctx', <<>>, web, toc) BY <2>2, <2>3, AsideLister
  <2>5. QED BY <1>9, <2>2, <2>4
<1>12. CASE TearingDown(ctx, msgs, c)
  <2>1. ctx.shutting_down /\ ctx.recording /\ ctx.stopping
    BY <1>12 DEF TearingDown, Ending
  <2>2. NoList(ctx) BY <1>12 DEF TearingDown, NoList, Finalizing
  <2>3. CASE op = "stop"
    <3>1. ctx' = ctx
      BY <1>6, <2>1, <2>3 DEF Dispatched, Stop, StopRecording
    <3>2. Aside(web) BY <1>7, <1>8, <2>3 DEF Aside
    <3>3. Lister(ctx', <<>>, web, toc) BY <2>2, <3>1, <3>2, AsideLister
    <3>4. QED BY <1>7, <1>9, <3>1, <3>3
  <2>4. CASE op # "stop"
    <3>1. ctx' = Fulfill(ctx, c, "ESHUTDOWN")
      BY <1>6, <2>1, <2>4 DEF Dispatched
    <3>2. "ESHUTDOWN" \in Results BY DEF Results
    <3>3. Passes(ctx, ctx') BY <1>2, <3>1, <3>2, FulfillPasses
    <3>4. Answered(ctx, c, "ESHUTDOWN", ctx')
      BY <1>2, <3>1, <3>2, FulfillType
    <3>5. Counted(ctx') /\ NoList(ctx')
      BY <1>7, <2>2, <3>3, PassesCounted
    <3>6. Reading(ctx', <<>>, web) BY <1>3, <3>4 DEF Reading, Answered, Slot
    <3>7. Lister(ctx', <<>>, web, toc)
      BY <3>4, <3>5, <3>6
         DEF Lister, Queued, Cursor, Complete, NoList, Answered
    <3>8. QED BY <1>9, <3>5, <3>7
  <2>5. QED BY <2>3, <2>4
<1>13. QED
  BY <1>3, <1>4, <1>10, <1>11, <1>12 DEF Phase, Idle, Serving, Draining

\* A write puts an entry where it belongs.
LEMMA IoDoneSeats ==
    ASSUME TypeInv, Serial, Seated(toc), IoDone
    PROVE  Seated(toc')
<1>1. PICK t \in ctx.io, ok \in BOOLEAN :
         toc' = IF ok /\ t.kind \in Writes
                THEN [toc EXCEPT ![t.at] = ctx.io_buf] ELSE toc
  BY DEF IoDone
<1>2. Apt(ctx, t) BY Completing DEF IoDone
<1>3. toc \in [Slots -> Entry] BY DEF TypeInv, TypeOK
<1>4. CASE toc' = toc BY <1>4
<1>5. CASE t.kind \in Writes /\ toc' = [toc EXCEPT ![t.at] = ctx.io_buf]
  <2>1. Listed(ctx.io_buf) => ctx.io_buf.seg = t.at
    BY <1>2, <1>5 DEF Apt, Writes, Listed, FinalizedEntry
  <2>2. ASSUME NEW g \in Slots, Listed(toc'[g]) PROVE toc'[g].seg = g
    <3>1. CASE g = t.at
      <4>1. toc'[g] = ctx.io_buf BY <1>3, <1>5, <3>1
      <4>2. QED BY <2>1, <2>2, <3>1, <4>1
    <3>2. CASE g # t.at
      <4>1. toc'[g] = toc[g] BY <1>3, <1>5, <3>2
      <4>2. QED BY <2>2, <4>1 DEF Seated
    <3>3. QED BY <3>1, <3>2
  <2>3. QED BY <2>2 DEF Seated
<1>6. QED BY <1>1, <1>4, <1>5

LEMMA IoDoneLists ==
    ASSUME TypeInv, Serial, Listing, IoDone
    PROVE  Listing'
<1> DEFINE c == web.call
<1>1. PICK t \in ctx.io, ok \in BOOLEAN, refused \in BOOLEAN :
         /\ ctx' = Continued(Finds(t, ok), t, ok, refused)
         /\ toc' = IF ok /\ t.kind \in Writes
                   THEN [toc EXCEPT ![t.at] = ctx.io_buf] ELSE toc
  BY DEF IoDone, Finds
<1> DEFINE s == Finds(t, ok)
<1>2. /\ ctx.up /\ msgs' = msgs /\ web' = web
      /\ Slot(ctx, web) /\ Phase(ctx, msgs, c)
  BY DEF IoDone, Serial
<1>3. /\ s \in Context /\ t \in Io /\ s.io = ctx.io \ {t}
      /\ s.admin_req = ctx.admin_req /\ Untouched(ctx, s)
      /\ s.next_segment_id = ctx.next_segment_id
      /\ s.dump_records_seen = ctx.dump_records_seen
      /\ s.dump_target_count = ctx.dump_target_count
      /\ s.io_buf = IF ok /\ t.kind \in Reads THEN BlockRead(t)
                    ELSE ctx.io_buf
  BY FindsType DEF TypeInv
<1>4. ctx.io = {t} BY <1>2, Completing
<1>5. ctx' = Continued(s, t, ok, refused) /\ s.io = {} BY <1>1, <1>3, <1>4
<1> HIDE DEF s
<1>6. /\ Seated(toc) /\ Counted(ctx) /\ Lister(ctx, msgs, web, toc)
      /\ toc \in [Slots -> Entry]
  BY <1>2 DEF Listing, TypeInv, TypeOK
<1>7. Seated(toc') BY <1>6, IoDoneSeats
<1>8. /\ s.next_segment_id <= SegmentSlots
      /\ t.kind = "claimToc" => s.next_segment_id < SegmentSlots
  BY <1>3, <1>6 DEF Counted
<1>9. t.by \in Tickets BY <1>3 DEF Io
<1>10. CASE Serving(ctx, msgs, c) /\ t.kind = "list"
  <2>1. msgs = <<>> /\ Held(ctx, c) BY <1>10 DEF Serving
  <2>2. toc' = toc BY <1>1, <1>10 DEF Writes
  <2>3. Slot(s, web) /\ Held(s, c) /\ Counted(s)
    BY <1>2, <1>3, <1>5, <1>8, <2>1 DEF Slot, Held, Counted
  <2>4. CASE ~ok
    <3>1. ctx' = Fulfill(s, t.by, "EIO")
      BY <1>5, <1>10, <2>4 DEF Continued
    <3>2. Goes(s, ctx', toc) BY <1>3, <1>5, <1>9, <3>1, FailsGoes
    <3>3. Counted(ctx') /\ Lister(ctx', <<>>, web, toc)
      BY <2>3, <3>2, GoesLister
    <3>4. QED BY <1>2, <1>7, <2>1, <2>2, <3>3 DEF Listing
  <2>5. CASE ok
    <3>1. ctx' = ListRead(s, t.by, refused)
      BY <1>5, <1>10, <2>5 DEF Continued, Served
    <3>2. /\ t.at = s.dump_records_seen /\ t.at < s.next_segment_id
          /\ s.dump_target_count = s.next_segment_id
          /\ Shows(toc, s.admin_req.resp, t.at)
      BY <1>3, <1>6, <1>10 DEF Lister, Cursor
    <3>3. t.at \in Slots
      <4>1. t.at \in Nat /\ s.next_segment_id \in Nat /\ SegmentSlots \in Nat
        BY <1>3, BridgeAssumption DEF Io, Context
      <4>2. QED BY <1>8, <3>2, <4>1 DEF Slots
    <3>4. s.io_buf = toc[t.at] BY <1>3, <1>10, <2>5, <3>3 DEF Reads, BlockRead
    <3>5. Goes(s, ctx', toc)
      BY <1>3, <1>5, <1>6, <1>9, <3>1, <3>2, <3>3, <3>4, ListReadGoes
    <3>6. Counted(ctx') /\ Lister(ctx', <<>>, web, toc)
      BY <2>3, <3>5, GoesLister
    <3>7. QED BY <1>2, <1>7, <2>1, <2>2, <3>6 DEF Listing
  <2>6. QED BY <2>4, <2>5
<1>11. CASE Serving(ctx, msgs, c) /\ t.kind # "list"
  <2>1. msgs = <<>> /\ Held(ctx, c) BY <1>11 DEF Serving
  <2>2. NoList(ctx) BY <1>4, <1>11 DEF NoList
  <2>3. Aside(web) BY <1>2, <1>6, <2>1, <2>2, HeldAside
  <2>4. Counted(ctx') /\ NoList(ctx')
    BY <1>3, <1>5, <1>8, <1>11, ContinuedCounts
  <2>5. Lister(ctx', <<>>, web, toc') BY <2>3, <2>4, AsideLister
  <2>6. QED BY <1>2, <1>7, <2>1, <2>4, <2>5 DEF Listing
<1>12. CASE TearingDown(ctx, msgs, c)
  <2>1. t.kind \in Finalizing /\ s.shutting_down
    BY <1>3, <1>4, <1>12 DEF TearingDown, Untouched
  <2>2. t.kind # "list" BY <2>1 DEF Finalizing
  <2>3. Counted(ctx') /\ NoList(ctx')
    BY <1>3, <1>5, <1>8, <2>2, ContinuedCounts
  <2>4. CASE t.kind = "finHdr"
    <3>1. ctx' = FinalizeHeaderDone(s, t.by, refused)
      BY <1>5, <2>4 DEF Continued
    <3>2. Passes(s, ctx') /\ Silent(s, ctx')
      BY <1>3, <1>9, <3>1, FinalizeHeaderDonePasses
    <3>3. toc' = toc BY <1>1, <2>4 DEF Writes
    <3>4. NoList(ctx) BY <1>4, <2>2 DEF NoList
    <3>5. Passes(ctx, ctx') BY <1>3, <1>5, <3>2 DEF Passes
    <3>6. ctx'.up => ctx'.admin_req = ctx.admin_req
      BY <1>3, <2>1, <3>2 DEF Silent
    <3>7. ctx'.up => Lister(ctx', msgs, web, toc)
      BY <1>6, <3>4, <3>5, <3>6, SilentLister
    <3>8. QED BY <1>2, <1>7, <2>3, <3>3, <3>7 DEF Listing
  <2>5. CASE t.kind = "finToc"
    <3>1. ctx' = FinalizeTocDone(s, t.by, ok)
      BY <1>5, <2>5 DEF Continued
    <3>2. ~ctx'.up BY <1>3, <1>9, <2>1, <3>1, FinalizeTocDonePasses
    <3>3. QED BY <1>7, <2>3, <3>2 DEF Listing
  <2>6. QED BY <2>1, <2>4, <2>5 DEF Finalizing
<1>13. QED
  BY <1>2, <1>4, <1>10, <1>11, <1>12 DEF Phase, Idle, Sent, Draining

LEMMA DrainedLists ==
    ASSUME TypeInv, Serial, Listing, Drained
    PROVE  Listing'
<1> DEFINE c == web.call
           s == [ctx EXCEPT !.draining = FALSE]
<1>1. PICK refused \in BOOLEAN :
         ctx' = FinalizeSegment(s, ctx.stopped_by, refused)
  BY DEF Drained
<1>2. ctx \in Context BY DEF TypeInv, TypeOK
<1>3. /\ ctx.up /\ ctx.draining /\ msgs' = msgs /\ web' = web /\ toc' = toc
      /\ Slot(ctx, web) /\ Phase(ctx, msgs, c)
  BY DEF Drained, Serial
<1>4. /\ s \in Context /\ s.io = ctx.io
      /\ s.next_segment_id = ctx.next_segment_id
      /\ s.shutting_down = ctx.shutting_down
      /\ s.admin_req = ctx.admin_req /\ ctx.stopped_by \in Tickets
  BY <1>2 DEF Context
<1> HIDE DEF s
<1>5. Passes(s, ctx') /\ Silent(s, ctx')
  BY <1>1, <1>4, FinalizeSegmentPasses
<1>6. /\ Seated(toc) /\ Counted(ctx) /\ Lister(ctx, msgs, web, toc)
  BY <1>3 DEF Listing
<1>7. Passes(ctx, ctx') BY <1>4, <1>5, PassesOn
<1>8. Draining(ctx, msgs, c) \/ TearingDown(ctx, msgs, c)
  BY <1>3 DEF Phase, Idle, Sent, Serving, Calm
<1>9. NoList(ctx)
  BY <1>8 DEF Draining, TearingDown, NoList, Finalizing
<1>10. Counted(ctx') /\ NoList(ctx') BY <1>6, <1>7, <1>9, PassesCounted
<1>11. ctx'.up => Lister(ctx', msgs, web, toc)
  <2>1. CASE Draining(ctx, msgs, c)
    <3>1. msgs = <<>> /\ Held(ctx, c) BY <2>1 DEF Draining
    <3>2. Aside(web) BY <1>3, <1>6, <1>9, <3>1, HeldAside
    <3>3. QED BY <1>10, <3>1, <3>2, AsideLister
  <2>2. CASE TearingDown(ctx, msgs, c)
    <3>1. ctx'.up => ctx'.admin_req = ctx.admin_req
      BY <1>4, <1>5, <2>2 DEF Silent, TearingDown
    <3>2. QED BY <1>6, <1>7, <1>9, <3>1, SilentLister
  <2>3. QED BY <1>8, <2>1, <2>2
<1>12. QED BY <1>3, <1>6, <1>10, <1>11 DEF Listing

LEMMA ShutdownLists ==
    ASSUME TypeInv, Listing, Shutdown, Overlap = FALSE
    PROVE  Listing'
<1> DEFINE s == [ctx EXCEPT !.shutting_down = TRUE]
           v == [s EXCEPT !.up = FALSE]
<1>1. PICK drained \in BOOLEAN, refused \in BOOLEAN :
         ctx' = IF s.recording THEN StopRecording(s, 0, drained, refused)
                ELSE v
  BY DEF Shutdown
<1>2. ctx \in Context BY DEF TypeInv, TypeOK
<1>3. ctx.up /\ ctx.io = {} /\ msgs' = msgs /\ web' = web /\ toc' = toc
  BY DEF Shutdown
<1>4. /\ s \in Context /\ s.io = {} /\ s.shutting_down
      /\ s.next_segment_id = ctx.next_segment_id
      /\ s.admin_req = ctx.admin_req
  BY <1>2, <1>3 DEF Context
<1> HIDE DEF s
<1>5. /\ v \in Context /\ ~v.up /\ v.io = {}
      /\ v.next_segment_id = s.next_segment_id
  BY <1>4 DEF Context
<1> HIDE DEF v
<1>6. Passes(s, v) /\ Silent(s, v) BY <1>5 DEF Passes, Silent
<1>7. 0 \in Tickets BY BridgeAssumption DEF Tickets
<1>8. Passes(s, ctx') /\ Silent(s, ctx')
  BY <1>1, <1>4, <1>6, <1>7, StopRecordingPasses
<1>9. Passes(ctx, ctx') BY <1>3, <1>4, <1>8, PassesOn
<1>10. Seated(toc) /\ Counted(ctx) /\ Lister(ctx, msgs, web, toc)
  BY <1>3 DEF Listing
<1>11. NoList(ctx) BY <1>3 DEF NoList
<1>12. Counted(ctx') BY <1>9, <1>10, <1>11, PassesCounted
<1>13. ctx'.up => ctx'.admin_req = ctx.admin_req
  BY <1>4, <1>8 DEF Silent
<1>14. ctx'.up => Lister(ctx', msgs, web, toc)
  BY <1>9, <1>10, <1>11, <1>13, SilentLister
<1>15. QED BY <1>3, <1>10, <1>12, <1>14 DEF Listing

\* The web thread ends a wait, or goes on to its next connection.
LEMMA WebLister ==
    ASSUME NEW s, NEW t, NEW m, NEW w, NEW x, NEW d,
           Rest(s, t), t.io = s.io, t.admin_req.resp = s.admin_req.resp,
           x.pc # "wait",
           x.pc = "reply" => /\ w.pc = "wait" /\ x.op = w.op
                             /\ t.admin_req.done = s.admin_req.done
                             /\ t.admin_req.rc = s.admin_req.rc,
           Lister(s, m, w, d)
    PROVE  Lister(t, m, x, d)
<1>1. Queued(t, m, x) BY DEF Lister, Queued
<1>2. Cursor(t, d) BY DEF Lister, Cursor, Rest
<1>3. Reading(t, m, x) BY DEF Reading
<1>4. Complete(t, x, d) BY DEF Lister, Complete, Rest
<1>5. QED BY <1>1, <1>2, <1>3, <1>4 DEF Lister

LEMMA WebThreadLists ==
    ASSUME TypeInv, Serial, Listing, WebThread
    PROVE  Listing'
<1>1. /\ ctx \in Context /\ web \in Web
      /\ ctx.up => Phase(ctx, msgs, web.call)
  BY DEF TypeInv, TypeOK, Serial
<1>2. Rest(ctx, ctx') /\ ctx'.io = ctx.io /\ toc' = toc BY WebThreadRests
<1>3. Seated(toc') /\ Counted(ctx') BY <1>2 DEF Listing, Counted, Rest
<1>4. ASSUME ctx.up => Lister(ctx', msgs', web', toc) PROVE Listing'
  BY <1>2, <1>3, <1>4 DEF Listing, Rest
<1>5. ctx.up => Lister(ctx, msgs, web, toc) BY DEF Listing
<1>6. ASSUME NEW q \in Request, ctx' = [ctx EXCEPT !.admin_req = q]
      PROVE  ctx'.admin_req = q
  BY <1>1, <1>6, RequestSized
<1>7. CASE Received \/ NoCall
  <2>1. ctx'.admin_req.resp = ctx.admin_req.resp
    BY <1>1, <1>6, <1>7, ReceivedSets, NoCallSets
  <2>2. web'.pc \in {"call", "send"} /\ msgs' = msgs
    BY <1>1, <1>7 DEF Received, NoCall, Web
  <2>3. QED BY <1>2, <1>4, <1>5, <2>1, <2>2, WebLister
<1>8. CASE Call /\ ctx.admin_req.busy
  <2>1. /\ web'.pc = "send" /\ msgs' = msgs /\ ctx' = ctx
    BY <1>1, <1>8, CallTakes DEF Refused, Web
  <2>2. QED BY <1>2, <1>4, <1>5, <2>1, WebLister
<1>9. CASE Call /\ ~ctx.admin_req.busy
  <2>1. /\ web' = [web EXCEPT !.pc = "wait", !.call = web.call + 1,
                              !.op = ctx.admin_req.op]
        /\ msgs' = Append(msgs, web.call + 1)
        /\ \E q \in Request :
              /\ ctx' = [ctx EXCEPT !.admin_req = q]
              /\ q.busy /\ ~q.done /\ ~q.abandoned
              /\ q.op = ctx.admin_req.op /\ q.resp = <<>>
    BY <1>1, <1>9, CallTakes
  <2>2. /\ ~ctx'.admin_req.done /\ ctx'.admin_req.op = ctx.admin_req.op
        /\ ctx'.admin_req.resp = <<>>
    BY <1>6, <2>1
  <2>3. web'.op = ctx.admin_req.op /\ web'.pc = "wait"
    BY <1>1, <2>1 DEF Web
  <2>4. ASSUME ctx.up PROVE Lister(ctx', msgs', web', toc)
    <3>1. ~Held(ctx, web.call) BY <1>9 DEF Held
    <3>2. msgs = <<>> /\ NoList(ctx)
      BY <1>1, <2>4, <3>1
         DEF Phase, Idle, Sent, Serving, Draining, TearingDown, NoList,
             Finalizing
    <3>3. msgs' # <<>>
      <4>1. msgs' = <<web.call + 1>> BY <2>1, <3>2
      <4>2. QED BY <4>1
    <3>4. Queued(ctx', msgs', web') BY <2>2, <2>3 DEF Queued
    <3>5. Cursor(ctx', toc) BY <1>2, <3>2 DEF Cursor, NoList
    <3>6. Reading(ctx', msgs', web') BY <3>3 DEF Reading
    <3>7. Complete(ctx', web', toc) BY <2>2 DEF Complete
    <3>8. QED BY <3>4, <3>5, <3>6, <3>7 DEF Lister
  <2>5. QED BY <1>4, <2>4
<1>10. CASE Woken
  <2>1. /\ ctx'.admin_req.resp = ctx.admin_req.resp
        /\ ctx'.admin_req.done = ctx.admin_req.done
        /\ ctx'.admin_req.rc = ctx.admin_req.rc
    BY <1>1, <1>6, <1>10, WokenSets
  <2>2. /\ web'.pc = "reply" /\ web'.op = web.op /\ web.pc = "wait"
        /\ msgs' = msgs
    BY <1>1, <1>10 DEF Woken, Web
  <2>3. QED BY <1>2, <1>4, <1>5, <2>1, <2>2, WebLister
<1>11. CASE TimedOut
  <2>1. ctx'.admin_req.resp = ctx.admin_req.resp
    BY <1>1, <1>6, <1>11, TimedOutSets
  <2>2. web'.pc = "send" /\ msgs' = msgs BY <1>1, <1>11 DEF TimedOut, Web
  <2>3. QED BY <1>2, <1>4, <1>5, <2>1, <2>2, WebLister
<1>12. CASE Accept \/ Replied \/ Leave
  <2>1. /\ web'.pc \in {"accept", "recv", "left"} /\ msgs' = msgs
        /\ ctx' = ctx
    BY <1>1, <1>12 DEF Accept, Replied, Leave, Web
  <2>2. QED BY <1>2, <1>4, <1>5, <2>1, WebLister
<1>13. QED
  BY <1>7, <1>8, <1>9, <1>10, <1>11, <1>12 DEF WebThread

LEMMA NextListing ==
    ASSUME Overlap = FALSE
    PROVE  TypeInv /\ Serial /\ Listing /\ [Next]_vars => Listing'
<1> SUFFICES ASSUME TypeInv, Serial, Listing, [Next]_vars
             PROVE  Listing'
  OBVIOUS
<1>1. CASE WebThread BY <1>1, WebThreadLists
<1>2. CASE Dispatch BY <1>2, DispatchLists
<1>3. CASE IoDone BY <1>3, IoDoneLists
<1>4. CASE Drained BY <1>4, DrainedLists
<1>5. CASE AutoStop BY <1>5 DEF AutoStop
<1>6. CASE Shutdown BY <1>6, ShutdownLists
<1>7. CASE UNCHANGED vars
  BY <1>7 DEF vars, Listing, Seated, Counted, Lister, Queued, Cursor, Reading,
     Complete, NoList, Shows
<1>8. QED
  BY <1>1, <1>2, <1>3, <1>4, <1>5, <1>6, <1>7 DEF Next, WebThread

LEMMA InitListing == Init => Listing
<1> SUFFICES ASSUME Init PROVE Listing
  OBVIOUS
<1>1. /\ toc = [g \in Slots |-> FreeEntry] /\ msgs = <<>>
      /\ web.pc = "accept" /\ ctx.io = {} /\ ctx.next_segment_id = 0
  BY DEF Init
<1>2. Seated(toc) BY <1>1 DEF Seated, Listed, FreeEntry
<1>3. Counted(ctx) BY <1>1, BridgeAssumption DEF Counted
<1>4. NoList(ctx) /\ Aside(web) BY <1>1 DEF NoList, Aside
<1>5. Lister(ctx, <<>>, web, toc) BY <1>4, AsideLister
<1>6. QED BY <1>1, <1>2, <1>3, <1>5 DEF Listing

\* A list that succeeds shows every claimed segment that is not deleted, each
\* once and in the order of the TOC: no claim, finalize, delete or format runs
\* between the reads of its entries, although each read is a turn of its own
\* of the reactor, and a list the web thread gave up on spoils no later one.
THEOREM ListsEverySegment ==
    ASSUME Overlap = FALSE
    PROVE  Spec => []ListIsComplete
<1>1. Serial /\ Listing => ListIsComplete
  <2> SUFFICES ASSUME Serial, Listing, ctx.up, web.pc = "reply",
                      web.op = "list", ctx.admin_req.rc = "ok"
               PROVE  Lists(ctx.admin_req.resp, ctx.next_segment_id)
    BY DEF ListIsComplete
  <2>1. ctx.admin_req.done BY DEF Serial, Slot
  <2>2. Shows(toc, ctx.admin_req.resp, ctx.next_segment_id)
    BY <2>1 DEF Listing, Lister, Complete
  <2>3. QED BY <2>2 DEF Shows, Lists
<1>2. QED
  BY <1>1, InitTypeInv, NextSized, InitSerial, NextSerial, InitListing,
     NextListing, PTL DEF Spec

==============================================================================
