-------------------------- MODULE Dashboard_proofs --------------------------
(***************************************************************************)
(* What the page shows while fetches are under way, and the write chunk    *)
(* size that is set on it: the format button comes back                    *)
(* (ButtonTellsFormat), and what is asked for is rounded to a chunk that   *)
(* fits its buffer, or not (module WriteChunk).                            *)
(*                                                                         *)
(* The inductive invariant adds to the types that at most one format is    *)
(* under way and that it has put the button's own label aside.             *)
(***************************************************************************)
EXTENDS Dashboard, WriteChunk, WellFoundedInduction, TLAPS

-----------------------------------------------------------------------------
(* The invariant *)

Urls == {"status", "segments", "start", "stop", "format", "chunk", "delete"}
Args == Nat \cup ChunkSizes

\* A chunk size that is sent, or shown, is one.
Fetch ==
    {f \in [url : Urls, arg : Args, with_deleted : BOOLEAN, orig_label : Labels,
            answered : BOOLEAN, result : {"", "ok", "error", "text", "none"},
            recording : BOOLEAN, write_chunk : {0} \cup ChunkSizes,
            rows : SUBSET Row] :
        /\ f.url = "chunk" => f.arg \in ChunkSizes
        /\ f.url = "status" /\ f.result = "ok" => f.write_chunk \in ChunkSizes}
Late == {f \in [url : Urls \cup {""}, arg : Args] :
            f.url = "chunk" => f.arg \in ChunkSizes}
Daemon == [recording : BOOLEAN, write_chunk : ChunkSizes, late : Late,
           segments : Seq({"open", "finalized", "deleted"})]

Typed ==
    /\ page \in Page /\ daemon \in Daemon
    /\ DOMAIN net \subseteq Kinds /\ net \in [DOMAIN net -> Fetch]
    /\ load \in [clicks : Nat, faults : Nat]

Formats == {k \in DOMAIN net : net[k].url = "format"}

\* No second format puts aside the label of the first.
Labelled ==
    /\ \A j, k \in Formats : j = k
    /\ \A k \in Formats : net[k].orig_label = "Quick format"
    /\ page.btn_format = "Formatting..." <=> Formats # {}

-----------------------------------------------------------------------------
(* Fetches *)

\* A set of numbers has a least one.
LEMMA LeastOf ==
    ASSUME NEW T \in SUBSET Nat, T # {}
    PROVE  \E m \in T : \A k \in T : m <= k
<1> DEFINE R == {ss \in Nat \X Nat : ss[1] < ss[2]}
<1>1. IsWellFoundedOn(R, Nat) BY NatLessThanWellFounded DEF OpToRel
<1>2. \A x, y \in Nat : <<y, x>> \in R <=> y < x OBVIOUS
<1> HIDE DEF R
<1>3. PICK m \in T : \A k \in T : ~(<<k, m>> \in R) BY <1>1, WFMin
<1>4. ASSUME NEW k \in T PROVE m <= k
  <2>1. m \in Nat /\ k \in Nat OBVIOUS
  <2>2. ~(k < m) BY <1>2, <1>3, <2>1
  <2>3. QED BY <2>1, <2>2
<1>5. QED BY <1>4

\* Fetch f takes the place k, which no other fetch has.
Sent(k, f) ==
    /\ DOMAIN net' = DOMAIN net \cup {k} /\ net' = [j \in DOMAIN net' |-> net'[j]]
    /\ net'[k] = f
    /\ \A j \in DOMAIN net : net'[j] = net[j]

\* A fetch that is sent finds such a place.
LEMMA SendIs ==
    ASSUME NEW kind, NEW url, NEW arg, NEW wd, Send(kind, url, arg, wd)
    PROVE  \E k \in Kinds \ DOMAIN net : Sent(k, Asked(url, arg, wd))
<1> DEFINE F == Free(kind)
           T == {j[2] : j \in F}
           k == CHOOSE j \in F : \A i \in F : j[2] <= i[2]
<1>1. F # {} /\ F \subseteq Kinds \ DOMAIN net BY DEF Send, Free
<1>2. T \in SUBSET Nat /\ T # {}
  <2>1. \A j \in Kinds : j[2] \in Nat
    <3>1. {Polls, Lists, Posts} \subseteq Nat BY DashboardAssumption
    <3>2. QED BY <3>1 DEF Kinds
  <2> HIDE DEF F
  <2>2. QED BY <1>1, <2>1
<1>3. PICK m \in T : \A i \in T : m <= i
  <2> HIDE DEF T
  <2>1. QED BY <1>2, LeastOf
<1>4. k \in F BY <1>3
<1>5. net' = [j \in DOMAIN net \cup {k} |->
                IF j = k THEN Asked(url, arg, wd) ELSE net[j]]
  BY DEF Send
<1>6. k \in Kinds \ DOMAIN net BY <1>1, <1>4
<1> DEFINE a == Asked(url, arg, wd)
<1> HIDE DEF k, F, a
<1>7. /\ DOMAIN net' = DOMAIN net \cup {k}
      /\ net' = [j \in DOMAIN net' |-> net'[j]] /\ net'[k] = a
      /\ \A j \in DOMAIN net : net'[j] = net[j]
  BY <1>5, <1>6 DEF a
<1>8. Sent(k, a) BY <1>7 DEF Sent
<1>9. QED BY <1>6, <1>8 DEF a

LEMMA AskedTyped ==
    ASSUME Typed, NEW url \in Urls, NEW arg \in Args, NEW wd \in BOOLEAN,
           url = "chunk" => arg \in ChunkSizes
    PROVE  LET f == Asked(url, arg, wd)
           IN  /\ f \in Fetch /\ f.url = url
               /\ f.orig_label = IF url = "format" THEN page.btn_format
                                 ELSE "Quick format"
<1> DEFINE l == IF url = "format" THEN page.btn_format ELSE "Quick format"
           f == Asked(url, arg, wd)
<1>1. l \in Labels BY DEF Typed, Page, Labels
<1>2. f = [url |-> url, arg |-> arg, with_deleted |-> wd, orig_label |-> l,
           answered |-> FALSE, result |-> "", recording |-> FALSE,
           write_chunk |-> 0, rows |-> {}]
  BY DEF Asked
<1> HIDE DEF l, f
<1>3. f \in Fetch /\ f.url = url /\ f.orig_label = l BY <1>1, <1>2 DEF Fetch
<1>4. QED BY <1>3 DEF f, l

\* One more fetch is under way.
LEMMA SendTyped ==
    ASSUME Typed, NEW kind, NEW url, NEW arg, NEW wd, Send(kind, url, arg, wd),
           Asked(url, arg, wd) \in Fetch
    PROVE  DOMAIN net' \subseteq Kinds /\ net' \in [DOMAIN net' -> Fetch]
<1>1. PICK k \in Kinds \ DOMAIN net : Sent(k, Asked(url, arg, wd)) BY SendIs
<1>2. Asked(url, arg, wd) \in Fetch /\ DOMAIN net \subseteq Kinds
      /\ \A j \in DOMAIN net : net[j] \in Fetch
  BY DEF Typed
<1>3. \A j \in DOMAIN net' : net'[j] \in Fetch BY <1>1, <1>2 DEF Sent
<1>4. QED BY <1>1, <1>2, <1>3 DEF Sent

LEMMA SendFormats ==
    ASSUME Typed, NEW kind, NEW url, NEW arg, NEW wd, Send(kind, url, arg, wd),
           Asked(url, arg, wd).url = url
    PROVE  /\ url # "format" =>
                Formats' = Formats
                /\ \A j \in Formats : net'[j] = net[j]
           /\ url = "format" =>
                \E k \in Kinds \ DOMAIN net :
                   /\ Formats' = Formats \cup {k}
                   /\ net'[k] = Asked(url, arg, wd)
                   /\ \A j \in Formats : net'[j] = net[j]
<1>1. PICK k \in Kinds \ DOMAIN net : Sent(k, Asked(url, arg, wd)) BY SendIs
<1>2. Asked(url, arg, wd).url = url OBVIOUS
<1>4. Formats' = {j \in DOMAIN net' : net'[j].url = "format"} BY DEF Formats
<1>5. Formats' = IF url = "format" THEN Formats \cup {k} ELSE Formats
  BY <1>1, <1>2, <1>4 DEF Formats, Sent
<1>6. \A j \in Formats : net'[j] = net[j] BY <1>1 DEF Formats, Sent
<1>7. net'[k] = Asked(url, arg, wd) BY <1>1 DEF Sent
<1>8. QED BY <1>1, <1>5, <1>6, <1>7

-----------------------------------------------------------------------------
(* What the daemon does *)

LEMMA SeqExcept ==
    ASSUME NEW S, NEW s \in Seq(S), NEW i, NEW v \in S
    PROVE  [s EXCEPT ![i] = v] \in Seq(S)
<1> DEFINE t == [s EXCEPT ![i] = v]
<1>1. Len(s) \in Nat /\ s \in [1 .. Len(s) -> S] OBVIOUS
<1>2. t \in [1 .. Len(s) -> S] BY <1>1
<1>3. QED BY <1>1, <1>2

LEMMA StoppedTyped ==
    ASSUME daemon \in Daemon
    PROVE  [daemon EXCEPT !.recording = FALSE,
               !.segments[Len(daemon.segments)] = "finalized"] \in Daemon
<1> DEFINE s == [daemon.segments EXCEPT ![Len(daemon.segments)] = "finalized"]
<1>1. s \in Seq({"open", "finalized", "deleted"}) BY SeqExcept DEF Daemon
<1> HIDE DEF s
<1>2. [daemon EXCEPT !.recording = FALSE, !.segments = s] \in Daemon
  BY <1>1 DEF Daemon
<1>3. daemon \in [recording : BOOLEAN, write_chunk : ChunkSizes, late : Late,
          segments : Seq({"open", "finalized", "deleted"})]
  BY DEF Daemon
<1>4. [daemon EXCEPT !.recording = FALSE,
          !.segments[Len(daemon.segments)] = "finalized"]
      = [daemon EXCEPT !.recording = FALSE, !.segments = s]
  BY <1>3 DEF s
<1>5. QED BY <1>2, <1>4

LEMMA DoneTyped ==
    ASSUME daemon \in Daemon, NEW f, f.url = "chunk" => f.arg \in ChunkSizes
    PROVE  Done(f) \in Daemon
<1> DEFINE S == {"open", "finalized", "deleted"}
<1>1. /\ daemon \in [recording : BOOLEAN, write_chunk : ChunkSizes, late : Late,
                     segments : Seq(S)]
      /\ daemon.segments \in Seq(S)
  BY DEF Daemon
<1>2. Append(daemon.segments, "open") \in Seq(S) BY <1>1
<1>4. \A i : [daemon.segments EXCEPT ![i] = "deleted"] \in Seq(S)
  BY <1>1, SeqExcept
<1>5. <<>> \in Seq(S) OBVIOUS
<1> HIDE DEF S
<1>6. CASE f.url = "start"
  <2>1. Done(f) = [daemon EXCEPT !.recording = TRUE,
                      !.segments = Append(daemon.segments, "open")]
    BY <1>6 DEF Done
  <2>2. QED BY <1>1, <1>2, <2>1 DEF Daemon, S
<1>7. CASE f.url = "stop"
  <2>1. Done(f) = [daemon EXCEPT !.recording = FALSE,
                      !.segments[Len(daemon.segments)] = "finalized"]
    BY <1>7 DEF Done
  <2>2. QED BY <2>1, StoppedTyped
<1>8. CASE f.url = "format"
  <2>1. Done(f) = [daemon EXCEPT !.segments = <<>>] BY <1>8 DEF Done
  <2>2. QED BY <1>1, <1>5, <2>1 DEF Daemon, S
<1>9. CASE f.url = "chunk"
  <2>1. Done(f) = [daemon EXCEPT !.write_chunk = f.arg] BY <1>9 DEF Done
  <2>2. QED BY <1>1, <1>9, <2>1 DEF Daemon, S
<1>10. CASE f.url = "delete"
  <2>1. Done(f) = [daemon EXCEPT
           !.segments = [daemon.segments EXCEPT ![f.arg + 1] = "deleted"]]
    BY <1>10, <1>1 DEF Done
  <2>2. QED BY <1>1, <1>4, <2>1 DEF Daemon, S
<1>11. CASE f.url \notin {"start", "stop", "format", "chunk", "delete"}
  <2>1. Done(f) = daemon BY <1>11 DEF Done
  <2>2. QED BY <1>1, <2>1 DEF Daemon, S
<1>12. QED BY <1>6, <1>7, <1>8, <1>9, <1>10, <1>11

\* Being late, and coming to an end with it, keep the daemon one.
LEMMA LateTyped ==
    ASSUME NEW d \in Daemon, NEW f \in Late
    PROVE  [d EXCEPT !.late = f] \in Daemon
BY DEF Daemon

-----------------------------------------------------------------------------
(* What an answer does *)

\* An answered fetch asks what it asked.
LEMMA AnsweredIs ==
    ASSUME Typed, NEW k \in DOMAIN net, NEW result \in {"ok", "error", "text", "none"},
           Answered(k, result)
    PROVE  /\ DOMAIN net' = DOMAIN net /\ net' \in [DOMAIN net -> Fetch]
           /\ \A j \in DOMAIN net : /\ net'[j].url = net[j].url
                                     /\ net'[j].orig_label = net[j].orig_label
<1> DEFINE f == net[k]
           r == f.url = "status" /\ result = "ok" /\ daemon.recording
           c == IF f.url = "status" /\ result = "ok" THEN daemon.write_chunk ELSE 0
           l == IF f.url = "segments" /\ result = "ok"
                THEN Listed(f.with_deleted) ELSE {}
           g == [f EXCEPT !.answered = TRUE, !.result = result, !.recording = r,
                          !.write_chunk = c, !.rows = l]
<1>1. net' = [net EXCEPT ![k] = g] BY DEF Answered
<1>2. f \in Fetch /\ net \in [DOMAIN net -> Fetch] BY DEF Typed
<1>3. r \in BOOLEAN OBVIOUS
<1>4. c \in {0} \cup ChunkSizes /\ (f.url = "status" /\ result = "ok" => c \in ChunkSizes)
  BY DEF Typed, Daemon
<1>5. l \in SUBSET Row BY DEF Listed
<1> HIDE DEF r, c, l, f
<1>6. g \in Fetch /\ g.url = f.url /\ g.orig_label = f.orig_label
  BY <1>2, <1>3, <1>4, <1>5 DEF Fetch
<1> HIDE DEF g
<1>7. QED BY <1>1, <1>2, <1>6 DEF f

\* What the page shows after an answer is what it can show.
LEMMA HandledTyped ==
    ASSUME page \in Page, NEW f \in Fetch
    PROVE  Handled(page, f) \in Page
<1>1. CASE f.url = "status" /\ f.result = "ok"
  <2>1. f.write_chunk \in ChunkSizes /\ f.recording \in BOOLEAN BY <1>1 DEF Fetch
  <2>2. Handled(page, f) = Update(page, f) BY <1>1 DEF Handled
  <2> DEFINE c == IF page.touched THEN page.in_chunk ELSE f.write_chunk
  <2>3. c \in ChunkSizes BY <2>1 DEF Page
  <2>4. Handled(page, f) =
           [page EXCEPT !.hstatus = "live", !.recording = f.recording,
               !.wt_chunk = f.write_chunk, !.format_disabled = f.recording,
               !.in_chunk = c]
    BY <2>2 DEF Update
  <2> HIDE DEF c
  <2>5. QED BY <2>1, <2>3, <2>4 DEF Page
<1>2. CASE f.url = "status" /\ f.result # "ok"
  <2>1. Handled(page, f) = [page EXCEPT !.hstatus = "connection lost"]
    BY <1>2 DEF Handled
  <2>2. QED BY <2>1 DEF Page
<1>3. CASE f.url = "segments" /\ f.result \in {"ok", "error"}
  <2> DEFINE r == IF f.result = "ok" THEN f.rows ELSE {}
             e == r = {}
  <2>1. r \in SUBSET Row /\ e \in BOOLEAN BY DEF Fetch
  <2>2. Handled(page, f) = [page EXCEPT !.rows = r, !.seg_empty = e]
    BY <1>3 DEF Handled, ShowSegments
  <2> HIDE DEF r, e
  <2>3. QED BY <2>1, <2>2 DEF Page
<1>4. CASE f.url = "segments" /\ f.result \notin {"ok", "error"}
  BY <1>4 DEF Handled
<1>5. CASE f.url \notin {"status", "segments"}
  <2>1. Handled(page, f) = Posted(page, f) BY <1>5 DEF Handled
  <2>2. CASE f.url = "chunk" /\ f.result \in {"ok", "text"}
    <3>1. Posted(page, f) = [page EXCEPT !.touched = FALSE]
      BY <2>2 DEF Posted
    <3>2. QED BY <2>1, <3>1 DEF Page
  <2>3. CASE f.url = "format"
    <3>1. Posted(page, f) = [page EXCEPT !.btn_format = f.orig_label,
                                !.format_disabled = page.recording]
      BY <2>3 DEF Posted
    <3>2. f.orig_label \in Labels BY DEF Fetch
    <3>3. QED BY <2>1, <3>1, <3>2 DEF Page
  <2>4. CASE f.url # "format" /\ ~(f.url = "chunk" /\ f.result \in {"ok", "text"})
    BY <2>1, <2>4 DEF Posted
  <2>5. QED BY <2>2, <2>3, <2>4
<1>6. QED BY <1>1, <1>2, <1>3, <1>4, <1>5

\* Only the answer to a format touches the format button's label.
LEMMA HandledLabel ==
    ASSUME page \in Page, NEW f \in Fetch
    PROVE  Handled(page, f).btn_format =
              IF f.url = "format" THEN f.orig_label ELSE page.btn_format
<1>1. CASE f.url = "status"
  BY <1>1 DEF Handled, Update, Page
<1>2. CASE f.url = "segments"
  BY <1>2 DEF Handled, ShowSegments, Page
<1>3. CASE f.url \notin {"status", "segments"}
  <2>1. Handled(page, f) = Posted(page, f) BY <1>3 DEF Handled
  <2>2. QED BY <2>1 DEF Posted, Page
<1>4. QED BY <1>1, <1>2, <1>3

-----------------------------------------------------------------------------
(* Every step keeps the types *)

LEMMA InitTyped ==
    ASSUME Init PROVE Typed /\ Labelled
<1> DEFINE chunk == CHOOSE c \in ChunkSizes : TRUE
<1>1. chunk \in ChunkSizes BY DashboardAssumption
<1>2. PICK n \in 0 .. SegmentSlots :
         /\ daemon = [recording |-> FALSE, write_chunk |-> chunk, late |-> Idle,
                      segments |-> [i \in 1 .. n |-> "finalized"]]
         /\ page = [hstatus |-> "", recording |-> FALSE, wt_chunk |-> chunk,
                    in_chunk |-> chunk, touched |-> FALSE, rows |-> {},
                    seg_empty |-> FALSE, show_deleted |-> FALSE,
                    btn_format |-> "Quick format", format_disabled |-> FALSE]
  BY DEF Init
<1> HIDE DEF chunk
<1>3. [i \in 1 .. n |-> "finalized"] \in Seq({"open", "finalized", "deleted"})
  <2>1. SegmentSlots \in Nat BY DashboardAssumption
  <2>2. n \in 0 .. SegmentSlots BY <1>2
  <2>4. n \in Nat BY <2>1, <2>2
  <2>3. QED BY <2>4
<1>4. Idle \in Late BY DEF Idle, Late, Args
<1>5. daemon \in Daemon BY <1>1, <1>2, <1>3, <1>4 DEF Daemon
<1>6. page \in Page BY <1>1, <1>2 DEF Page, Labels
<1>7. DOMAIN net = {} /\ net \in [DOMAIN net -> Fetch]
  <2>0. net = <<>> BY DEF Init
  <2>1. net \in Seq(Fetch) /\ Len(net) = 0 BY <2>0
  <2>2. net \in [1 .. Len(net) -> Fetch] /\ 1 .. Len(net) = {} BY <2>1
  <2>3. QED BY <2>2
<1>8. load \in [clicks : Nat, faults : Nat] BY DEF Init
<1>9. Typed BY <1>5, <1>6, <1>7, <1>8 DEF Typed
<1>10. Formats = {} BY <1>7 DEF Formats
<1>11. Labelled BY <1>2, <1>10 DEF Labelled
<1>12. QED BY <1>9, <1>11

LEMMA ClickTyped ==
    ASSUME Typed, Click
    PROVE  load' \in [clicks : Nat, faults : Nat] /\ daemon' = daemon
BY DEF Typed, Click

\* A fetch that is sent leaves the page's types to the page.
LEMMA SendKeeps ==
    ASSUME Typed, NEW kind, NEW url \in Urls, NEW arg \in Args, NEW wd \in BOOLEAN,
           url = "chunk" => arg \in ChunkSizes, Send(kind, url, arg, wd),
           daemon' = daemon, load' \in [clicks : Nat, faults : Nat],
           page' \in Page
    PROVE  Typed'
<1>1. Asked(url, arg, wd) \in Fetch BY AskedTyped DEF Typed
<1>2. DOMAIN net' \subseteq Kinds /\ net' \in [DOMAIN net' -> Fetch]
  BY <1>1, SendTyped DEF Typed
<1>3. QED BY <1>2 DEF Typed

LEMMA PollKeeps ==
    ASSUME Typed, Poll PROVE Typed' /\ page' = page
<1>1. Send("status", "status", 0, FALSE) /\ daemon' = daemon /\ page' = page
      /\ load' = load
  BY DEF Poll
<1>2. page' \in Page /\ load' \in [clicks : Nat, faults : Nat]
  BY <1>1 DEF Typed
<1>3. QED BY <1>1, <1>2, SendKeeps DEF Urls, Args

LEMMA LoadKeeps ==
    ASSUME Typed, LoadSegments PROVE Typed' /\ page' = page
<1>1. /\ Send("segments", "segments", 0, page.show_deleted) /\ daemon' = daemon
      /\ page' = page /\ load' = load
  BY DEF LoadSegments
<1>2. /\ page' \in Page /\ load' \in [clicks : Nat, faults : Nat]
      /\ page.show_deleted \in BOOLEAN
  BY <1>1 DEF Typed, Page
<1>3. QED BY <1>1, <1>2, SendKeeps DEF Urls, Args

LEMMA TypeKeeps ==
    ASSUME Typed, Type PROVE Typed'
<1>1. PICK chunk \in ChunkSizes :
         /\ Click /\ net' = net
         /\ page' = [page EXCEPT !.in_chunk = chunk, !.touched = TRUE]
  BY DEF Type
<1>2. page' \in Page BY <1>1 DEF Typed, Page
<1>3. QED BY <1>1, <1>2, ClickTyped DEF Typed

LEMMA SetChunkKeeps ==
    ASSUME Typed, SetChunk PROVE Typed'
<1>1. Click /\ Send("post", "chunk", page.in_chunk, FALSE) /\ page' = page
  BY DEF SetChunk
<1>2. page' \in Page BY <1>1 DEF Typed
<1>3. page.in_chunk \in ChunkSizes BY DEF Typed, Page
<1>4. daemon' = daemon /\ load' \in [clicks : Nat, faults : Nat]
  BY <1>1, ClickTyped
<1>5. QED BY <1>1, <1>2, <1>3, <1>4, SendKeeps DEF Urls, Args

LEMMA QuickFormatKeeps ==
    ASSUME Typed, QuickFormatClicked PROVE Typed'
<1>1. /\ Click /\ Send("post", "format", 0, FALSE)
      /\ page' = [page EXCEPT !.btn_format = "Formatting...", !.format_disabled = TRUE]
  BY DEF QuickFormatClicked
<1>2. page' \in Page BY <1>1 DEF Typed, Page, Labels
<1>3. daemon' = daemon /\ load' \in [clicks : Nat, faults : Nat]
  BY <1>1, ClickTyped
<1>4. QED BY <1>1, <1>2, <1>3, SendKeeps DEF Urls, Args

\* The buttons that leave the page to the answer.
LEMMA ButtonKeeps ==
    ASSUME Typed, StartClicked \/ StopClicked \/ DeleteClicked
    PROVE  Typed' /\ page' = page
<1>1. PICK url \in {"start", "stop", "delete"}, arg \in Args :
         Click /\ Send("post", url, arg, FALSE) /\ page' = page
  <2>1. CASE StartClicked BY <2>1 DEF StartClicked, Args
  <2>2. CASE StopClicked BY <2>2 DEF StopClicked, Args
  <2>3. CASE DeleteClicked
    <3>1. PICK r \in page.rows :
             Click /\ Send("post", "delete", r.segment_id, FALSE) /\ page' = page
      BY <2>3 DEF DeleteClicked
    <3>2. r \in Row BY DEF Typed, Page
    <3>3. r.segment_id \in Nat BY <3>2, DashboardAssumption DEF Row
    <3>4. QED BY <3>1, <3>3 DEF Args
  <2>4. QED BY <2>1, <2>2, <2>3
<1>2. page' \in Page BY <1>1 DEF Typed
<1>3. daemon' = daemon /\ load' \in [clicks : Nat, faults : Nat]
  BY <1>1, ClickTyped
<1>4. QED BY <1>1, <1>2, <1>3, SendKeeps DEF Urls

LEMMA ShowDeletedKeeps ==
    ASSUME Typed, ShowDeletedChanged
    PROVE  Typed' /\ page'.btn_format = page.btn_format
<1> DEFINE b == ~page.show_deleted
<1>1. /\ Click /\ Send("segments", "segments", 0, b)
      /\ page' = [page EXCEPT !.show_deleted = b]
  BY DEF ShowDeletedChanged
<1>2. b \in BOOLEAN OBVIOUS
<1> HIDE DEF b
<1>3. page' \in Page /\ page'.btn_format = page.btn_format
  BY <1>1, <1>2 DEF Typed, Page
<1>4. daemon' = daemon /\ load' \in [clicks : Nat, faults : Nat]
  BY <1>1, ClickTyped
<1>5. QED BY <1>1, <1>2, <1>3, <1>4, SendKeeps DEF Urls, Args

\* The server's and the daemon's steps leave the page alone, and no fetch
\* changes what it asks.
DaemonStep ==
    \/ \E k \in Kinds : Answer(k) \/ Fails(k) \/ AnswerLost(k) \/ TimesOut(k)
    \/ ActsLate \/ StopsItself

LEMMA FaultTyped ==
    ASSUME Typed, Fault
    PROVE  load' \in [clicks : Nat, faults : Nat] /\ page' = page
BY DEF Typed, Fault

LEMMA DaemonStepKeeps ==
    ASSUME Typed, DaemonStep
    PROVE  /\ Typed' /\ page' = page /\ DOMAIN net' = DOMAIN net
           /\ \A j \in DOMAIN net : /\ net'[j].url = net[j].url
                                     /\ net'[j].orig_label = net[j].orig_label
<1> DEFINE Same == /\ DOMAIN net' = DOMAIN net /\ net' \in [DOMAIN net -> Fetch]
                   /\ \A j \in DOMAIN net : /\ net'[j].url = net[j].url
                                             /\ net'[j].orig_label = net[j].orig_label
           Loaded == load' \in [clicks : Nat, faults : Nat]
<1>1. Typed /\ daemon \in Daemon BY DEF Typed
<1>2. ASSUME NEW k \in DOMAIN net
      PROVE  Done(net[k]) \in Daemon /\ [url |-> net[k].url, arg |-> net[k].arg] \in Late
  <2>1. net[k] \in Fetch BY <1>1 DEF Typed
  <2>2. net[k].url = "chunk" => net[k].arg \in ChunkSizes BY <2>1 DEF Fetch
  <2>3. Done(net[k]) \in Daemon BY <1>1, <2>2, DoneTyped
  <2>4. net[k].url \in Urls /\ net[k].arg \in Args BY <2>1 DEF Fetch
  <2>5. QED BY <2>2, <2>3, <2>4 DEF Late
<1>3. daemon' \in Daemon /\ page' = page /\ Same /\ Loaded
  <2>1. ASSUME NEW k \in Kinds, Answer(k)
        PROVE  daemon' \in Daemon /\ page' = page /\ Same /\ Loaded
    <3>1. /\ k \in DOMAIN net /\ page' = page /\ load' = load
          /\ \/ Answered(k, "error") /\ daemon' = daemon
             \/ Answered(k, "ok") /\ daemon' = Done(net[k])
      BY <2>1 DEF Answer, Waiting
    <3>2. daemon' \in Daemon BY <1>1, <1>2, <3>1
    <3>3. Same BY <1>1, <3>1, AnsweredIs
    <3>4. Loaded BY <1>1, <3>1 DEF Typed
    <3>5. QED BY <3>1, <3>2, <3>3, <3>4
  <2>2. ASSUME NEW k \in Kinds, Fails(k)
        PROVE  daemon' \in Daemon /\ page' = page /\ Same /\ Loaded
    <3>1. PICK result \in {"error", "none"} :
             Fault /\ k \in DOMAIN net /\ Answered(k, result) /\ daemon' = daemon
      BY <2>2 DEF Fails, Waiting
    <3>2. Same BY <1>1, <3>1, AnsweredIs
    <3>3. Loaded /\ page' = page BY <1>1, <3>1, FaultTyped
    <3>4. QED BY <1>1, <3>1, <3>2, <3>3
  <2>3. ASSUME NEW k \in Kinds, AnswerLost(k)
        PROVE  daemon' \in Daemon /\ page' = page /\ Same /\ Loaded
    <3>1. /\ Fault /\ k \in DOMAIN net /\ Answered(k, "none")
          /\ daemon' = Done(net[k])
      BY <2>3 DEF AnswerLost, Waiting
    <3>2. Same BY <1>1, <3>1, AnsweredIs
    <3>3. Loaded /\ page' = page BY <1>1, <3>1, FaultTyped
    <3>4. QED BY <1>2, <3>1, <3>2, <3>3
  <2>4. ASSUME NEW k \in Kinds, TimesOut(k)
        PROVE  daemon' \in Daemon /\ page' = page /\ Same /\ Loaded
    <3>1. /\ Fault /\ k \in DOMAIN net /\ Answered(k, "text")
          /\ daemon' = [daemon EXCEPT !.late = [url |-> net[k].url, arg |-> net[k].arg]]
      BY <2>4 DEF TimesOut, Waiting
    <3>2. daemon' \in Daemon BY <1>1, <1>2, <3>1, LateTyped
    <3>3. Same BY <1>1, <3>1, AnsweredIs
    <3>4. Loaded /\ page' = page BY <1>1, <3>1, FaultTyped
    <3>5. QED BY <3>2, <3>3, <3>4
  <2>5. ASSUME net' = net, page' = page, load' = load, daemon' \in Daemon
        PROVE  daemon' \in Daemon /\ page' = page /\ Same /\ Loaded
    BY <1>1, <2>5 DEF Typed
  <2>6. CASE ActsLate
    <3> DEFINE d == IF daemon.late.url # "stop" \/ daemon.recording
                    THEN Done(daemon.late) ELSE daemon
    <3>1. daemon' = [d EXCEPT !.late = Idle] BY <2>6 DEF ActsLate
    <3>2. daemon.late \in Late BY <1>1 DEF Daemon
    <3>3. daemon.late.url = "chunk" => daemon.late.arg \in ChunkSizes
      BY <3>2 DEF Late
    <3>4. d \in Daemon BY <1>1, <3>3, DoneTyped
    <3>5. Idle \in Late BY DEF Idle, Late, Args
    <3> HIDE DEF d
    <3>6. daemon' \in Daemon BY <3>1, <3>4, <3>5, LateTyped
    <3>7. QED BY <2>5, <2>6, <3>6 DEF ActsLate
  <2>7. CASE StopsItself
    <3>1. daemon' \in Daemon BY <1>1, <2>7, StoppedTyped DEF StopsItself
    <3>2. QED BY <2>5, <2>7, <3>1 DEF StopsItself
  <2>8. QED BY <2>1, <2>2, <2>3, <2>4, <2>6, <2>7 DEF DaemonStep
<1>4. Typed'
  <2>1. DOMAIN net \subseteq Kinds /\ page \in Page BY <1>1 DEF Typed
  <2>2. QED BY <1>3, <2>1 DEF Typed
<1>5. QED BY <1>3, <1>4

LEMMA ArrivesKeeps ==
    ASSUME Typed, NEW k \in Kinds, Arrives(k)
    PROVE  /\ Typed'
           /\ page'.btn_format = IF net[k].url = "format" THEN net[k].orig_label
                                 ELSE page.btn_format
<1>1. /\ k \in DOMAIN net /\ page' = Handled(page, net[k]) /\ daemon' = daemon
      /\ net' = [j \in DOMAIN net \ {k} |-> net[j]] /\ load' = load
  BY DEF Arrives
<1>2. net[k] \in Fetch /\ page \in Page BY <1>1 DEF Typed
<1>3. page' \in Page BY <1>1, <1>2, HandledTyped
<1>4. page'.btn_format = IF net[k].url = "format" THEN net[k].orig_label
                         ELSE page.btn_format
  BY <1>1, <1>2, HandledLabel
<1>5. Typed' BY <1>1, <1>3 DEF Typed
<1>6. QED BY <1>4, <1>5

LEMMA PageStep ==
    ASSUME Typed, [Next]_vars
    PROVE  Typed'
<1>1. CASE Poll BY <1>1, PollKeeps
<1>2. CASE LoadSegments BY <1>2, LoadKeeps
<1>3. CASE Type BY <1>3, TypeKeeps
<1>4. CASE SetChunk BY <1>4, SetChunkKeeps
<1>5. CASE StartClicked \/ StopClicked \/ DeleteClicked BY <1>5, ButtonKeeps
<1>6. CASE QuickFormatClicked BY <1>6, QuickFormatKeeps
<1>7. CASE ShowDeletedChanged BY <1>7, ShowDeletedKeeps
<1>8. CASE DaemonStep BY <1>8, DaemonStepKeeps
<1>9. ASSUME NEW k \in Kinds, Arrives(k) PROVE Typed'
  BY <1>9, ArrivesKeeps
<1>10. CASE UNCHANGED vars
  BY <1>10 DEF vars, Typed
<1>11. QED
  BY <1>1, <1>2, <1>3, <1>4, <1>5, <1>6, <1>7, <1>8, <1>9, <1>10 DEF Next, DaemonStep

-----------------------------------------------------------------------------
(* The format button *)

\* Nothing changes about the formats under way.
LEMMA LabelStays ==
    ASSUME Labelled, Formats' = Formats, page'.btn_format = page.btn_format,
           \A k \in Formats : net'[k].orig_label = net[k].orig_label
    PROVE  Labelled'
BY DEF Labelled

LEMMA SendLabels ==
    ASSUME Typed, Labelled, NEW kind, NEW url \in Urls \ {"format"}, NEW arg \in Args,
           NEW wd \in BOOLEAN, url = "chunk" => arg \in ChunkSizes,
           Send(kind, url, arg, wd), page'.btn_format = page.btn_format
    PROVE  Labelled'
<1>2. Asked(url, arg, wd).url = url BY AskedTyped
<1>3. Formats' = Formats /\ \A j \in Formats : net'[j] = net[j]
  BY <1>2, SendFormats
<1>4. QED BY <1>3, LabelStays

\* The one format puts aside the button's own label.
LEMMA QuickFormatLabels ==
    ASSUME FormatTwice = FALSE, Typed, Labelled, QuickFormatClicked
    PROVE  Labelled'
<1>1. PICK wd \in BOOLEAN, url \in {"format"}, kind \in {"post"} :
         /\ ~UnderWay("format") /\ Send(kind, url, 0, wd)
         /\ page' = [page EXCEPT !.btn_format = "Formatting...", !.format_disabled = TRUE]
  BY DEF QuickFormatClicked
<1>2. Formats = {} BY <1>1 DEF UnderWay, Formats
<1>3. page \in Page BY DEF Typed
<1>4. page.btn_format = "Quick format"
  <2>1. page.btn_format # "Formatting..." BY <1>2 DEF Labelled
  <2>2. QED BY <1>3, <2>1 DEF Page, Labels
<1>5. /\ Asked(url, 0, wd).url = url
      /\ Asked(url, 0, wd).orig_label = page.btn_format
  <2>1. url \in Urls /\ url # "chunk" /\ url = "format" BY <1>1 DEF Urls
  <2>2. 0 \in Args BY DEF Args
  <2>3. /\ Asked(url, 0, wd).url = url
        /\ Asked(url, 0, wd).orig_label =
             IF url = "format" THEN page.btn_format ELSE "Quick format"
    BY <1>3, <2>1, <2>2, AskedTyped
  <2>4. QED BY <2>1, <2>3
<1>6. PICK k \in Kinds : Formats' = Formats \cup {k} /\ net'[k] = Asked(url, 0, wd)
  BY <1>1, <1>3, <1>5, SendFormats
<1>7. page'.btn_format = "Formatting..." BY <1>1, <1>3 DEF Page
<1>8. Formats' = {k} BY <1>2, <1>6
<1>9. net'[k].orig_label = "Quick format" BY <1>4, <1>5, <1>6
<1>10. QED BY <1>7, <1>8, <1>9 DEF Labelled

\* The answer to the format gives the label back.
LEMMA ArrivesLabels ==
    ASSUME Typed, Labelled, NEW k \in Kinds, Arrives(k)
    PROVE  Labelled'
<1>1. k \in DOMAIN net /\ net' = [j \in DOMAIN net \ {k} |-> net[j]] BY DEF Arrives
<1>2. Formats' = Formats \ {k} /\ \A j \in Formats \ {k} : net'[j] = net[j]
  BY <1>1 DEF Formats
<1>3. page'.btn_format = IF net[k].url = "format" THEN net[k].orig_label
                         ELSE page.btn_format
  BY ArrivesKeeps
<1>4. CASE net[k].url = "format"
  <2>1. k \in Formats BY <1>1, <1>4 DEF Formats
  <2>2. net[k].orig_label = "Quick format" /\ Formats \ {k} = {} BY <2>1 DEF Labelled
  <2>3. page'.btn_format = "Quick format" /\ Formats' = {} BY <1>2, <1>3, <1>4, <2>2
  <2>4. QED BY <2>3 DEF Labelled
<1>5. CASE net[k].url # "format"
  <2>1. k \notin Formats BY <1>5 DEF Formats
  <2>2. Formats' = Formats /\ (\A j \in Formats : net'[j] = net[j])
        /\ page'.btn_format = page.btn_format
    BY <1>2, <1>3, <1>5, <2>1
  <2>3. QED BY <2>2, LabelStays
<1>6. QED BY <1>4, <1>5

LEMMA LabelStep ==
    ASSUME FormatTwice = FALSE, Typed, Labelled, [Next]_vars
    PROVE  Labelled'
<1>1. CASE Poll
  <2>1. Send("status", "status", 0, FALSE) /\ page' = page BY <1>1 DEF Poll
  <2>2. QED BY <2>1, SendLabels DEF Urls, Args
<1>2. CASE LoadSegments
  <2>1. Send("segments", "segments", 0, page.show_deleted) /\ page' = page
    BY <1>2 DEF LoadSegments
  <2>2. page.show_deleted \in BOOLEAN BY DEF Typed, Page
  <2>3. QED BY <2>1, <2>2, SendLabels DEF Urls, Args
<1>3. CASE Type
  <2>1. PICK chunk \in ChunkSizes :
           /\ net' = net
           /\ page' = [page EXCEPT !.in_chunk = chunk, !.touched = TRUE]
    BY <1>3 DEF Type
  <2>2. Formats' = Formats BY <2>1 DEF Formats
  <2>3. page'.btn_format = page.btn_format BY <2>1 DEF Typed, Page
  <2>4. QED BY <2>1, <2>2, <2>3, LabelStays
<1>4. CASE SetChunk
  <2>1. Send("post", "chunk", page.in_chunk, FALSE) /\ page' = page
    BY <1>4 DEF SetChunk
  <2>3. page.in_chunk \in ChunkSizes /\ page'.btn_format = page.btn_format
    BY <2>1 DEF Typed, Page
  <2>4. QED BY <2>1, <2>3, SendLabels DEF Urls, Args
<1>5. CASE StartClicked
  <2>1. Send("post", "start", 0, FALSE) /\ page' = page BY <1>5 DEF StartClicked
  <2>2. QED BY <2>1, SendLabels DEF Urls, Args
<1>6. CASE StopClicked
  <2>1. Send("post", "stop", 0, FALSE) /\ page' = page BY <1>6 DEF StopClicked
  <2>2. QED BY <2>1, SendLabels DEF Urls, Args
<1>7. CASE DeleteClicked
  <2>1. PICK r \in page.rows :
           Send("post", "delete", r.segment_id, FALSE) /\ page' = page
    BY <1>7 DEF DeleteClicked
  <2>2. r \in Row BY DEF Typed, Page
  <2>3. r.segment_id \in Nat BY <2>2, DashboardAssumption DEF Row
  <2>4. QED BY <2>1, <2>3, SendLabels DEF Urls, Args
<1>8. CASE ShowDeletedChanged
  <2>1. Send("segments", "segments", 0, ~page.show_deleted)
    BY <1>8 DEF ShowDeletedChanged
  <2>2. page'.btn_format = page.btn_format BY <1>8, ShowDeletedKeeps
  <2>3. (~page.show_deleted) \in BOOLEAN OBVIOUS
  <2>4. QED BY <2>1, <2>2, <2>3, SendLabels DEF Urls, Args
<1>9. CASE QuickFormatClicked BY <1>9, QuickFormatLabels
<1>10. CASE DaemonStep
  <2>1. /\ page' = page /\ DOMAIN net' = DOMAIN net
        /\ \A j \in DOMAIN net : /\ net'[j].url = net[j].url
                                  /\ net'[j].orig_label = net[j].orig_label
    BY <1>10, DaemonStepKeeps
  <2>2. Formats' = Formats BY <2>1 DEF Formats
  <2>3. \A j \in Formats : net'[j].orig_label = net[j].orig_label
    BY <2>1 DEF Formats
  <2>4. QED BY <2>1, <2>2, <2>3, LabelStays
<1>11. ASSUME NEW k \in Kinds, Arrives(k) PROVE Labelled' BY <1>11, ArrivesLabels
<1>12. CASE UNCHANGED vars
  <2>1. net' = net /\ page' = page BY <1>12 DEF vars
  <2>2. Formats' = Formats BY <2>1 DEF Formats
  <2>3. QED BY <2>1, <2>2, LabelStays
<1>13. QED
  BY <1>1, <1>2, <1>3, <1>4, <1>5, <1>6, <1>7, <1>8, <1>9, <1>10, <1>11, <1>12
  DEF Next, DaemonStep

-----------------------------------------------------------------------------
(* The theorems *)

\* Every fetch asks and answers what a fetch may, whatever is under way with
\* it, and the page shows settings the daemon can have.
THEOREM PageTyped == Spec => []Typed
<1>1. Init => Typed BY InitTyped
<1>2. Typed /\ [Next]_vars => Typed' BY PageStep
<1>3. QED BY <1>1, <1>2, PTL DEF Spec

\* ButtonTellsFormat, for a page on which nobody formats again while a format
\* is under way: however the format ends, the button says so until its answer
\* is there and has its own label back then.
THEOREM FormatButtonComesBack ==
    ASSUME FormatTwice = FALSE
    PROVE  Spec => []ButtonTellsFormat
<1>1. Init => Labelled BY InitTyped
<1>2. Typed /\ Labelled /\ [Next]_vars => Labelled' BY LabelStep
<1>3. Labelled => ButtonTellsFormat
  BY DEF Labelled, ButtonTellsFormat, UnderWay, Formats
<1>4. QED BY <1>1, <1>2, <1>3, PageTyped, PTL DEF Spec

-----------------------------------------------------------------------------
(* The size that is set: when a rounded chunk fits the buffers it is       *)
(* written from.                                                           *)

LEMMA DivMod ==
  ASSUME NEW a \in Nat, NEW b \in Nat \ {0}
  PROVE  /\ a \div b \in Nat /\ a % b \in 0 .. b - 1
         /\ a = (a \div b) * b + (a % b)
  OBVIOUS

\* Multiples of b: none lies strictly between two that follow each other.
LEMMA MultipleGap ==
  ASSUME NEW b \in Nat \ {0}, NEW p \in Nat, NEW q \in Nat, p * b < q * b + b
  PROVE  p * b <= q * b
<1>1. CASE p <= q
  BY <1>1
<1>2. CASE p >= q + 1
  <2>1. p * b >= (q + 1) * b
    BY <1>2
  <2>2. (q + 1) * b = q * b + b
    OBVIOUS
  <2>3. QED
    BY <2>1, <2>2
<1>3. QED
  BY <1>1, <1>2

\* Whatever is asked for, the chunk is whole write units, no smaller than the
\* request brought into range and less than one unit larger.
THEOREM RoundedUp ==
  ASSUME Sizes, NEW requested \in Nat, NEW unit \in Nat \ {0}
  PROVE  LET size == RoundWriteChunk(requested, unit)
         IN  /\ \E n \in Nat : size = n * unit
             /\ size >= Clamped(requested) /\ size < Clamped(requested) + unit
<1> DEFINE c == Clamped(requested)
           n == (c + unit - 1) \div unit
<1>1. c \in Nat
  BY DEF Clamped, Sizes
<1> HIDE DEF c
<1>2. c + unit - 1 \in Nat
  BY <1>1
<1>3. /\ n \in Nat /\ (c + unit - 1) % unit \in 0 .. unit - 1
      /\ c + unit - 1 = (n * unit) + ((c + unit - 1) % unit)
  BY <1>2, DivMod
<1> HIDE DEF n
<1> DEFINE m == n * unit
<1>4. m \in Nat
  BY <1>3
<1> HIDE DEF m
<1>5. m >= c /\ m < c + unit
  BY <1>1, <1>3, <1>4 DEF m
<1>6. RoundWriteChunk(requested, unit) = m
  BY DEF RoundWriteChunk, c, n, m
<1>7. QED
  BY <1>3, <1>5, <1>6 DEF c, m

\* A chunk never outgrows its buffer when the write unit divides the buffer's
\* size; when it does not, the request for the largest chunk outgrows it.
THEOREM ChunkFitsBuffer ==
  ASSUME Sizes, NEW unit \in Nat \ {0}
  PROVE  (\A requested \in Nat : RoundWriteChunk(requested, unit) <= MaxWriteChunk)
         <=> \E k \in Nat : MaxWriteChunk = k * unit
<1>1. ASSUME NEW k \in Nat, MaxWriteChunk = k * unit, NEW requested \in Nat
      PROVE  RoundWriteChunk(requested, unit) <= MaxWriteChunk
  <2> DEFINE size == RoundWriteChunk(requested, unit)
  <2>1. PICK n \in Nat : size = n * unit
    BY RoundedUp
  <2>2. size < Clamped(requested) + unit
    BY RoundedUp
  <2>3. Clamped(requested) \in Nat /\ Clamped(requested) <= MaxWriteChunk
    BY DEF Clamped, Sizes
  <2> HIDE DEF size
  <2>4. n * unit \in Nat /\ k * unit \in Nat
    OBVIOUS
  <2>5. n * unit < k * unit + unit
    BY <1>1, <2>1, <2>2, <2>3, <2>4
  <2>6. n * unit <= k * unit
    BY <2>5, MultipleGap
  <2>7. QED
    BY <1>1, <2>1, <2>6 DEF size
<1>2. ASSUME RoundWriteChunk(MaxWriteChunk, unit) <= MaxWriteChunk
      PROVE  \E k \in Nat : MaxWriteChunk = k * unit
  <2>1. MaxWriteChunk \in Nat /\ Clamped(MaxWriteChunk) = MaxWriteChunk
    BY DEF Clamped, Sizes
  <2>2. PICK n \in Nat : RoundWriteChunk(MaxWriteChunk, unit) = n * unit
    BY <2>1, RoundedUp
  <2>3. RoundWriteChunk(MaxWriteChunk, unit) >= MaxWriteChunk
    BY <2>1, RoundedUp
  <2>4. n * unit \in Nat
    OBVIOUS
  <2>5. QED
    BY <1>2, <2>1, <2>2, <2>3, <2>4
<1>3. MaxWriteChunk \in Nat
  BY DEF Sizes
<1>4. QED
  BY <1>1, <1>2, <1>3
=============================================================================
