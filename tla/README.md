# A verification project for chrontabulator

chrontabulator captures UDP packets from a DPDK port and records them to a raw
NVMe device through SPDK, in one process. This directory holds TLA+ models of
it, the configurations that check them with TLC, and proofs checked by TLAPS.
Sources are cited as `file:line` of `src/src/`.

## The system

One SPDK reactor thread does all recording and all device I/O; one POSIX thread
serves a small web page and hands every request that needs the reactor to it.
The device holds a volume: a header (block 0), a table of contents (TOC, one
block per segment) and segment data, allocated by a high-water mark.

| component | state | operations | meets |
|---|---|---|---|
| capture path (`main.c:462-803`) | `buffers`, `cur_buf`, `next_write_block`, `pending_writes`, counters | `capture_poll`, `flush_buffer`, `retry_flush`, `write_complete` | device completions, stop |
| segment lifecycle (`main.c:340-443, 805-982, 1481-1743`) | `vol`, `segment_id`, `segment_start_block`, `recording`, `stopping` | claim (TOC, header), stop, finalize (header, TOC), for CLI and daemon | capture path, admin slot |
| admin bridge (`chrono_admin.c`) | `admin_req`, `io_buf`, scan cursors | list, records, delete, start, stop, format, setters | web thread by message and condition variable; lifecycle by calls |
| web server (`web_status.c`) | one connection at a time | accept, receive, call, send, leave | admin bridge; atomics for the status page |
| start and exit (`main.c:1954-2265`) | `g_ctx` | NIC bring-up, header read, SIGINT, join | all of the above |
| formatting (`main.c:1304-1466, 1745-1894`) | staged header, `init_cur_block` | `--init`, QUICK_FORMAT | the volume |
| dump, list, repair (`main.c:984-1266`) | scan cursors | `-D`, `-S`, `--repair-chunk-bytes` | the volume |
| on-disk format (`record.h`) | header, entry, record header | | everything |
| packet format (`common.c`), responder (`net_responder.c`) | stateless; the mbufs of pool and rings | build, parse, answer ARP and echo | `capture_poll` |
| dashboard page (`chrono_web_html.h`) | what it shows, `touched` marks, fetches under way | polls, lists, buttons, settings | web server by HTTP |
| NIC bring-up (`port_init.c`) | none | configure | start |

What is hard here: I/O completions arrive in any order between packets, calls
and signals; submissions can be refused or queued inside the handler that made
them; a stop may come from five places; the process may die between the two
writes of claim or finalize; the web thread gives up on requests the reactor
goes on with; several chains share one buffer and one set of cursors; the next
process may be any of seven modes; the page has several requests under way whose
answers overwrite one another. The list
of such points, each at its line, is `hazards` in PROJECT.json.

What makes each part correct:

- capture path: no write outside the open segment, two writes never share a
  block, a buffer is not touched while in flight, `pending_writes` is exact;
- lifecycle: a finalized segment reads back exactly what it counted, for ever;
  segments are disjoint; the high-water mark covers them and never goes back;
  a stop ends; failures stop the recording;
- admin bridge: one request at a time until its last handler has run, the
  answer is the caller's own and complete, the slot is freed in the end, a
  recording's geometry is fixed from claim to finalize;
- web server: nothing but a silent client keeps its thread from the join at exit
  (a silent client does, see below);
- formatting: whatever is interrupted, a device is refused or holds one
  consistent volume; what reports success has done it;
- dump, list, repair, pages: they show exactly the records that are there;
- packets: what is recorded is the sender's payload, mbufs come back, replies go
  to the asker;
- page: its format button tells whether a format is under way, and it shows the
  daemon as it is in the end.

## Modules

- **Recorder** - one process and the device. Variables: `ctx` (`app_context_t`,
  fields under their C names, plus the set `io` of outstanding requests of its
  bdev channel), `disk` (header, TOC, data), `load` (how much of each bound is
  used). Each handler runs to its end on the reactor, so each is one action,
  and the functions it calls are operators from a context to a context
  (`FlushBuffer`, `RetryFlush`, `StopRecording`, ...), composed in the order of
  the calls. `ServeMode` selects daemon or CLI capture. Actions: `Packet`,
  `RecordingStart`, `RecordingStop`, `Shutdown`, one per kind of completion,
  `Crash`, `Boot`.
- **RecorderProperties** - what a recorder owes its user, with `Dump`, the
  walk `-D -S` makes over a segment.
- **AdminBridge** - web thread and reactor around the one request slot.
  Variables: `ctx` (recording flags, `io_buf`, cursors, `admin_req`, I/O),
  `toc`, `msgs` (messages to the reactor), `web` (the web thread's program
  counter), `deletes` and `faults` (history and bound). Web thread actions are
  cut where the thread may wait and where it takes or releases the slot's lock:
  `Accept`, `Received` or `NoCall` (the end of `recv`, with a request for the
  reactor or without), `Call`, `Woken` or `TimedOut`, `Replied` (the end of
  `send`), `Leave`. Both threads interleave there.
- **SegmentStore** - the abstract store: slots are claimed in order, only the
  newest can be finalized, and what is finalized keeps its own records for ever.
  `RecorderProperties` instantiates it with the TOC's states and with `Dump` of
  the finalized segments (`Store`), and `ImplementsStore` says that every step of
  Recorder, crashes and restarts included, is a step of the store or a stutter.
- **RecordReader** - the walk over a chunk and the cursor of its two users, the
  dump and the pages, as operators from a cursor and a chunk to a cursor.
- **Volume** (extends RecordReader) - one device across processes: `--init` with
  and without `--force`, `--serve`, CLI capture, list, dump, repair. Variables:
  `disk` in blocks, `p` (the process: `app_context_t` fields, its outstanding
  I/O, and the result it left), `load`. Actions: `Boot`, `IoDone` and `IoFails`
  (a completion runs its callback, `Continued` says which), `FinalizeIo` (whose
  callbacks go on after a failure), the requests, `Record`, `Interrupt`, `Crash`.
- **VolumeProperties** - what a volume owes its user.
- **PacketFormat** - frames field by field: `Built`, `Parse`, `Reply`.
- **RxPath** (extends PacketFormat) - NIC, mbuf pool, rings, bursts, responder,
  and the decision to record. Variables: `rx`, `load`. One call of
  `capture_poll` is one step, a burst its loop (`Handle`).
- **Dashboard** - the page, the fetches under way and the daemon as the page
  sees it. Variables: `page`, `net`, `daemon`, `load`. A fetch is sent, handled
  by the server, and arrives; between these steps anything may happen.
- **MCRecorder, MCAdminBridge, MCRxPath** - values for TLC.
- **WriteChunk** - the rounding of a chunk size, a function; no run needs it.
- **Recorder_proofs** (types and failures, then a daemon's sessions),
  **RecorderStore_proofs** (extends it), **AdminBridge_proofs**,
  **Volume_proofs**, **VolumeData_proofs** (extends it), **RxPath_proofs**
  (PacketFormat's theorems too), **SegmentStore_proofs**, **Dashboard_proofs**
  (WriteChunk's theorems too) - theorems.

Recorder and AdminBridge overlap on claim, stop and finalize. Recorder keeps
blocks and buffers and reduces the slot to which request is open (`admin_req`);
AdminBridge keeps the slot and reduces capture to claimed, draining, finalized.
Volume keeps the chains of writes and the blocks and reduces capture to one
chunk of records per step; RxPath keeps the frames and reduces buffers and
device to a choice (`Room`); Dashboard reduces all of them to a daemon that
accepts, refuses, fails, or times out.

The component modules hold, beside some definitions, a faulty form of them with
the same parameters (`FitsOneOver` before `Fits`). They take no part in the
specification; substituted for the real definition, each breaks the property
PROJECT.json `mutants` names.

### Abstractions

Recorder counts blocks in write chunks and bytes in units of which a chunk holds
`BufSize`. A cell of a chunk tells which record starts there. Packets that
`capture_poll` does not take for its own are left out; one packet of ours is one
action, though the code handles up to a burst per poll: nothing reads the state
between two packets of a burst. The device performs a write when it answers it
and reads the buffer at that moment. It may refuse a submission (an
error other than -ENOMEM) and may be out of `bdev_io` (-ENOMEM, `PoolSize`);
-ENOMEM on a header or TOC write is treated as the code treats it, as a refusal.
Requests of one kind submitted inside one handler are answered alike. A chunk is
written whole or not at all; a crash performs any subset of the outstanding
writes. After a teardown nothing more is modelled. Time stamps and the mirrors
and statistics for the status page are left out.

AdminBridge gives every I/O the number of the call it serves (`by`), which the
code does not know; it decides nothing and is only read by properties. A read
fills `io_buf` in the step that runs its callback, a read of records too. The
parameters of `Received` stand for the request's fields: `port` 0 is none given,
and a start without a port anywhere is refused (EINVAL). The record scan counts
chunks and leaves out pagination; `include_deleted` is false; the four setters
are one handler with another field and are represented by SET_WRITE_CHUNK (those
of `wire_has_seq` and the local address are in RxPath); a format zeroes one TOC
slot per write. Whether data writes are outstanding when a stop comes is a free
choice (`drained`).

Volume lets a refused submission and a failed completion end a chain alike, as
the code does. A crash performs any subset of the blocks of the outstanding
write. Delete is AdminBridge's; a CLI capture meets no packet here (Recorder and
`cli_capture` show what happens when it does); a process that exits takes its
outstanding I/O with it. A repair writes any size in `ChunkSizes`; the readers'
properties speak of segments walked with the size they were packed with. `era`,
`laid`, `faulted` and `header_lost` are history, read by properties only.

RxPath keeps the real header lengths and reduces addresses, ports and payloads
to identities; checksums are left out. A reply is written over its request one
field after the other, in the code's order, each copy reading what the ones
before it left (`ArpReply`, `EchoReply`). Whether a record fits, meets a busy
buffer or finds the device full is the environment's choice for each frame.
`record.h:43` and `record.h:28` agree on what a record's `seq` is: the record's
own number, which is what `RecordsAreSent` checks, not the sender's.

Dashboard lets one setting, the write chunk size, stand for the three that have an
input, a touched mark and a button (local IP, write buffers, write chunk). Left
out are the has-seq box, which sends as it is changed and loses its mark with any
answer, the port, whose mark is never taken away, keyboard focus, the start form,
the chart and the EAL panel. The page cannot tell a time-out from success
(`chrono_web_html.h:617`): the mark goes (`:719`) and the next status overwrites
what was typed, in the model as in the code; no property says otherwise. A reload
after a post is one more `LoadSegments`. A segment id names a row; ids are reused
after a format, as in the code.

## Runs

All runs set `CHECK_DEADLOCK FALSE`: a process that has left, with the bounds of
its environment used up, rightly stops.

| run | shows | result |
|---|---|---|
| `recorder_sessions` | two segments, a crash and a restart anywhere: contents, extents, high-water mark, buffers in flight, the abstract store implemented | holds |
| `recorder_failures` | failed writes, a queued buffer, count limit: accounting, breaker, each write in its own block, one finalize per recording | holds |
| `recorder_progress` | stop, admin requests and SIGINT complete, with a refusal and a failure | holds |
| `recorder_stop_backpressure` | a buffer is written once at a time | violated |
| `cli_capture` | a CLI capture stores what it counts | violated |
| `admin_serial` | all operations, time-outs, late answers, a failing I/O | holds |
| `admin_auto_stop` | recordings that end unasked: fixed geometry, freed slot, a join that waits for clients only | holds |
| `admin_overwritten` | a refused call leaves the open request alone | violated |
| `volume_life` | three processes of any modes, two formats, one fault, cut short anywhere: the volume stays one volume and reads back | holds |
| `volume_interrupted` | SIGINT outside a recording leaves the high-water mark in the data area | violated |
| `rx_path` | every kind of frame, bursts, settings changed between: records, replies, mbufs | holds |
| `dashboard` | reordered, lost, late and failed answers: the format button, and the page catches up | holds |

Bounds. Two buffers are the least with a round robin and backpressure; chunks of
two units tell a full chunk from a padded one, and the sizes 1 and 2 (or 3, too
long) give records that fit, fill and never fit. Two TOC slots give a segment
before and after. In `recorder_sessions` the device has four blocks and six
packets come, so that a segment also ends where the device does; in
`recorder_failures` the packets fill both buffers and meet a busy one, and the
flush of a stop then asks for a third write where the pool has two entries: it is
queued and goes out when another write is done. A second buffer is never queued
beside it in a passing run, so what the one wait entry loses then (`main.c:561`)
no property covers.
`Threshold` is 2 instead of the code's value: the count to it and the reset
matter, not its size. Four requests (`MaxCalls`) let one be abandoned, one be
refused, one succeed and one look at the result; in `admin_auto_stop` three do,
since nobody looks. Requests that ask nothing of the reactor are not counted. One or three faults per run put each at any
point of the chains.

`volume_life`: three processes are the least for format, record, dump, and for a
format over a volume that an interrupted one left; records of two blocks in
chunks of three leave padding inside a segment, chunks of six hold several
records; a format zeroes the TOC of two slots by one write, which a crash can
tear. Two records tell a page from its neighbour. `rx_path`: three mbufs with a
burst of two leave a remainder when a stop breaks the loop, a TX ring of one
is full at the second reply, and of two sessions the second must not see what the
first left; the frames are a built one with and without
sequence number, padded, for the other port, too large for a chunk, and one per
test in the parser and the responder that turns it away. `dashboard`: a status,
a list and two posts under way; one fault; two clicks, the least for typing and
sending, or a setting between a format and its answer. Two lists under way with
one post and no fault hold too.

The passing safety runs of Recorder have no refused submissions, and
`recorder_sessions` a pool large enough: under the conditions of the violated
runs, several properties fail for the causes described there.
`recorder_sessions` has no I/O errors either: a failed data write loses records
by design. `admin_serial` has `Overlap = FALSE`, that is recordings end by stop
calls and SIGINT comes between calls; with it, `IoBufHasOneUser` and
`AnswerIsOwn` fail (6 below). `dashboard` has `FormatTwice = FALSE` (7 below);
`volume_life` has `Signals = FALSE`, that is a SIGINT reaches an idle daemon at
any time, a recording one between requests, and the other modes only while they
record.

Fairness. Recorder: weak fairness on completions together - the device answers
what it accepted, in no order. Nothing is assumed of packets, calls or signals.
AdminBridge: the web thread runs and its clocks do, so that what it does by itself
comes to pass - a call is made, its wait ends, an idle poll ends (`Call`, `Woken`,
`TimedOut`, `Leave`) - and the reactor runs with a device that answers. Nothing
makes a client connect, send its request or take its response: `recv` and `send`
have no time-out, so `Accept`, `Received`, `NoCall` and `Replied` are not fair, and
`JoinWaitsForClientOnly` says what is then left of the join. Dashboard: the page's
timers go off, the server handles what was sent and the answer arrives or is known
to be lost, and the daemon comes to an end with a call it is late with -
`SlotFreed` of AdminBridge. That presumes that no client is silent for ever, since
there is one web thread for all: what the page shows while
one is, is its last state. Nothing is assumed of the user. The other modules have
safety properties only.

## Where the code and its documentation part

The violated runs; `findings` in PROJECT.json quotes what they contradict:

1. `recorder_stop_backpressure`: the flush of a stop lacks the `in_flight` guard
   `capture_poll` has (`main.c:817`, `main.c:1608`).
2. `cli_capture`: `cached_num_blocks` is set by the daemon only (`main.c:2047`).
3. `admin_overwritten`: parameters are stored before the busy check
   (`web_status.c:445-519`), so a refused connection redirects a delete.
4. `volume_interrupted`: every mode but `--serve` installs a capture's SIGINT
   handler (`main.c:2249`), which finalizes whether or not a segment was claimed:
   Ctrl+C during `--init`, a dump or a list writes a header whose high-water mark
   is block 0 and an entry over TOC slot 0. Four steps: boot, header read,
   SIGINT, header written.

Passing runs avoid three more; change the bound named and the property fails:

5. `MaxRefusals = 1` in `recorder_failures`: a refused final flush finalizes
   inside `retry_flush` (`main.c:569`) and `daemon_stop_recording` finalizes again
   (`main.c:1610`), while `record.h:110` says the header is rewritten "exactly
   twice per capture segment's lifetime" (`FinalizeChainsDoNotOverlap`).
6. `Overlap = TRUE` in `admin_serial`: a recording that ends by itself finalizes
   through `io_buf` without the slot (`main.c:1535`), while `chrono_ctx.h:318`
   says the slot serializes "claim/finalize's own brief io_buf use"
   (`IoBufHasOneUser`); its end then fulfils whichever call is waiting
   (`main.c:1514`, `AnswerIsOwn`).
7. `FormatTwice = TRUE` in `dashboard`: a status poll enables the Quick-format
   button again while a format is under way (`chrono_web_html.h:439`); a second
   click puts aside the label "Formatting..." and its answer restores that, for
   ever (`ButtonTellsFormat`, `PageCatchesUp`).

Two are written into the properties as exceptions. The web thread receives and
sends without a time-out (`web_status.c:69`, `:107`) and tests `shutting_down`
between connections only, while `web_status.h:19` calls that "this server's quit
flag": a client that connects and sends nothing keeps the `pthread_join` at exit
(`web_status.c:602`) from returning. `JoinWaitsForClientOnly` allows for such a
client and nothing else; put `JoinReturns`, which does not, in its place in
`admin_auto_stop` and TLC finds the thread in `recv` or `send` for ever.

The other: the final flush of a stop on a full device drops records already
counted (`main.c:601`) and counts none of them as dropped, while `record.h:91`
calls every field of an entry that was shut down cleanly authoritative. `FinalizedIsAuthoritative` allows the
difference for a segment that ends where the device ends, and no more than one
buffer of it; `DumpIsComplete` makes the same exception (`EndsFull`).

## Proofs

The theorems hold for every value of the constants that satisfies the assumption
of the component's module and the hypotheses named here; PROJECT.json lists them
with the properties they state. Every invariant and action property the passing
runs check is stated by a theorem; only liveness is left to TLC. All but a few
of the properties need an invariant stronger than themselves, which is the bulk
of each proof; every operator on contexts has a lemma of the invariant's shape,
and the lemmas go up the call graph, so that `Next` has one step per action.

### Recorder

`Recorder_proofs`, without hypotheses: `TypeCorrect` and `FailuresStop`, by

    IInv == TypeOK /\ Spare(ctx) /\ Alert(ctx)

`TypeOK` is not inductive: it bounds `used` by the chunk and `PutRecord` must stay
in its chunk. `Spare` says that every buffer but the current one that holds
records is in flight, so the buffer the round robin moves to is, when free,
empty. `Alert` is `FailuresStopRecording` of a context; inside
`chrono_note_write_failure` it is false until the stop it calls sets `stopping`,
so the lemmas say of each operator what it `Keeps` and in which contexts it is
called.

Its second part is about a daemon whose submissions are accepted,

    Ample == ServeMode /\ MaxRefusals = 0 /\ WriteBufCount <= PoolSize

while writes may fail or wait in the queue (the final flush can ask for one
write more than there are buffers), and the process die and restart, at any
point. The pool is larger than the ring in the code: `MAX_WRITE_BUFFERS` is 32
(`chrono_ctx.h:37`), SPDK's default pool 65535. Refusals are excluded because
with them the properties are false (`recorder_stop_backpressure`, item 5 above).
The invariant `Session` says that a running daemon is idle, claiming, writing or
finalizing, and of each of the four what the device has been asked to do, what
`pending_writes` counts, where the writes go and what the next claim will start
from. From it follow `PendingIsExact`, `InFlightIsOwned`, `DrainsFirst`,
`WritesAreApart`, `OneChain`, and of steps `BuffersStayPut` and `MarkAdvances`.

`ClaimIsClear` and `SegmentsApart` need `Calm`: write failures or restarts, not
both. They are false with both: a failed header write leaves the mark behind on
the device, the running process knows better, and a restart forgets it - the next
segment overwrites the last. Their invariant `Apart` puts every finalized segment
below the context's mark. `BelowHighWater` excludes failed writes altogether,
since a failed header write does leave a finalized segment above the mark.

`RecorderStore_proofs` is about what can be read back, under `Ample` and
`MaxIoErrors = 0` (a failed data write loses records, by design).
`FinalizedReadsBack`: the invariant `Readable` says of the blocks of the open
segment, as they will be once everything outstanding is performed, that they
hold a chain of records without a gap, and that the current buffer holds the
rest of those counted. `StoreImplemented` is the refinement: the initial state
maps to the store's and every step, crashes and restarts included, to a claim, a
finalize or a stutter; it adds `InOrder` (slots are claimed in order) and
`Steadfast` (a step leaves what finalized segments read as alone). `Dump` and
`Walk` are recursive functions over the data. The library's induction theorems
cannot be used, but `NatLessThanWellFounded` and `WFMin` give every nonempty set
of naturals a least member (`Least`), which is induction over any set one can
write down (`Descent`, and `Climb` in RxPath).

`SegmentStore_proofs` proves of the abstract store `StoreIsReadable` and
`FinalizedForever`, by an invariant joining type, `NoHoles` and `Readable`.

### Admin bridge

`AdminBridge_proofs`: `BridgeTyped` and `SizeFixed` have no hypothesis. The other
five assume `Overlap = FALSE`; with recordings that end unasked three of them are
false (item 6 above). `Serial` says the reactor is idle, has one call to
dispatch, serves it by one I/O, waits for the last data write of its stop, or
tears down: `SlotIsHeld`, `OneUserOfIoBuf`, `AnswersOwnCall`. `Kept`, that the
entry of the segment being recorded says what was claimed, gives `ClaimIsKept`.
`Listing`, that a list under way has shown exactly the claimed slots below its
cursor and that nobody changes the TOC meanwhile, gives `ListsEverySegment`.
Time-outs, late answers, faults and a shutdown between calls are all in.

### Volume

`Volume_proofs`: `VolumeTyped`, `NoEntryOfAnEarlierFormat`, `MarkInDataArea`,
`VolumeSegmentsApart`, `VolumeIsOnDevice`, `FormatLeavesFresh` and
`FinalizedEntriesKept`, for every number of slots, blocks and chunk sizes, every
size of a zero-fill write, and processes of all modes that fail or die anywhere.
One hypothesis: `Signals = FALSE`, that is a SIGINT reaches daemons, and other
processes only once they record. Without it five of the seven are false, since
`app_shutdown_cb` then finalizes a segment nobody opened (`volume_interrupted`,
item 4 above). The invariant is

    VolumeInv == disk \in Disks /\ load \in Loads /\ Sound(p, disk, load)
                 /\ Consistent(disk, load) /\ Succeeded(p, disk, load)

`Consistent` is what the device holds whoever is running: of an accepted header,
that every visible entry is of its format and claimed, and finalized ones lie
before the mark and apart. That is not inductive without knowing what the running
process is about to write, so `Phase`, in `Sound`, says for each step of each
chain which I/O is outstanding, what is in its buffer, how the process's copy of
the header stands to the device's (`Mounted`, `InStep`) and, of a format, which
slots are clear so far (`Cleared`). A claim counts a slot only after its entry
is written, and a failed or cut claim leaves an entry the header does not count:
hence `<` for finalized entries and `<=` for visible ones. A death performs any
subset of the blocks of an outstanding write; the lemma about it holds for every
subset, and a write that is done is the case of all of them. Where readers walk
chunks, the walk over a chunk is an induction (`Least`, `Climb`) that bounds
where its cursor stops.

`VolumeData_proofs`, under the same hypothesis, proves what the readers show:
`DumpShowsEverything` and `PageShowsItsWindow`, by

    DataInv == VolumeInv /\ Stocked(disk, load) /\ Deep(p, disk, load)

(`DataInvAlways`). What a reader shows is decided by blocks that were written by
another process, with another chunk size, over blocks that held something else.
So `Preserved` says of every finalized entry that its blocks are a chain of
chunks: there is a set `K` of blocks where chunks begin and a function `first`
that numbers the record each begins with, and between `first[k]` and `first[k +
size]` the chunk at `k` `Holds` exactly those records and then padding. A reader
knows neither `K` nor `first`; they exist because `Filling` builds them, one
flush at a time, for the segment being recorded, and finalize turns the one into
the other - short of the last chunk where the device is full (`Short`). They are
lost neither to a format (which leaves no finalized entry), nor to a later
recording (it writes at or above the mark), nor to a repair (which changes the
entry, not the blocks), nor to a death. `Tracking` puts a reader that waits for
its next chunk on a block of `K`, having shown the records before `first` of it;
a lemma about the walk over one chunk (an induction over the records in it)
takes it to the next block of `K`, to the end of the page or to the end of the
segment. `Dumped` and `Paged` are the two properties for a process that has
ended or answered. The invariant was checked by TLC on small devices before it
was proved.

A volume an older program left (`Older`) has two chunks; the proof showed that
`Init` used to admit it on devices with less room than that, where a dump of it
cannot succeed. `Init` now asks for the room.

### Receive path and packets

`RxPath_proofs`: `RxTyped`, `NoMbufUnaccounted`, `AskersAreAnswered`, for every
set of frames, burst and ring. A call of `capture_poll` is one step, so its part
of `Flow` is an induction over the turns of its loop (`Burst` holds after each).
`RecordsAreTheFrames` assumes that the frames marked as sent are built as
`app_build_packet` builds them (`Honest`), and checks nothing on the receive path
by that: it says what sending means.

Also there, of `PacketFormat` and for every frame: `PayloadInFrame` (what is
copied into a record lies in the frame, after the headers), `BuiltParses` (what
was built parses back to its payload with the padding, while lengths fit 16
bits) and `ReplyTurnsRound` (a reply, copied field by field over its request, goes
to the asker and is no request itself).

### Dashboard page

`Dashboard_proofs`, for any number of polls, lists and posts under way:
`PageTyped`, the types of page, fetches and daemon (`Typed`), and
`FormatButtonComesBack`, the invariant `ButtonTellsFormat`: the button says
"Formatting..." exactly while a format is under way. `PageCatchesUp` says so of
the button only in the end. It assumes `FormatTwice = FALSE`, without which it is
false (item 7 above). Each format puts aside the label it is to restore, so
`ButtonTellsFormat` is not inductive: `Labelled` adds that at most one format is
under way and that what it has put aside is the button's own label.

### Chunk sizes

Also in `Dashboard_proofs`, of `chrono_round_write_chunk`, which the size set on
the page goes through: `RoundedUp` (whole units, at
least the request brought into range, less than a unit more) and
`ChunkFitsBuffer`: the rounding comes after the clamping (`main.c:251-254`), so
every chunk fits the `MAX_WRITE_CHUNK_BYTES` of a buffer if and only if the write
unit divides that size - which the code does not check.

### Only model-checked

Liveness of Recorder, AdminBridge and Dashboard (`StopCompletes`,
`RequestsAnswered`, `ShutdownCompletes`, `SlotFreed`, `JoinWaitsForClientOnly`,
`PageCatchesUp`), because fairness and ENABLED are out of the prover's reach; a
CLI capture beyond its type; and what lies outside the hypotheses above, where a
run covers it.

## Not modelled

NIC bring-up and its settling time (calls in a row, any failure of which ends the
process), allocation failures, byte layout and checksums, rendering of HTML and
JSON, HTTP parsing, command-line options, the start form, the chart and the EAL
panel of the page, torn chunk writes of a recording. The status page reads a
dozen atomics one by one while the reactor changes them; each is meant to be
right by itself and nothing relies on their agreement, so no property relates
them. What a process does after its teardown with I/O outstanding (`main.c:1964`)
is a use of freed memory and outside every model here. See `components` in
PROJECT.json.

## Plan

Done: Recorder, AdminBridge, SegmentStore with its refinement, RecordReader,
Volume, PacketFormat, RxPath, Dashboard, WriteChunk, and the theorems above.

Left: a CLI capture's share of the recorder's properties (in the code as it is, it
stores nothing: `cli_capture`), and the session invariants with refused
submissions, once the flush of a stop looks at `in_flight`.
