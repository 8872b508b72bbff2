# Verification of elegoo-printer-proxy

TLA+ specifications of the proxy that sits between a slicer and an Elegoo
printer (`src/src/*.py`), model-checked with TLC and proved with TLAPS: the
stateful components for every value of the constants, the algorithms for inputs
of any size.
Line numbers are those of the files under `src/src/`.

1. Inventory · 2. Modules and the code · 3. Runs · 4. Bounds · 5. Fairness ·
6. Proofs · 7. Where code and documents differ · 8. Abstractions · 9. Not modelled · 10. Plan

## 1. Inventory of the system

The proxy is one asyncio process per printer. Coroutines interleave at
`await`s, file work runs in worker threads (`asyncio.to_thread`), and all of it
shares one event loop and one storage directory.

| component | state | operations |
|---|---|---|
| chunked upload sessions, `upload_session.py` | the table `sessions`, the manager's lock and one lock per session; per session `_intervals`, `finalized`, `created`, `_fh`; temp files in `.tmp` | `save_chunk`, `cleanup`, `discard_all`; in threads `write_chunk`, `finalize`, `discard` |
| CC2 uploads, `http_proxy.py` | a temp file per request body, the client session, a session manager | `_handle_upload`, `_stream_body_to_temp`, `_save`, passthrough, `start`, `stop`, the reaper's loop |
| CC1 uploads, `cc1_upload.py` | a session manager for each listener (ports 80 and 3030) | `handle`, `parse_multipart_bytes` |
| WebSocket and HTTP proxy on port 3030, `ws_proxy.py` | two sockets and two relay tasks per WebSocket; a CC1 capture | WebSocket relay, upload, passthrough, `stop` |
| archive, `storage.py` | directories per day of JSON sidecars and `.gcode` files, `.tmp` | `save_gcode_file`, `find_metadata`, `get_latest_metadata`, retention, orphan sweep |
| REST API, `api.py` | none | reads the archive |
| discovery relay, `discovery_relay.py` | the forwarder socket, its waiters, a task per probe | probe, reply, error, deadline, close, MainboardIP rewriting |
| TCP relay, `tcp_proxy.py` | two pipes per connection, asyncio's buffers | connect, read, write, drain, close |
| printer detection, `detect.py` | two probes | probe, decide, retry (`main.py`) |
| start and shutdown, `main.py` | servers, background tasks | ordered start, ordered teardown |
| G-code parser, `gcode_parser.py` | none | head and tail of a file to metadata |
| configuration, `config.py` | none | environment to values |

**How they interact.** A request handler (CC2 or CC1) forwards a chunk to the
printer and, when the printer accepted it, *calls* `save_chunk`; `save_chunk`
shares the sessions with the other handlers and with the reaper and runs the
file operations in threads; the last chunk makes a thread call the archive,
which the REST API reads at the same time. `main.py` starts everything, and
after a signal stops it in an order that keeps the HTTP client open for the
handlers and the sessions intact beneath the writers. The relays and the
discovery are independent of uploads, but the teardown waits for the relays.

**What is hard, and what makes each component correct.**

- *Sessions.* Two levels of locks nested in two orders of acquisition, state
  read before one lock and used after another, threads that fail half way,
  chunks repeated, reordered or lost. Correct: no two threads in one temp file,
  what is archived is exactly one upload, each session archived at most once, no
  temp file without an owner, no fresh session lost, no deadlock.
- *Handlers.* The slicer gives up and repeats while the first request is still
  at work; the printer accepts and saving fails, or the reverse. Correct: only
  what the printer accepted is captured; the slicer gets the printer's answer;
  no body stays on disk.
- *Archive.* Look-ups while sidecars are written, names with a resolution of
  one second, local time. Correct: a look-up returns the newest capture,
  nothing is given up before it is archived, nothing kept is lost.
- *Discovery.* A socket created lazily across an `await`; replies without
  identity; a deadline in the same turn of the loop as a reply. Correct: one
  socket, futures set once, no waiter left behind, every probe ends.
- *TCP relay.* Half-close, reset, back-pressure. Correct: nothing lost towards
  a peer that listens, bounded buffers, both directions end.
- *WebSocket relay.* One of two tasks ends and the other is cancelled in the middle of its
  work. Correct: no frame sent before a close is lost, both sockets end.
- *Detection.* Two probes raced against losses and timeouts. Correct: the services fit what
  the printer answered, and the start does not try for ever.
- *Conversions* (MainboardIP, name and filament, multipart form, intervals). Correct on every
  input: exactly the fields meant are changed, exactly the bytes sent are kept.
- *Start and shutdown.* Signals while requests run, connections that do not
  end, crashes. Correct: clients outlive handlers, no file removed beneath a
  writer, no file survives the teardown or the next start, the teardown ends.

`PROJECT.json` lists the hazards with their lines and the properties that cover
them.

## 2. Modules and the code

| module | code | what it is |
|---|---|---|
| `ChunkSessions` | `upload_session.py` | `save_chunk`, `cleanup` and the thread operations; a step runs from one `await` to the next |
| `UploadCapture` | | what the manager promises, without tasks, locks, threads and files |
| `SessionShutdown` | `upload_session.py:167-175`, `main.py:164-184` | `ChunkSessions` with a shutdown: tasks cancelled at any `await`, then `discard_all` |
| `Intervals` | `upload_session.py:46-73` | `_record_bytes` and `complete` |
| `UploadHandlers` | `http_proxy.py`, `cc1_upload.py`, `ws_proxy.py` | the requests of one upload, from slicer to printer and back |
| `UploadForm` | `cc1_upload.py:56-104` | the multipart form of a CC1 chunk taken apart |
| `GcodeParser` | `gcode_parser.py`, `storage.py:82-88` | the name and the filament of a file, from its end |
| `Archive` | `storage.py` | concurrent captures, the retention sweep, the look-ups |
| `Detection` | `detect.py`, `main.py:56-75` | two probes per attempt, the choice, the retries |
| `Lifecycle` | `main.py`, `stop()` of both proxies | start (with `Detection`), service, teardown, crash, start again |
| `DiscoveryRelay` | `discovery_relay.py:28-67, 120-176` | probes, socket, futures, deadlines, closing |
| `MainboardRewrite` | `discovery_relay.py:70-118`, `ws_proxy.py:64-76`, `http_proxy.py:49-98` | the rewriting of addresses in all three places |
| `TcpRelay` | `tcp_proxy.py` | one relayed connection with asyncio's transports |
| `WsRelay` | `ws_proxy.py:89-146` | one relayed WebSocket: two tasks and their handler |
| `*Proofs` | | invariants and theorems about the module of that name; `RelayProofs` about both relays, `DataProofs` about `Intervals`, `MainboardRewrite`, `GcodeParser` and `UploadForm` |
| `MC*` | | constants' values and symmetry for TLC; `MCRelays` and `MCData` put modules that share no state side by side, one of them at work in each behaviour |

How they are joined: `ChunkSessions` implements `UploadCapture` by a refinement mapping, and
`SessionShutdown` extends `ChunkSessions`. `Intervals` justifies that `ChunkSessions` keeps the *set* of received bytes in
place of the list of intervals. `UploadHandlers` saves in one step, the way
`UploadCapture` describes it, and takes the bytes of a chunk for what `UploadForm` shows they
are. `Lifecycle` extends `Detection`. `Archive` names a file by what `GcodeParser` finds.

**`ChunkSessions`.** A *task* is a request inside `save_chunk` or the reaper.
`pc` says at which `await` it is suspended: `"manager"` (the manager's lock, line
110 or 155), `"old"` (the lock of a session to be discarded, 120), `"session"`
(124, 161), `"write"`, `"finalize"`, `"discard"` (a thread), `"remove"` (the
manager's lock again, 147). `mlock` and `slock` own the locks, `sess` is the
local variable `session`, `job` the thread call awaited and its outcome.
A session is named by the request that created it. `leftover` is a history variable: the
sessions that `discard` was at and that stayed in the table all the same, since an
exception or a cancellation came before their entry was replaced or deleted.

| action | lines of `upload_session.py` |
|---|---|
| `SkipLate`, `StartSession`, `StartFails`, `FindSession` | 110-124: unknown upload; first chunk, with `create_session` returning or raising; known upload |
| `LockOld`, `Restart`, `RestartFails` | 118-124: the first chunk again, with `discard` (121) and `create_session` (122) returning or raising |
| `LockSession`, `DropFinalized` | 124-133 |
| `WriteEnds`, `StartFinalize`, `FinalizeEnds`, `Remove` | 133-150 |
| `Wake`, `NothingStale`, `Collect`, `LockStale`, `Reaped`, `ReaperDies` | 152-165, the loop in `http_proxy.py:359-364` |
| `ThreadWrite`, `ThreadWriteFails` | 38-60 and `http_proxy.py:114-128` |
| `ThreadSave`, `ThreadDispose` | 79-82 and `storage.py:67-111` |
| `ThreadDiscard` | 75-86 and `storage.py:119-121`: `close()` or `cleanup_temp` may raise |

Time is the number of sessions created (`births`): the reaper's `cutoff` may be
any point of it. Byte contents are the upload a byte came from, or `Hole`.

**`SessionShutdown`.** `stop` is how far the shutdown is. `Signal` cancels the reaper
(`main.py:167`), `CancelRequests` the requests that `runner.cleanup()` no longer waits for:
the task ends, its locks are released (`Release`), its thread goes on. `LockManager`,
`LockNext`, `DiscardNext`, `DiscardFails`, `Cleared` are `discard_all`. `disturbed` is a history variable: a
task was cancelled whose thread goes on.

**`UploadHandlers`.** One slicer sends the chunks of one upload in turn to one of four
endpoints (CC2 in chunks, CC2 in one piece, CC1 on port 80 and on port 3030), and may drop a
request (`Drop`) and send the chunk again. `Read`, `TooLarge`, `Forward`,
`Save`/`SaveLogged`, `Answer` are the steps of `_handle_upload` (CC2) or of
`CC1UploadCapture.handle` (CC1), `ReadFails` and `AnswerFails` those of CC2 at which an operation on the
body's file raises, `Reap` the reaper. `failed` and `expired` are history variables: a saving failed, the
reaper discarded the copy. `Answers` are what the printer may say, as far
as the handlers tell answers apart.

**`Archive`.** `Begin`, `Open`, `Describe`, `Dispose` are the steps of
`save_gcode_file` that others can see: the time of the capture and the metadata,
the sidecar emptied, the sidecar written, the temp file moved or unlinked; `Fail`
ends it at any of them. `CleanupOldFiles` is the sweep.
`FindMetadata`, `LatestMetadata` are the look-ups.

**`Detection` and `Lifecycle`.** `SocketCreated`, `SocketFails`, `ProbeEnds` are `_probe_udp`,
`Detected` and `NotDetected` the end of an attempt, `Retry` what follows `main.py`'s pause.
`main` is the place in `_run`; `Signal`, `StopAccepting`,
`Drained` or `CancelHandlers`, `DiscardSession`, `Discarded`, `Gather`, `Exit` are
the teardown of each listener (`turn`) in the order of lines 157-184; for CC1 the
port-3030 proxy, then the relays and tasks, then port 80. `Boot` removes orphans
first. `configured` and `patient` are set once: `PRINTER_TYPE`, and whether every handler
ends before `runner.cleanup()` loses patience. `kept` is a history variable: the temp files whose
archiving raised in this life.

**`DiscoveryRelay`.** A probe's task begins, may create a socket (an `await`
during which other probes run), waits for its future or the deadline, and ends.
`Expire` cancels the future and leaves it among the waiters until the task runs.

**`TcpRelay`, `WsRelay`.** Indexed by peer: what it sent, what is in the buffers between, what
was handed on; the pipe or task that reads from it. In `WsRelay` a frame is written as soon as
it is received (`Take`), and the task may then be at `drain`; `Wait` cancels the task that is
left, `ClosePrinter` and `CloseSlicer` are the `async with` and the `finally`.

**Algorithms.** `Intervals` records chunks one after the other; `got` is a history
variable, the set of bytes, that the properties compare with. `MainboardRewrite`,
`GcodeParser` and `UploadForm` have no steps: their variables are the input, and each
initial state is one input, on which an invariant compares the translated
code with a definition that does not follow it.

## 3. Runs

| run | question | result |
|---|---|---|
| `chunk_safe` | the session manager with temp paths from the UUID (CC1), two uploads, every file operation before finalizing able to fail: no task waits for a lock in a circle, files apart, archive intact, archived once, no orphan, no fresh session lost, `UploadCapture` implemented | holds |
| `chunk_live` | a fresh path per session (CC2), every failure, and a shutdown at any step: every request ends, every stale session goes while there is a reaper, `discard_all` gets through and leaves nothing | holds |
| `shutdown_hole` | is every archived file whole, too, when the reaper is cancelled while it discards? | violated, finding |
| `chunk_second_copy` | is a chunk that waited for a finalized session never archived a second time? | violated, finding |
| `upload` | all four endpoints: only accepted chunks captured; the printer's answer handed on; an upload that was sent is captured; no body left, with files that fail and a reaper | holds |
| `data` | do look-ups return the newest, is everything kept findable and given up only when archived, while captures are written, fail and expire; and are the algorithms right on each input | holds |
| `archive_torn` | is the latest returned, too, while a sidecar is torn? | violated, finding |
| `discovery` | futures set once, waiters wait, answers from the probe's own socket, every probe ends | holds |
| `discovery_sockets` | is there one socket? | violated, finding |
| `relays` | TCP: delivered before close, bounded; WebSocket: no frame lost before a close; both: one end leads to the other | holds |
| `life` | CC1 and CC2, configured or detected: services that fit, client open beneath handlers, no stray file, nothing left, no file removed beneath a writer; a start comes up or ends, and the teardown ends when relayed connections do | holds |
| `life_hangs` | does the teardown end, too, when a relayed connection stays? | violated, finding |

Where a property holds only under a condition (a saving that does not fail, handlers
that are not cancelled, a session that `discard` did not leave in the table, a capture whose place nobody else takes), the condition is in the
property and section 7 says what happens without it. Each property of a passing run has a
mutant in `PROJECT.json`: a faulty version of one definition, marked `Faulty:` beside the
right one, under which TLC finds the property violated.

Deadlock is checked in `chunk_second_copy` alone. Elsewhere it is off because the bound on
requests, probes, time, frames or lives ends every behaviour, because the input of an algorithm
takes no step, or because the code really stops (the reaper dies of a
discard that fails, the process ends). That nobody waits for ever is what `LocksComeFree`, `RequestsEnd`,
`DiscardAllEnds`, `ProbesEnd`, `EndsTogether`, `WsEndsTogether` and `StopsOnceRelaysEnd` say.

## 4. Bounds, and why they are enough

- `ChunkSessions`: two bytes and chunks of one, so that a chunk can be the first, the last,
  repeated, lost, or leave a hole when the other's write fails; four requests for two
  uploads (three for one upload with liveness and shutdown), so that a session can be completed by two,
  waited for by a third, and restarted by another; the reaper runs any number of times and
  its pass visits both uploads' sessions. Whole, overlapping and empty chunks are in
  `chunk_second_copy` and `data`. The theorems have no such bounds.
- `Intervals`: an upload of five bytes and chunks within eight: two gaps, chunks
  that touch, contain, bridge and reach behind the end. Every sequence of chunks is
  covered, since the state space is finite without a bound on their number.
- `MainboardRewrite`: values nested three deep (`Widths`), two entries to each but one at the top,
  with the field, another field, and the address alone or within a string at each place: the
  recursion treats each level alike. The theorem is about any widths, keys and values.
- `GcodeParser`: files of up to four lines of which three are read, so that a line of each
  kind can be out of reach, repeated, or last; each kind of value that the code tells apart.
- `UploadForm`: chunks of up to five words, with line ends at both ends and in a row.
- `UploadHandlers`: three chunks and five requests: two repetitions beside an upload that
  is sent to its end; a request that was given up may be answered after the next two.
- `Archive`: three captures, two of them of one file, on three days of two seconds each.
- `DiscoveryRelay`: three probes; two suffice for a second socket, the third meets
  both. A reply may arrive any number of times, at any time, or never.
- `TcpRelay`: two units from the client and four from the printer through limits of one unit:
  the reader, both buffers and the network of one direction can be filled at the same time.
- `WsRelay`: two frames each way: one in each task's hands and one behind it.
- `Lifecycle`: two uploads on port 80 and one on port 3030, one relayed connection, two lives,
  and each attempt of the detection.

Symmetry under permutations of the requests is used in `chunk_safe` and `upload`, which
have no liveness property. `chunk_live` has some and takes one initial state of those that
differ by the requests' names only (`InitInOrder`); its steps are not reduced. The faults of
`chunk_safe` are those before `finalize`, since `NoOrphanTemp` is about uploads that can be
archived; `chunk_live` has all of them.

## 5. Fairness

Weak fairness is assumed of what the event loop and the thread pool schedule: each
request's continuation in `save_chunk`, the reaper, each thread (`ChunkSessions`), and
`discard_all` (`SessionShutdown`); the relay's tasks and timers (`DiscoveryRelay`); pipes and
transports, hence peers that read (`TcpRelay`), and the handler and tasks of a WebSocket, which
aiohttp's closing timeout keeps going (`WsRelay`); `_run`, whose probes have a deadline of their own, and the
handlers, which the HTTP client's timeout ends (`Lifecycle`). Nothing is assumed of clients, of the
printer, or of the network: nobody has to send, answer, or close.
In `ChunkSessions` a lock may go to any waiter, where `asyncio.Lock` is FIFO, and weak
fairness of one request's whole step relation is enough for `RequestsEnd`,
because finitely many requests take a lock finitely often and the reaper's pass ends.

## 6. What is proved

Eight modules hold proofs that TLAPS checks, for any sets of requests, probes, uploads and
keys, any sizes and any faults, and for files, payloads and chunks of any length and depth:

| theorem | property | further assumption |
|---|---|---|
| `ChunkSessionsProofs.Typed` | `TypeOK` | |
| `ChunkSessionsProofs.FilesSeparated` | `OneThreadPerFile` | |
| `ChunkSessionsProofs.LocksOrdered` | `LocksComeFree` | |
| `ChunkSessionsProofs.ArchivesOnce` | `ArchivedOnce` | |
| `ChunkSessionsProofs.FreshSurvive` | `FreshSessionsSurvive` | |
| `ChunkSessionsProofs.CaptureImplemented` | `ImplementsCapture` | |
| `ChunkSessionsProofs.ArchivesFilled` | `ArchiveIntact`, with its exception, up to uploads that share a key: no hole, no byte of another key | |
| `ChunkSessionsProofs.ArchivesIntact` | `ArchiveIntact` | `DistinctKeys`: distinct uploads have distinct keys |
| `ChunkSessionsProofs.NoOrphans` | `NoOrphanTemp` | `DisposalWorks`: finalizing does not fail |
| `SessionShutdownProofs.FilesAccounted` | each temp file is of a session in the table, or of a finalized one | |
| `SessionShutdownProofs.ShutdownLocksFree` | `LocksComeFree` during a shutdown, and that `discard_all` never waits | |
| `SessionShutdownProofs.ShutdownEmpties` | what of `DiscardsAll` holds also where uploads share a key: no session, no file, no hole | |
| `SessionShutdownProofs.ShutdownDiscards` | `DiscardsAll` | `DistinctKeys` |
| `UploadHandlersProofs.UploadTyped` | `TypeOK` | |
| `UploadHandlersProofs.UploadOnlyAccepted` | `OnlyAccepted` | |
| `UploadHandlersProofs.UploadCaptured` | `EveryUploadCaptured` | |
| `UploadHandlersProofs.UploadPrintersAnswer` | `PrintersAnswer` | |
| `UploadHandlersProofs.UploadNoBodyLeft` | `NoBodyLeft` | |
| `ArchiveProofs.ArchiveDisposed` | `DisposedOnlyWhenArchived` | `DaysGoOn`: local time is not set back to an earlier day |
| `ArchiveProofs.ArchiveFindable` | `CapturedFindable` | `DaysGoOn` |
| `ArchiveProofs.ArchiveFindNewest` | `FindNewest` | `TimeGoesOn`: local time only grows |
| `ArchiveProofs.ArchiveLatestNewest` | `LatestNewestIntact` | `TimeGoesOn` |
| `LifecycleProofs.LifeClientOutlivesHandlers` | `ClientOutlivesHandlers` | |
| `LifecycleProofs.LifeNoStrayFile` | `NoStrayFile` | |
| `LifecycleProofs.LifeNothingLeft` | `NothingLeft` | |
| `LifecycleProofs.LifeServicesFitAnswers` | `ServicesFitAnswers` | |
| `LifecycleProofs.LifeNotBeneathWriters` | `NotBeneathWriters` | |
| `DiscoveryRelayProofs.DiscoveryWaitersWait` | `WaitersWait` | |
| `DiscoveryRelayProofs.DiscoveryOwnSocket` | `AnswerFromOwnSocket` | |
| `DiscoveryRelayProofs.DiscoveryFutureSetOnce` | `FutureSetOnce` | |
| `RelayProofs.TcpBuffersBounded` | `BuffersBounded` | |
| `RelayProofs.TcpDeliveredBeforeClose` | `DeliveredBeforeClose` | |
| `RelayProofs.WsFramesBeforeClose` | `FramesBeforeClose` | |
| `DataProofs.IntervalsKnowBytes` | `KnowsBytes` | |
| `DataProofs.PayloadsRewrittenExactly` | `RewriteExact` | the payload is one (`Payload`) |
| `DataProofs.LastLinesGiveUsage` | `UsageFromLastLines` | the file has lines with numbers |
| `DataProofs.NameFromBestSetting` | `NameAsEmbedded` | the file has lines with words, and no setting of a name is empty |
| `DataProofs.FormKeepsData` | `DataSurvivesForm` | no word of the chunk is the boundary |

The assumptions on constants are those that the modules name (`ChunkAssumption`,
`NameAssumption`, `ArchiveAssumption`, `LifecycleAssumption` and so on: types, and names that
do not collide). TLC evaluates them on every run. The further assumptions are hypotheses of
the theorems that need them; the instances of the passing runs satisfy them. Those of
`DataProofs` say what the inputs are, for algorithms that have no steps; a boundary is chosen by the
slicer so that no chunk has it, and an empty setting is in section 7.

**The argument.** Hardly any of the properties is inductive; each module has an invariant that is.

*Sessions.* That two threads are never in one file depends on who holds which lock:

    Discipline == TypeInv /\ Locks /\ Table /\ Newborn /\ Finalizers

- `Locks`: a task in the part of the code under a lock owns it, and nobody else does.
- `Table`: an entry of the table is filed under its creator's key, and a task that holds
  the manager's lock finds the session it looked up still in the table. This is where it
  matters that `save_chunk` keeps the manager's lock while it waits for a session's (124).
- `Newborn`: a session that was not created yet has no trace.
- `Finalizers`: a finalized session was complete, and at most one request finalizes it.

From `Discipline` follows `LocksComeFree` (`OrderFrees`): the owner of the manager's lock may wait for a
session's, the owner of that one awaits its thread and no lock, and asks for the manager's lock only after
it has given its own up. From `Discipline`, too, two running threads in one path are in one session or in two of one
key. One session means one owner of its lock, hence one task; two of one key are
excluded by the table. `ArchivedOnce` adds `Saved` (what the archive has of a session,
its finalizer put there), `FreshSessionsSurvive` adds `Expired` (what the reaper has
collected is older than the cutoff), `ArchiveFilled` adds `Assembled` (the bytes that are
recorded as received are in the file and of an upload of the session's key, also after a failed write, but
of a session in `leftover`, which a session never leaves again, `LeftoverGrows`); where
distinct uploads have distinct keys, that is `ArchiveIntact`. `NoOrphanTemp` adds
`Gone` (a session outside the table has no file). The refinement maps a session that is
not yet archived to the copy that is being assembled, and shows for each action that it
is a step of `UploadCapture` or a stutter.

*Shutdown of the sessions.* `discard_all` is a third owner of locks, which `Discipline` does not know.
`ShutdownInv` therefore holds in stages, and only as long as no task was cancelled whose thread goes on:

- `StillServing`, up to the call of `discard_all`: `Discipline`, and `Accounted` (each temp file is
  of a session in the table or of a finalized one). That a cancelled task gives up its locks at any
  `await` and leaves both as they were is `EndedStep`.
- `Quiet` from there on: no request is in the middle of anything, the reaper is dead, no thread is at work,
  so nothing but `discard_all` moves (`QuietStuck`).
- `Emptying`: each entry that was visited has no file, and what is left is accounted for.

At the end the table is empty, and `Accounted` leaves only files of finalized sessions.

The locks need no such condition. A cancelled task leaves the locks to others and its thread at work, so most
of `Discipline` is lost; `LockInv` is what is left of it: who is where in the code owns what (`Locks`), a task's job
fits its `await` (`Working`), a session's entry is its creator's (`KeyedByCreator`, `Unborn`), and `discard_all` owns what
its place says and has no task beside it (`Closers`, `Stages`). A cancellation takes the locks away from exactly
those that leave the code under them (`CancelledKeeps`), and a thread changes neither (`ThreadsKeepLocks`). Hence
`ShutdownLocksFree`: the safety half of `RequestsEnd` and `DiscardAllEnds`, for any number of requests.

*Handlers.* `OneAtATime` (the slicer waits for a request at work that carries its next chunk;
others at work are those it gave up), `Learnt` (what each handler knows of the printer's
answer), `NeverWhole` (a copy that misses nothing is captured in the same step), `OnlyAccepted`,
and `CopyKeepsUp`: as long as nothing failed, nothing expired and no first chunk was given up, the copy holds every
chunk that the slicer takes for sent, and the one it is about to be told was sent.

*Archive.* `InPlace`: a sidecar describes an upload whose place it has. `Archived`: what a thread has
written stays while it is kept. That `LastOf` finds the last of finitely many places is an
extremum of a finite set (`LastIsLast`), from the finiteness of `Sidecars`.

*Life.* `InOrder` (the clients that may be open in each phase of start and teardown, and that a
listener stops accepting before its client is closed), `Upload` (handlers and sessions live no
longer than their listener's client), `Waited` and `Owned` (a thread has a handler that waits,
a file a session or a place in `kept`, when no handler is cancelled), `Detecting` (the type is what the answers of the last
attempt make it).

*Relays.* Discovery: `OnceForwarded` and `FuturesFromOwnSocket`, that a future's value came by the
probe's own socket. TCP: `Bounds` (a pipe that reads has seen its writer below the limit), `Flow`
(nothing is lost on its way while no connection was reset), `Ends` and `Close` (a pipe closes its
writer only at the end of its stream). WebSocket: `InStep` (a task at work has handed on all that it
took) and `Cause` (a task ends for an error or after a peer's last frame).

*Algorithms.* The induction theorems of the library take an operator, which the provers cannot
instantiate; induction is done on the set of counterexamples instead: if there is any, there is a least one
(`Least`, from the well-foundedness of `<`), which is not the first and follows from the one before. First
that each recursive function exists and satisfies its equation, then what it computes:

- Intervals: `Tidy` (the list is in order, with a gap behind each) is invariant. `Sorted` puts the new interval
  into its place among tidy ones (`OrderExists`, `SortedRises`), `Join` keeps them tidy (`JoinTidy`), and both
  keep the bytes (`MergeKeeps`). From tidiness, `complete` looks at the one interval that there can be.
- MainboardIP: of a set of bad JSON values there is one whose own values are good (`SmallestBad`, by depth). `Exact`
  says of a value that its paths are replaced where they are the field's and nowhere else, and that `Rewrite`
  reports a change exactly then; a value inherits it from its entries (`ExactStep`), since a path through an entry is
  the field's if the entry is the field or the rest of the path is (`MainboardUnder`).
- Filament: after any number of lines a field has the value of the last line that sets it (`LastLineCounts`).
- Name: the candidates' order is the order of their settings (`FirstCandidate`), and a substituted template is a
  name, never nothing (`SubstitutedWords`).
- Form: a word that is no boundary lengthens the last part (`WordJoinsLast`), hence the form has its four fields
  and nothing else (`PartsOfForm`), and the file's part ends where the chunk does.

**Only model-checked.**

- Liveness (`RequestsEnd`, `DiscardAllEnds`, `StaleReapedWhileAlive`, `ComesUp`, `StopsOnceRelaysEnd`,
  `ProbesEnd`, `EndsTogether`, `WsEndsTogether`): fairness and `ENABLED` are beyond the prover. For the
  sessions' locks the theorems say what liveness rests on, that a lock somebody waits for comes free.
- What holds only under a theorem's assumption is false without it (section 7).

## 7. Where code and documents differ, and what the conditions exclude

Shown by the `violation` runs:

1. `chunk_second_copy`: a first chunk that is repeated while the session is being
   finalized starts a new session and archives the upload twice (`upload_session.py:118-123`),
   against `tests/test_upload_session.py:25-26`.
2. `shutdown_hole`: the reaper is cancelled while its thread discards a session; the entry stays
   in the table with its intervals, and a chunk that is still accepted completes an upload whose
   first bytes are gone: a file with a hole is archived (`upload_session.py:159-163`), against the comment at
   `upload_session.py:66-68`.
3. `archive_torn`: the look-up of the latest capture skips a whole day when its last sidecar
   cannot be read (`storage.py:162-172`).
4. `discovery_sockets`: first probes that overlap create several sockets
   (`discovery_relay.py:151-156`).
5. `life_hangs`: the teardown waits for relayed connections before it stops port 80
   (`main.py:175`).

The conditions of the properties that hold come from these; each is seen in TLC by
dropping the condition named last:

- When `finalize` raises, the session goes and its temp file stays until the next start
  (`upload_session.py:142-150`): `NoOrphanTemp` with `"save"` in `Faults`, `NoStrayFile` and
  `NothingLeft` without `kept`.
- A session that was discarded can stay in the table without any shutdown: `cleanup_temp` raises after
  `_close` has set `_fh` to None (`upload_session.py:84-86`, in a restart, 121, or in the reaper, 162), or
  `create_session` raises after the old session was discarded (122). It keeps its intervals; its next chunk
  opens the path anew with `'wb'` (41), and when the intervals are complete a file with a hole is
  archived, as in `shutdown_hole` but by one ordinary disk error: `NoHoleArchived` in `chunk_safe`.
  `ArchiveIntact`, and with it `DiscardsAll`, except exactly these sessions (`leftover`).
- A `discard` that raises ends the reaper's task (`http_proxy.py:359-364`), and stops `discard_all`
  and with it the shutdown: `StaleReapedWhileAlive` without `"dead"`, `DiscardAllEnds` without `"failed"`.
- A cancelled handler releases its session's lock while its thread writes: another task may enter
  the session, `discard_all` may unlink the file, or the thread creates one afterwards
  (`upload_session.py:167-174`): `NotBeneathWriters`, `NoStrayFile`, `NothingLeft` without `patient`,
  `DiscardsAll` without `~disturbed`, and `OneThreadPerFile` under `SpecShutdown`.
- A body whose sender disconnects, or whose write raises, stays on disk until the next start
  (`http_proxy.py:246-252`), and so does one whose removal raises (237): `NoBodyLeft` without `"lost"`.
- An upload that takes longer than `UPLOAD_TIMEOUT` from its first chunk on is discarded by the reaper,
  and its later chunks are skipped (`upload_session.py:112-117, 157`), while the printer accepts all of
  it: `EveryUploadCaptured` without `~expired`. `src/README.md:4` promises "every G-code file".
- A chunk at offset 0 restarts its session also when it is the late copy of a request that
  the slicer gave up; the upload may then never be complete (`upload_session.py:118-121`):
  `EveryUploadCaptured` without its last conjunct.
- An accepted CC1 chunk whose answer is no UTF-8 becomes a 500 (`cc1_upload.py:169-172`), as
  does on port 3030 an answer whose Content-Type has a charset (`ws_proxy.py:194-198`), and on CC2
  any answer when the body's removal raises (`http_proxy.py:236-237`): `PrintersAnswer` without `"raised"`.
- Two names that sanitize alike, captured in one second, share a sidecar (`storage.py:218`):
  `CapturedFindable` without `Alone`.
- Local times in names put a new capture behind an older one in the hour that is repeated
  at the end of daylight saving time (`storage.py:165`): `LatestNewestIntact` with a `Local` that
  goes back.
- A peer of a TCP relay that ends its own stream and goes on reading may lose what the other
  one sends (`tcp_proxy.py:104-109`): `DeliveredBeforeClose` without `x \notin shut`.
- After a lost WebSocket, frames that the relay had not yet received are not handed on
  (`ws_proxy.py:122-128`): `FramesBeforeClose` with `"error"` beside `"close"`.

Read in the code, and outside what the properties say:

- An empty setting in a file's configuration takes the next line for its value, since `\s*` matches a
  line's end (`gcode_parser.py:113-128`): `Value` has it, and `NameAsEmbedded` is about files without one.
- A `Content-Range` with total 0 divides by zero in a log call, inside the `try` that only logs
  (`http_proxy.py:291`): the upload is forwarded and not captured.
- `UPLOAD_TIMEOUT=0` makes every session stale at the reaper's next pass (`upload_session.py:157`), and the HTTP
  client wait without limit (`http_proxy.py:170`): the fairness of section 5 presumes another value.
- The port-80 and port-3030 captures have managers and locks of their own, while one UUID gives one temp
  path (`cc1_upload.py:49`); `src/README.md:76-77` relies on a slicer that stays on one port.
- Uploads without `X-File-Name` are told apart by size (`http_proxy.py:256`): `DistinctKeys` is the
  slicer's doing.
- `forward_to_printer` keeps a `Content-Encoding` header beside a body that the HTTP client has decoded
  (`http_proxy.py:30-42, 83-88`).

## 8. Abstractions

- Bytes are the upload that they came from; names, JSON and headers are what the code
  tells apart of them. A multipart body is a sequence of words, of which boundary and line end are two;
  a G-code file is a sequence of lines with key and value.
- A chunk's write is one step of its thread, with any part of it written when it fails.
  In `ChunkSessions` the sidecar is one step; its tearing is in `Archive`. A crash between the
  sidecar and the move leaves a record without its file; the orphan sweep then removes the
  file, and the look-ups, which read sidecars only, do not tell.
- A read by the REST API is one step (`Archive`): it lists and reads at one instant.
- A capture's thread ends before the second day after its start (`Archive.Tick`), so the
  sweep never removes the directory it writes to.
- `drain()` goes on when the buffer is at or below its limit, where asyncio waits for a
  quarter of it (`TcpRelay`): the model lets the relay read at least as early.
- The age of a session is known up to the creation of others (`ChunkSessions`), or not at all:
  in `UploadHandlers` the reaper may discard the copy at any time after it was begun.
- Of `discard` fail: `close()` when its buffer has bytes of a failed write, and `cleanup_temp`, which then
  leaves the file. Elsewhere a failing operation is one of those in `Faults`; a `finalize` fails before
  its sidecar or after it.
- `UploadHandlers` has one upload and saves in one step; what concurrent savings do to a
  session is in `ChunkSessions`. A printer that accepted a chunk but whose answer was lost
  counts as one that was not reached, as in the code.
- A CC2 handler that the shutdown cancels while it receives its body leaves the body like one whose
  sender disconnects; in `UploadHandlers` the two are one.
- A slicer sends one request at a time, unless it gave the one before up.
- In `DiscoveryRelay` the replies on their way are those to any probe that was sent.
- In `WsRelay` frames are counted; ping, pong and the closing handshake are aiohttp's.
- In `Lifecycle` an upload has one request and a session of its own; the reaper is left
  out, since it only removes sessions under their locks. A cancelled reaper and several
  requests of one session are in `SessionShutdown`.

## 9. Not modelled

- The passthrough of both HTTP listeners: it keeps no state; the headers and bodies that it
  passes on are in `MainboardRewrite`.
- `config.py` and the macOS set-up script: no state after the start, no concurrency.
- CC1 requests with malformed fields, which are forwarded only, and a `Content-Range` that cannot
  be read, which makes each chunk an upload of its own.
- The text of JSON answers and the health check of the REST API.
- The filament fields that repeat one of the three ways of parsing that `GcodeParser` has, the
  slicer's version (one regular expression), and the parsing of a multipart header's lines.
- `save_gcode` (`storage.py:51-65`), which only tests call.

## 10. Plan

Done, in this order: the sessions, their abstract specification and proofs; the life cycle;
the discovery relay; the archive; the TCP relay; the upload handlers; detection, the
WebSocket relay, the shutdown of the sessions, the algorithms; theorems about each component with state,
about the shutdown, and about the algorithms for inputs of any size.

Next:

1. One UUID on both listeners: two instances of `ChunkSessions` that share `temp`.
2. `UploadHandlers` with two uploads, composed with `ChunkSessions` in place of its one-step saving.
3. A theorem that `UploadHandlers`' saving is a step of `UploadCapture`.
