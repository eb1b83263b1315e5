# Verification of the IoT radio server

TLA+ models of the broadcast server in `src/app` (Python, aiohttp): who may
broadcast and when, what the devices are told, and how a frame of audio gets
from a studio to the loudspeakers in time. TLC checks the models on small
instances; TLAPS proves the core results for every size.

Run anything here with `tlc -config <run>.cfg <module>` (the module of each run
is in `PROJECT.json` and in the tables below) and `tlapm <module>.tla` for the eight modules
whose name ends in `Proofs`.

## 1. The system

One asyncio thread runs everything. A village broadcast is either **LIVE** (a
studio's microphone, or a sample file on the server, paced out frame by frame)
or **FILE** (devices are told to download an MP3).

| Part | Source | State | Operations | Interacts with |
|---|---|---|---|---|
| Session state machine | `session.py` | `_state` IDLE/LIVE/FILE, `_session_id`, `_file_id`, `_file_started_at` | can/start/stop LIVE and FILE, expiry of a FILE | asked and written by all handlers |
| LIVE requests | `http_api.py` | `app["live"]` | `live_start_handler`, `live_stop_handler`, background `_run_live` | session, registry, runtime, command channel |
| Studio channel | `ingest_channel.py` | the registry's broadcaster slot, an `IngestSource` | `ingest_handler`: admission, receive loop, clean-up | as above |
| Command channel | `cmd_channel.py` | one `/cmd` socket per device | broadcasts, `_resync_live`, reports LIVE_READY, FILE_END, FILE_ABORT | session, `app["live"]`, registry |
| Audio channel | `audio_channel.py` | `/audio` sockets | fanout of one frame to all | engine, registry |
| Pacing engine, LiveRuntime | `pacing.py` | queue, frame index, start time, two tasks | `submit`, `_step`, `run`, `start`, `stop`, `wait_done` | source, fanout, `_run_live` |
| Frame sources | `ingest_channel.py`, `opus_source.py` | bounded drop-oldest queue / list of packets | `push`, `frames`, `close` | producer task |
| Registry | `registry.py` | sockets by device, audio sockets, broadcaster | add, remove, replace on reconnection | all handlers |
| File store | `file_manager.py` | index and upload directory | save, delete, rescan | HTTP, nginx |
| Others | `auth.py`, `server.py`, `config.py`, `logging_conf.py`, `deploy/` | – | – | – |

What makes it hard: every `await` in a handler lets the others run. `send_str`
suspends while the socket's transport is paused and raises when the transport
is closing; `runtime.stop()` suspends until two cancelled tasks have ended. Most
handlers write `app["live"]` and the session after such a point. The pacing
engine sits between two bounded queues that treat overflow in opposite ways,
and judges a frame by a time computed from its index.

What makes the parts correct:

- session and handlers: one LIVE at a time, one broadcaster, each session owned
  by whoever started it, FILE never during LIVE, a LIVE always ended by somebody;
- devices: told of the LIVE in progress and of no other;
- runtime: `stop()` returns, engines end with their sources, nothing is sent
  after `stop()`;
- pacing: order, no repetition, never early, bounded bursts, a file keeps time;
- registry: a dead socket goes, a new one is not removed by its predecessor;
- file store: a name denotes one complete upload.

The hazards of the code, line by line, and the properties meant for them are in
`PROJECT.json` ("hazards").

## 2. Modules

| Module | Models | State and actions |
|---|---|---|
| `Session` | `SessionManager` | Its variables are the class's fields (`file_stale` stands for the age of `_file_started_at`). Operators carry the methods' names. `SessionSpec` is the contract: which operation may happen in which state. |
| `LiveControl` | the LIVE paths of `http_api`, `ingest_channel`, `cmd_channel`, `registry` | `task` says where each coroutine is suspended, with its locals. An action runs one coroutine from one suspension to the next. `Broadcast` is the loop of sends with its three outcomes. EXTENDS `Session`. |
| `FileStore` | `FileManager`, the upload and delete handlers, the restart | `job`: per upload the local variables of `save_stream`; `link` and `data`: the directory and the files on disk; `index`: `_index`. One action per chunk, since `read_chunk` suspends. |
| `FileControl` | `broadcast_handler`, FILE_END and FILE_ABORT, the restart | `req`: where a request's sends are suspended; `fetch`, `reports`, `inLive`, `played`: what each device works on, what it has answered, whether it holds itself to be in a LIVE, and what it played. EXTENDS `Session` and `FileStore`: the composition of the two with the devices. |
| `Registry` | `registry.py`, the `/cmd` and `/audio` handlers, `make_fanout` | sockets are numbered as they are registered; per socket its connection, where its handler is suspended and the task that closes it; `fan`: the walk of one frame over the sockets. |
| `LossyFeed` | – | abstract: frames may be lost, but are heard in order and once |
| `RuntimeLife` | – | abstract: the life of one `LiveRuntime` (created, started once, ends with its source or by `stop()`) |
| `Pacing` | `IngestSource`, `_produce`, `PacingEngine`, `LiveRuntime` | both queues, the producer and the sending loop with their sleeps, a clock. Refines `LossyFeed` and `RuntimeLife`. |
| `OggPackets` | `iter_ogg_opus_packets` | a writer makes a file segment by segment (the reference); then the parser reads it, one action per turn of its loops. |
| `MCLiveControl`, `MCFileControl` | – | instances for TLC: symmetry, and the bounds named below |
| `LiveControlProofs`, `LiveAgreementProofs`, `FileStoreProofs`, `FileControlProofs`, `RegistryProofs` | – | the theorems about the control side; `LiveAgreementProofs` EXTENDS `LiveControlProofs` |
| `PacingProofs`, `PacingTimeProofs` | – | the theorems about `Pacing`: how it ends, types, order, sending times and refinements; on top of them, a file on a server that is not late |
| `OggProofs` | – | the theorems about `OggPackets` |

How they fit together. `LiveControl` knows of a runtime only whether its engine
waits, runs, is being stopped or is over; `Pacing` shows why that is enough:
both modules implement one specification, `RuntimeLife`, the former from the
outside (`OneLife`), the latter from inside (`EngineLife`); engines end with their
source (`EndsWithSource`, the fairness of `Drain`) and `stop()` ends (`StopEnds`,
that of `Cancelled`). It has one socket per device,
which `Registry` justifies: commands go to the newest (`NewestServed`), and an
older one is on its way out (`ReplacedEnds`). A frame that `Pacing` sends is one
fanout of `Registry`. `FileControl` is the composition of FILE requests with the
file store, which it changes by the store's own steps only (theorem
`RefinesStore`); of LIVE it has the start and the end as `Session` allows them.
The packets `Pacing` reads from a file are what `OggPackets` yields.

### Abstractions in LiveControl

- A send suspends only if `SendMaySuspend`; then it may be at any device, with
  any of the others reached already. The order of devices in a broadcast is free.
- `cmd[d] = "lost"` is the time in which the transport is closing but `ws.closed`
  is still False: a send raises. Once the handler has seen the end of the
  connection the socket is "off". "closed" is a socket the heartbeat has closed
  and no handler will remove.
- An exception in a handler ends it where it is; later steps are skipped and
  `finally` blocks run.
- `await ing.close()` takes effect at once; the studio's handler sees it later
  (`gone`).
- `runtime.stop()` on a runtime whose engine is not started returns at once and
  leaves it "ready": its `_run_live` goes on waiting for `/audio`.
- Coroutines that await the same engine are woken together and run one after
  the other before anything else (`woken`); the second disjunct of `Cancelled`
  is an engine that saw `_active = False` before the cancellation reached it.
- One socket per device: a device reconnects only after its old socket has gone
  (or leaked). Reconnection over a live socket is in `Registry`.
- FILE appears as its effect on the session state; the rest is in `FileControl`.
- A request may name a source that cannot be parsed ("bad"): `live_start_handler`
  raises once its LIVE_START is sent. A `frame_ms` that is no number is left out: it
  raises between `start_live()` and the sends, and leaves the session LIVE likewise.
- Left out: `_cmd_id`, message contents, authentication.

### Abstractions in Pacing

- Time is an integer; a frame is 1 to 4 units, so a poll of a quarter of a frame
  (`FrameMs \div 4`) is one unit or, in the coarser runs, none. Limits are scaled:
  1600/2000 ms become 3 to 5 frames. The policy compares sums of frames with
  limits, so the scale does not change which comparisons can go which way.
- Every fanout may suspend, and there is a scheduling point after each; the code
  sometimes goes on without one, so the model has more behaviours.
- Time may pass before a ready coroutine gets its turn: the server is late. The
  variable `lagged` remembers that it was; only `OnTime` and `NeverStale` read it.
- Frames are numbered as captured; a studio may leave out numbers (lost before
  they arrive, or refused by `_valid_frame`).
- A stop before the start of the engine is the same as no start.
- Left out: `PacingStats`, a looped file, the single sockets of a fanout.

### Abstractions in FileStore and FileControl

- A chunk is the upload it came from, a file the sequence of its chunks, and a
  SHA-256 that sequence again: digests are equal when the contents are. A hole
  that a write past the end leaves is `None`.
- Names are seconds (the one extension allowed, .mp3, distinguishes nothing). Two
  uploads of one second share the name; `open(path, "wb")` truncates the file for
  both, each goes on at its own position. A file that is removed stays readable
  for the upload that has it open: `link` and `data` are separate.
- A restart ends every upload where it is, without the clean-up of `save_stream`
  (`os._exit`, or a crash), takes at least a second (systemd's RestartSec is 2),
  and rebuilds the index from the directory.
- A device downloads in one step. That is enough: what it plays is decided by one
  comparison of digests at the end, and `data` may have changed before it.
- The file system may refuse: `open()` raises (`OpenFails`, whose clean-up removes
  whatever has the name), so does `os.remove` (the second disjunct of `Remove`: the
  file stays), and the rescan skips a file it cannot read. The history variable
  `refused` records the names whose files that left behind. `nginx` serves them on.
- Devices refuse what they cannot take as the documents say: BUSY while they
  fetch, PREEMPTED_BY_LIVE while they are in a LIVE. Their reports are read in order
  and later. A lost connection loses them; the history variable `unanswered` records
  which FILE that concerned.
- Which devices are in a LIVE (`inLive`) is what they were told, not the state of the
  server. Without suspended sends they are told of a LIVE while it is in progress
  and leave it at its end at the latest. With them, a device may be told of a LIVE at
  any later time, or never of its end, until its connection breaks: more than
  `LiveControl`, which has the messages themselves, allows. The history variable
  `ignored` records the FILEs that a device refused or gave up for a LIVE; the
  server takes no notice of such reports.
- Names in FILE_START are not modelled as names: the server makes up a new one
  per transmission; the URL says which file is meant.

### Abstractions in Registry

- The order of sockets and their owners are chosen at the start (`owner`, `chan`);
  actions take them in order.
- `conn` "lost" is the time in which the transport is closing and `ws.closed` is
  still False; sends raise, `all_audio` still lists the socket.
- `ws.close()` of a socket whose handler is in `receive()` feeds that receive a
  closing message and waits for it; of any other it marks the socket closed at
  once and waits for the peer for up to 3 s (aiohttp's behaviour).
- A report that awaits something is one suspension, of any length.
- One frame at a time is in a fanout, as in the sending loop. A sweep may suspend
  at any socket, or at none.
- `AudioWithout` is the comprehension of `remove_audio`, i.e. `SelectSeq`. It is
  written by the places of the sockets kept, because the provers know nothing of
  `SelectSeq`; TLC finds the two equal on lists of up to four sockets.

### Abstractions in OggPackets

- A byte is the number of the packet it belongs to; 255 is the constant `Full`.
  The first byte of packets 1 and 2 stands for their names, `OpusHead` and
  `OpusTags`, by which the parser leaves them out.
- The capture pattern is found at pages only (a packet that contains `OggS`
  misleads the parser only after damage). Foreign bytes between pages are one item
  of the file. A page may be empty.
- The file may end behind any page header: between packets, inside one, or some
  bytes before the end of the last page's body (`missing`).
- `marks` records where the writer was at each segment; the parser never reads it.

## 3. What TLC checks

`pass` runs end without error; `violation` runs reproduce a disagreement between
the code and one of its documents or comments (section 4).

| Run (module) | Properties | Instance | Distinct states |
|---|---|---|---|
| `live_agreement` (MCLiveControl) | `Agreement` | 1 request, 1 studio, 2 devices, 2 sessions, 1 FILE; no loss, no suspension | 1.2 M |
| `live_loss` | `ToldOnlyCurrent`, `LiveIsCurrent` | as above, one device's connection may break, samples played once or bad, no FILE | 1.6 M |
| `live_suspend` | `LiveTypeOK`, `OneBroadcaster`, `OwnSession`, `SlotReleased`, `NoStuckLive`, `SessionSpec`, `OneLife` | 1 request, 2 studios, 1 device, target lists, sends suspend, 2 sessions with 1 FILE or 1 session with 2 FILEs | 1.6 M |
| `live_progress` | `StopReturns`, `EngineOutlivesNoStudio`, `HangUpEndsLive`, `UnansweredLiveEnds` | 1 of each, samples played once, for ever or bad, 2 sessions, fairness | 29 k |
| `pace_safe` (Pacing) | `PacingTypeOK`, `BurstBounded`, `FileTimeline`, `NothingLeftBehind`, `InOrder`, `EngineLife`, `NeverEarly`, `SilentAfterStop`, `OnTime` | studio or file, 5 frames, queues of 2 and 3, a server that may be late at any time or never | 2.2 M |
| `pace_ends` (Pacing) | `NeverStale`, `EndsWithSource`, `StopEnds`, `Unblocked` | studio or file, 3 frames of 4 units, queues of 1, fairness | 127 k |
| `files` (MCFileControl) | `FileTypeOK`, `IndexTrue`, `FileAnswerable`, `PlayedWhole`, `NothingReturns`, `LiveSurvivesFile` | 2 uploads of up to 2 chunks, 2 names, 2 devices of which one may lose its connection, 1 request at a time, 2 FILEs, 1 LIVE, 1 restart, sends suspend, the file system may refuse | 1.7 M |
| `registry` (Registry) | `NewestServed`, `FrameReachesAll`, `OpenAudioStays`, `ReplacedEnds`, `DeadLeave` | 3 sockets of 2 devices on either channel, fairness | 84 k |
| `ogg` (OggPackets) | `YieldsAll`, `YieldsBeforeCut` | up to 4 packets of 0 to 4 bytes, `Full` = 2, 3 pages or gaps, every division into pages, every end and every cut of the last page | 2.6 M |
| `late_engine`, `stuck_live` (MCLiveControl), `name_clash` (FileStore) | see section 4 | | |

Why these bounds: two sessions are what it takes for a coroutine of the first
to act on the second; two devices for a broadcast to reach one and not the
other; two studios for a race over the slot. A queue of one to three frames is
full, empty and in between; a backlog passes both limits and a burst group
reaches its maximum. `pace_ends` has longer frames, for which the loop's poll of a
quarter of a frame takes time: with shorter ones a studio's queue cannot be found
empty without the clock being held back, and a studio that pauses counts as a late
server. In `files`, two uploads clash or not, one restart cuts one
off, and two FILEs are what a late answer to the first needs to end the second.
`MCFileControl.Bounded` cuts the product of the two dimensions: with both uploads
begun there are one connected device, one FILE or restart and no LIVE; with two
FILEs or a LIVE the clock moves at a restart only and uploads have one chunk; after
a restart there is one FILE or one LIVE; and what the file system refused meets one
FILE and no LIVE. What is cut is the second upload amid the second FILE; the two
meet in the index only, and the theorems of section 5 do without the bound. A late
answer from before the restart can meet the FILE or the LIVE that comes after it.
In `live_suspend`, `MCLiveControl.Bounded` lets two sessions meet one FILE, which a
LIVE preempts, or two FILEs, of which the second replaces a stale one, meet one
session. Three sockets are a socket, its successor and a
bystander (or a third life of the same device). With `Full` = 2, packets of 0 to 4
bytes are empty, short, and one or two times `Full`; two packets besides the headers
and two pages are what it takes for a packet to be carried and another to follow it.

Some properties hold only under conditions, which the runs make explicit.
`Agreement`, `ToldOnlyCurrent` and `LiveIsCurrent` hold while sends do not
suspend; with suspension the code does break them (a device that connects during
a suspended final LIVE_STOP is told to join and never to leave). `SlotReleased`
and `NoStuckLive` hold while neither sends nor sources raise, `HangUpEndsLive` while they do
neither. That is the practical summary: the handlers are sound as long as a send
is one step that succeeds, and the runs say what is lost with each of the two.

`IndexTrue` speaks of names that one upload has (section 4 shows the others), and
`PlayedWhole` of the time before a restart: the rescan of a restart takes the
digest of what it finds, a partial file included, and the code cannot tell.
`DeadLeave` excepts the socket whose announcement raised (section 4).
`NothingReturns` excepts the files that the file system refused to remove or to read.
`FileAnswerable` excepts a FILE an answer to which was lost with its connection and,
where sends suspend, one that a device took to meet a LIVE: the code has no other
way out of these than FILE_STALE_SEC.

Deadlock is checked in the LIVE runs, in `files` and in `registry`. In the Pacing
runs it is not: the clock ends at `MaxTime`, and a broadcast that is over, or that
no device joins, stops. A parser that has read its file stops, and so do uploads.

### Fairness

`LiveControl`: the event loop runs every coroutine that can go on; a paused
transport drains or breaks (the heartbeat closes it); the ready time-out passes
(`_run_live` has a deadline); a source that ends is paced out. Requests, studios
and devices promise nothing, and no fairness is assumed of them.
`Registry`: every ready coroutine runs, what a report awaits ends, and the
3-second time-out of `_close_old` passes. `ReceiveEnds` has strong fairness: a
handler may read reports that came before the end of its connection, and each
takes it out of `receive()`, but there are finitely many. Nothing is assumed of
devices.
`Pacing`: every ready coroutine runs, a fanout returns, time passes. In the last
instant of the modelled time all alarms ring, so that nobody waits for a time
beyond the bound.

## 4. Where the code and its documents differ

| Run | What happens |
|---|---|
| `late_engine` | live/stop while a runtime waits for `/audio` cancels nothing; the engine starts later (`http_api.py:180` says nothing is done) |
| `stuck_live` | a broken connection under the final LIVE_STOP leaves the session LIVE (`ingest_channel.py:189`) |
| `name_clash` | two uploads of one second share a file, and the index offers a digest no file has (`file_manager.py:8` says the policy prevents clashes); devices then refuse the file (`PlayedWhole`) |

Noticed while modelling, without a run of their own:

- A source that makes `live_start_handler` raise leaves the session
  LIVE like `stuck_live`, until live/stop: `NoStuckLive` with "bad" in `Plays` shows it.
- The exception of `stuck_live`, raised under a studio's LIVE_START, leaves the
  broadcaster's slot taken: `SlotReleased` with `Flaky = {d1}` shows it.
- A device outside the studio's list of devices is told to join when it
  reconnects: `_resync_live` does not know the list (`ingest_channel.py:148`).
- A connection that breaks under the announcement to a device that has just
  connected leaves its socket registered until the device comes back, since
  `_resync_live` is awaited before the `try` of `cmd_handler` (`config.py:57`
  speaks of dead connections that stay for ever). It is the exception in
  `DeadLeave`: without it TLC finds the case.
- `delete()` catches what `os.remove` raises, pops the index entry and returns True
  ("성공하면 True", `file_manager.py:143`) although the file is still there: devices
  can still fetch it, and the next rescan offers it again. A failed upload whose
  file cannot be removed (`file_manager.py:116`) comes back in the same way.
  `NothingReturns` without `refused` shows both.
- PREEMPTED_BY_LIVE is ignored because a LIVE has started
  (`cmd_channel.py:171`). A device that a suspended LIVE_STOP left in a LIVE that is
  over says it too; the FILE it refuses is then in progress until FILE_STALE_SEC has
  passed, unless another device answers. `FileAnswerable` without `ignored` shows it.
- FILE_END and FILE_ABORT are not matched with `file_id` or device, so a late answer
  to an earlier FILE (one that went stale, was preempted, or was told before a
  restart), or the roll-back of an earlier broadcast that was suspended, ends a newer
  FILE while devices work on it. It never ends a LIVE (`LiveSurvivesFile`).
- Frames that never arrive get no index, so each one makes all later frames of a
  studio count as one frame later, until frames just captured are dropped
  (`07_LIVE_BURST_POLICY.md:181`).
- The same document, which says of itself (line 52) that it is partly a target,
  would judge each frame when it is sent; the code judges a burst group once, and
  groups follow one another without a pause while the head is late.

## 5. What is proved

Checked by tlapm without axioms beyond the named assumptions on the constants.
The theorems hold for any number of requests, studios, devices, sockets, uploads,
sessions and restarts, any length of queues and frames, with sends that suspend
and fail at will where the statement does not say otherwise. Every invariant and
action property of a `pass` run is proved, and so are the refinements.

Some theorems carry hypotheses in their statement, the same that the runs for
their properties set:

| Hypothesis | Meaning | Used by |
|---|---|---|
| `NoSuspension` | `SendMaySuspend = FALSE`: a send completes or raises without a pause, which is what it does until the transport's buffer passes its high-water mark | `LiveAlwaysCurrent`, `DevicesToldCurrent`, `AlwaysAgreed` |
| `NoLoss` | `Flaky = {}`: no connection breaks (section 4 has what happens when one does) | `SlotAlwaysReleased`, `LiveNeverStuck`, `AlwaysAgreed` |
| `"bad" \notin Plays` | every source opens | `LiveNeverStuck`, `AlwaysAgreed` |
| `Lists = {}` | a LIVE is for all devices: one outside a list is left untold on purpose | `AlwaysAgreed` |
| `Patience` | a poll of the empty queue (a quarter of a frame) is within both backlog limits, 1600 and 2000 ms: true of frames up to 6.4 s, and Opus frames last at most 120 ms | `FileOnTime` |

`LiveControlProofs`: `TypeCorrect` (`LiveTypeOK`), `RefinesSession`
(`SessionSpec`: every step of the handlers is one operation of the session state
machine that its state allows, or leaves it alone), `SingleBroadcaster`
(`OneBroadcaster`) and `SessionsOwned` (`OwnSession`). `LiveTypeOK` is inductive by
itself, one lemma for each kind of coroutine, on top of lemmas about the effect
of a broadcast (`Sends`, `Stops`, `Starts`). `OneBroadcaster` and `OwnSession` are
not: nothing in them says that a session number just given out is new, or that a
studio that streams has a runtime. `Owned` adds that runtimes above `session_id`
do not exist, that whoever is starting a session has a number between 1 and
`session_id`, and that a studio past its start has an existing runtime. Steps that
neither start a session nor end a stream are `Calm` and keep `Owned` for one
common reason.

`FileStoreProofs`: `StoreTypes` (`StoreTypeOK`), `StoreIndexTrue` (`IndexTrue`),
`StoreNothingReturns` (`NothingReturns`). `IndexTrue` is not inductive: a
rescan offers whatever is on disk, and an upload ends with the digest of what it
received. `StoreInv` adds that an upload alone with its name has a file of its own
that holds what it has received (`AloneWritten`), that directory entries and index
entries belong to uploads of their name (`LinksNamed`, `IndexUploaded`), and that a
file on disk that is not offered is being uploaded or is one that the file system
refused to remove or to read (`UnofferedWriting`, which is also why nothing else
returns).

`FileControlProofs`: `RefinesStore` (`Spec => StoreSpec`: every step of FILE control
is a step of the store or leaves it alone), from which `OfferedOnDisk` (`IndexTrue`
of the whole) follows; `FileTypeCorrect` (`FileTypeOK`); `FileAnswered`
(`FileAnswerable`); `LiveSurvives` (`LiveSurvivesFile`); `DevicesPlayWhole`
(`PlayedWhole`). `FileAnswerable` is inductive once it is known that the id of a FILE
in progress is not 0 (`AnswerInv`), that a request or a device with something to
do has an id (`FetchNumbered`, `ReqNumbered`), and that without suspended sends no
device is in a LIVE that is over (`BeliefInv`, so that the exception for refused
FILEs is not needed then): the argument is which steps take an
answer away (`Pending`), and that each of them ends the FILE or records the loss.
`WholeInv`
traces a digest from an upload that is over, over the index and FILE_START, to the
device: deletion, overwriting and clashing names never change a digest once
announced. The effect of a broadcast's three outcomes is one lemma (`SendEffect`).

`LiveAgreementProofs`. While sends do not suspend, nobody is ever in the middle of
a broadcast (`Unparked`, inductive), so that what the handlers set after their
sends is set in the same step. `LiveIsCurrent` and `ToldOnlyCurrent` then hold
together (`Believed`), since a device is told of a LIVE from `app["live"]`:
`LiveAlwaysCurrent`, `DevicesToldCurrent`. While connections do not break, a
device's handler that works has an open connection and no broadcast raises
(`Sound`); each step then moves one coroutine or none, and a studio's handler
reaches the end of its `finally` block: `SlotAlwaysReleased` (`SlotReleased`). For
`LiveNeverStuck` (`NoStuckLive`), a LIVE without a runtime has a coroutine at work
(`Handled`), and one with a runtime has `_run_live` waiting for its engine
(`Paced`). `AlwaysAgreed` (`Agreement`) puts the two together: every broadcast
reaches all at once (`BroadcastReaches`), and a session in progress has a number
other than 0, which is what `_resync_live` tests (`Agreed`).

`RegistryProofs`: `NewestServedAlways` (`NewestServed`), which is inductive together
with the types of the variables it reads (`CmdInv`). `FramesReachAll`
(`FrameReachesAll`) and `OpenAudioNeverDropped` (`OpenAudioStays`) come from one
invariant, `AudioInv`: a socket that is gone never comes back, so that a suspended
fanout's list of the dead stays true, and every socket before its place was sent
the frame or is dead. That a filtered list holds exactly the sockets kept
(`WithoutSockets`) rests on a counting lemma: the places kept are numbered 1, 2, ...
without a gap (`Places`, an injection between sets of one size is onto).
`AudioInvariant` and `RegistryTypes` are stated as well.

`PacingProofs`. `EndInv` says how far `stop()` has got and which task is over by
then, what an empty queue with a finished producer means, and that a file's producer
is over only when nothing is left in its buffer: `EngineDrains` (`NothingLeftBehind`)
and `StopSilences` (`SilentAfterStop`). `PipeInv` adds the types, that a blocked
producer holds a frame, and that the End signal is the last of what is pending:
`PacingTypes` (`PacingTypeOK`) and `BurstsAreBounded` (`BurstBounded`, by the
arithmetic of `BurstFrames`). What the producer moves is one lemma for its three
actions (`Moved`, `ProducerMoves`): some frames from the front of what is pending
(the held frame and the source's queue as one sequence) go to the end of the
engine's queue with the next indices. `FileKeepsTime` (`FileTimeline`) adds that
what is pending of a file is exactly what follows the frames submitted (`FileInv`).
`OrderInv` says that frames and indices rise along the whole way, over both queues,
the held frame and a burst in progress, and that what is being sent was due when it
was taken: `FramesNeverEarly` (`NeverEarly`).

`FramesNeverStale` (`NeverStale`) rests on one more invariant, `HandFresh`: on a
server that has not been late, whatever of a burst is still to be sent is within both
backlog limits *now*. A turn keeps only such frames (`KeptFresh`: indices rise, so
that behind a head within a limit all are), and no time passes while the rest of a
burst is due, since that would be lateness.

Two refinements. `HeardInOrder` (`InOrder`): in `LossyFeed`, `Receive` is a `Put`,
`SendFrame` a `Send`, and each drop (a full studio queue, a late head, a stop, a
cancelled producer) a `Lose`. `EngineLives` (`EngineLife`): in `RuntimeLife`, the
engine ends by itself only after its source has (`SourceSeen`: the producer is over
only then, or after a stop), and `stop()` returns with both tasks over.
From the handlers' side, `LiveControlProofs` has `EachLivesOnce` (`OneLife`) and
`RefinesLife`, the same for each runtime as a specification. It needs `Owned`: that a
session's `LIVE_START` completes for a runtime that does not exist yet is what keeps
one from being created twice.

`PacingTimeProofs`: `FileOnTime` (`OnTime`). Its invariant `Punctual` relates the
loop's alarm, the producer's retry and the time of the next frame, as long as the
server has not been late. While frames are queued the alarm is never beyond the
latest time allowed for the first of them (`Latest`). When the queue has run empty
under a producer that sleeps for half a frame, the producer refills it by half a
frame and a poll after the frame before, and the loop finds that at the next poll:
within one frame, since 1/4 + 1/4 + 1/2 is 1 (`Periods`, for every integer length,
where division rounds down). So only the first packet can be late, by the poll that
came before the producer's first turn. TLC checked `Punctual` with frames of 4, 5 and
9 units, where a poll is not 0, before it was proved.

`OggProofs`: `AllYielded` (`YieldsAll`) and `WholeBeforeCut` (`YieldsBeforeCut`), for
every lacing value, any packets and any file. What a parser yields is a recursion
over bytes, which the provers cannot unfold; here it is an induction over steps
instead, because writer and parser go by the same segments. `WriterInv` says what the
file is: each item begins where the one before ends (`Chained`), the body between two
marks holds the packet of that segment (`Filled`), and a short segment ends its packet
(`Ended`). `ParserInv` says that the parser, up to the place where the file ends, has
exactly what the writer had there (`Aligned`: the bytes of the packet under way, and
all audio packets before it), and has yielded every packet that ends before the cut
(`WholeYielded`).

Only model-checked: all liveness (`StopReturns`, `EngineOutlivesNoStudio`,
`HangUpEndsLive`, `UnansweredLiveEnds`, `EndsWithSource`, `StopEnds`, `Unblocked`,
`ReplacedEnds`, `DeadLeave`): fairness is beyond the prover.

## 6. Not modelled

- Authentication (`auth.py`), configuration, logging, nginx and systemd files, the
  health page: no state shared with the rest.
- The devices' firmware, except as the environment of the models.
- A restart in `LiveControl`: `os._exit` breaks all connections and forgets all
  state, so that the state after it is `Init`; devices leave a LIVE whose
  connection breaks. What survives a restart (files, devices at work on a FILE) is
  in `FileControl`.
- An Ogg page that is lost inside a file, a page header that is cut, a looped file in
  `Pacing`, and a clock that is set back (it would give a name twice).

## 7. Plan

1. *Done*: all components with state of their own; every safety and action property
   of the `pass` runs, for all sizes; the life of a runtime as one specification that
   `Pacing` and `LiveControl` both implement; how old a frame of a studio can be when
   it is sent on a server that is not late.
2. Left: what devices may believe outside a broadcast while sends do suspend.
