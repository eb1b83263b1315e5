------------------------------ MODULE Pacing ------------------------------
(***************************************************************************)
(* The way of an Opus frame through the server, and what it costs in time: *)
(*   IngestSource (ingest_channel.py)  a bounded queue fed by the studio,  *)
(*                                     or LocalOpusSource, a file;         *)
(*   _produce     (pacing.py)          the producer task of a LiveRuntime; *)
(*   PacingEngine (pacing.py)          its queue and its sending loop.     *)
(*                                                                         *)
(* The producer, the loop, stop() and the studio's handler are coroutines  *)
(* of one thread; an action is what one of them does between suspensions.  *)
(* Time is an integer clock.  It may run on while a coroutine that could   *)
(* go on has not got its turn: the server is late.                         *)
(*                                                                         *)
(* Left out: the counters of PacingStats, a file that is looped, and the   *)
(* single devices behind the fanout (they hear the same frames).           *)
(***************************************************************************)
EXTENDS Integers, Sequences, FiniteSets

CONSTANTS
  FrameMs,      \* frame_ms, in units of time
  BurstMs,      \* BURST_GROUP_MAX_MS
  PreserveMs,   \* BACKLOG_PRESERVE_MS
  DiscardMs,    \* BACKLOG_DISCARD_MS
  QueueMax,     \* queue_max of the engine
  FeedMax,      \* maxlen of IngestSource
  Kinds,        \* what may feed the runtime: "studio", "file"
  MaxFrame,     \* bound: frames a source supplies
  MaxTime       \* bound: where the clock stops

ASSUME PacingAssumption ==
  /\ FrameMs \in Nat \ {0}
  /\ BurstMs \in Nat
  /\ PreserveMs \in Nat
  /\ DiscardMs \in Nat
  /\ QueueMax \in Nat \ {0}
  /\ FeedMax \in Nat \ {0}
  /\ Kinds \subseteq {"studio", "file"}
  /\ MaxFrame \in Nat
  /\ MaxTime \in Nat

VARIABLES
  now,      \* the monotonic clock
  lagged,   \* time has passed while a coroutine was due (read by properties only)
  kind,     \* what feeds the runtime
  newest,   \* number of the last frame captured; a studio captures frame k at
            \* time k * FrameMs at the earliest, and may leave out frames
  buffer,   \* IngestSource._q, or what the file still holds; End comes last
  closed,   \* IngestSource._closed
  prod,     \* _produce: suspended in get(), or in submit() on a full queue
  held,     \* the frame that submit() waits with, 0 for none
  retry,    \* when submit()'s sleep ends
  q,        \* PacingEngine._q
  next_idx, \* _submit_idx
  start_ms, \* _start_ms
  active,   \* _active
  run,      \* PacingEngine.run: "loop" at its loop, "sending" in a fanout
  hand,     \* frames taken from q that are still to be sent
  wake,     \* next_wake, None if _step returned None
  alarm,    \* when the loop's sleep ends
  heard,    \* the last frame sent
  stop      \* runtime.stop(): whom it waits for

clock == <<now, lagged>>
engine == <<q, next_idx, start_ms, active, run, hand, wake, alarm, heard>>
feeder == <<kind, newest, buffer, closed, prod, held, retry>>
vars == <<clock, feeder, engine, stop>>

End == 0        \* the None that close() puts, or the end of the file
None == -1

Entry == [idx : Nat, frame : 1..MaxFrame]

PacingTypeOK ==
  /\ now \in 0..MaxTime
  /\ lagged \in BOOLEAN
  /\ kind \in {"studio", "file"}
  /\ newest \in 0..MaxFrame
  /\ buffer \in Seq(0..MaxFrame) /\ (kind = "studio" => Len(buffer) <= FeedMax)
  /\ closed \in BOOLEAN
  /\ prod \in {"none", "new", "get", "full", "over"}
  /\ held \in 0..MaxFrame
  /\ retry \in Nat
  /\ q \in Seq(Entry) /\ Len(q) <= QueueMax
  /\ next_idx \in Nat
  /\ start_ms \in 0..MaxTime
  /\ active \in BOOLEAN
  /\ run \in {"none", "loop", "sending", "over"}
  /\ hand \in Seq(Entry)
  /\ wake \in Nat \cup {None}
  /\ alarm \in Nat
  /\ heard \in 0..MaxFrame
  /\ stop \in {"no", "producer", "run", "done"}

\* What frames() of a LocalOpusSource yields: its packets, and the end.
FileItems == [i \in 1..MaxFrame + 1 |-> i % (MaxFrame + 1)]

Init ==
  /\ now = 0 /\ lagged = FALSE
  /\ kind \in Kinds
  /\ newest = IF kind = "file" THEN MaxFrame ELSE 0
  /\ buffer = IF kind = "file" THEN FileItems ELSE <<>>
  /\ closed = FALSE
  /\ prod = "none" /\ held = 0 /\ retry = 0
  /\ q = <<>> /\ next_idx = 0 /\ start_ms = 0 /\ active = FALSE
  /\ run = "none" /\ hand = <<>> /\ wake = None /\ alarm = 0
  /\ heard = 0
  /\ stop = "no"

Least(a, b) == IF a <= b THEN a ELSE b
Greatest(a, b) == IF a >= b THEN a ELSE b

\* An alarm rings at its time, and at the end of the modelled time.
Rings(time) == now >= time \/ now = MaxTime

-----------------------------------------------------------------------------
(* IngestSource *)

push_unbounded(k) ==     \* mutant: an unbounded queue
  newest' = k /\ buffer' = Append(buffer, k)

\* push(): a full queue loses its oldest frame.
push(k) ==
  /\ newest' = k
  /\ buffer' = Append(IF Len(buffer) < FeedMax THEN buffer ELSE Tail(buffer), k)

\* The studio's next valid frame arrives; frames may be missing before it.
Receive ==
  /\ kind = "studio" /\ ~closed
  /\ \E k \in newest + 1..MaxFrame : k * FrameMs <= now /\ push(k)
  /\ UNCHANGED <<clock, kind, closed, prod, held, retry, engine, stop>>

\* close(): the signal is lost when the queue is full.
Close ==
  /\ kind = "studio" /\ ~closed
  /\ closed' = TRUE
  /\ buffer' = IF Len(buffer) < FeedMax THEN Append(buffer, End) ELSE buffer
  /\ UNCHANGED <<clock, kind, newest, prod, held, retry, engine, stop>>

-----------------------------------------------------------------------------
(* _produce *)

\* The frames of batch.  End can only be its last item.
Frames(batch) ==
  IF batch # <<>> /\ batch[Len(batch)] = End
  THEN SubSeq(batch, 1, Len(batch) - 1) ELSE batch

ExhaustedBySignal(batch, frames) == Len(frames) < Len(batch)   \* mutant

\* frames() ends at the End signal, or because the source was closed.
Exhausted(batch, frames) == closed \/ Len(frames) < Len(batch)

\* The producer goes on with the items of batch until the engine's queue is
\* full or it has to wait for more; rest stays in the buffer.
Produce(batch, rest) ==
  LET frames == Frames(batch)
      fit == Least(Len(frames), QueueMax - Len(q))
  IN /\ q' = q \o [i \in 1..fit |-> [idx |-> next_idx + i - 1, frame |-> frames[i]]]
     /\ next_idx' = next_idx + fit
     /\ IF fit < Len(frames)
        THEN /\ prod' = "full"
             /\ held' = frames[fit + 1]
             /\ retry' = now + FrameMs \div 2
             /\ buffer' = SubSeq(batch, fit + 2, Len(batch)) \o rest
        ELSE /\ prod' = IF Exhausted(batch, frames) THEN "over" ELSE "get"
             /\ held' = 0
             /\ buffer' = rest
             /\ UNCHANGED retry
     /\ UNCHANGED <<clock, kind, newest, closed, start_ms, active, run, hand, wake,
                    alarm, heard, stop>>

\* The task's first steps.
ProducerBegins ==
  /\ prod = "new" /\ stop = "no"
  /\ Produce(IF closed THEN <<>> ELSE buffer, IF closed THEN buffer ELSE <<>>)

\* get() returns.  frames() ends when the source was closed meanwhile, whatever
\* the queue still holds.
Pull ==
  /\ prod = "get" /\ stop = "no"
  /\ buffer # <<>>
  /\ IF closed THEN Produce(<<Head(buffer)>>, Tail(buffer)) ELSE Produce(buffer, <<>>)

Retries == prod = "full" /\ stop = "no" /\ Rings(retry)

SubmitTwice ==    \* mutant: the held frame is put again
  Retries /\ Len(q) < QueueMax /\ Produce(<<held, held>> \o buffer, <<>>)
SubmitSpare ==    \* mutant: one place is always kept free
  Retries /\ Len(q) < QueueMax - 1 /\ Produce(<<held>> \o buffer, <<>>)

\* submit() wakes up, and finds room in the engine's queue or sleeps again.
Submit ==
  /\ Retries /\ Len(q) < QueueMax
  /\ IF closed THEN Produce(<<held>>, buffer) ELSE Produce(<<held>> \o buffer, <<>>)

SleepAgain ==
  /\ Retries /\ Len(q) = QueueMax
  /\ retry' = now + FrameMs \div 2
  /\ UNCHANGED <<clock, kind, newest, buffer, closed, prod, held, engine, stop>>

-----------------------------------------------------------------------------
(* PacingEngine *)

Expected(idx) == start_ms + idx * FrameMs
MaxBurst == Greatest(1, BurstMs \div FrameMs)

\* popleft() while the head is later than limit.
DropLate(s, limit) ==
  LET late == {i \in DOMAIN s : \A j \in 1..i : now - Expected(s[j].idx) > limit}
  IN SubSeq(s, Cardinality(late) + 1, Len(s))

KeptLenient == DropLate(q, DiscardMs)   \* mutant: only the outer limit is applied

Kept == DropLate(DropLate(q, DiscardMs), PreserveMs)

BurstFramesAll(backlog) == Greatest(1, backlog \div FrameMs)   \* mutant: no limit

\* Frames of one burst group, for a head that is backlog late.
BurstFrames(backlog) ==
  Least(Greatest(1, Least(BurstMs, backlog) \div FrameMs), MaxBurst)

\* A turn that sends the first n frames.
Taking(n) ==
  [out  |-> SubSeq(Kept, 1, n),
   rest |-> SubSeq(Kept, n + 1, Len(Kept)),
   wake |-> IF n = Len(Kept) THEN None ELSE Expected(Kept[n + 1].idx)]

_step_eager ==     \* mutant: the head is sent without a look at its time
  Taking(IF Kept = <<>> THEN 0
         ELSE Least(BurstFrames(now - Expected(Kept[1].idx)), Len(Kept)))

\* _step: what it sends, what it leaves in the queue and when to wake up.
_step ==
  LET backlog == now - Expected(Kept[1].idx)
      due == {i \in 1..Least(BurstFrames(backlog), Len(Kept)) :
                Expected(Kept[i].idx) <= now}
  IN Taking(IF Kept = <<>> \/ backlog < 0 THEN 0 ELSE Cardinality(due))

DrainedEager(queue) == queue = <<>>     \* mutant: producer_done is not read
Drained(queue) == queue = <<>> /\ prod = "over"

PollLazy == FrameMs                     \* mutant: looks once a frame
Poll == FrameMs \div 4

\* run() after its last fanout: it ends, or sleeps before the next turn.
Rest(queue, w) ==
  IF Drained(queue)
  THEN active' = FALSE /\ run' = "over" /\ UNCHANGED alarm
  ELSE /\ alarm' = IF queue = <<>> THEN now + Poll
                   ELSE IF w = None THEN now
                   ELSE now + Greatest(0, Least(w - now, FrameMs))
       /\ run' = "loop"
       /\ UNCHANGED active

\* One turn of run(), up to its first send.
Step ==
  /\ run = "loop" /\ active /\ Rings(alarm)
  /\ q' = _step.rest
  /\ hand' = _step.out
  /\ wake' = _step.wake
  /\ IF _step.out = <<>>
     THEN Rest(_step.rest, _step.wake)
     ELSE run' = "sending" /\ UNCHANGED <<active, alarm>>
  /\ UNCHANGED <<clock, feeder, next_idx, start_ms, heard, stop>>

\* A fanout returns: one frame has gone to all devices.
SendFrame ==
  /\ run = "sending"
  /\ heard' = Head(hand).frame
  /\ hand' = Tail(hand)
  /\ IF Tail(hand) = <<>> THEN Rest(q, wake) ELSE UNCHANGED <<run, active, alarm>>
  /\ UNCHANGED <<clock, feeder, q, next_idx, start_ms, wake, stop>>

\* run() sees that the engine was stopped.
Quit ==
  /\ run = "loop" /\ ~active /\ Rings(alarm)
  /\ run' = "over"
  /\ UNCHANGED <<clock, feeder, q, next_idx, start_ms, active, hand, wake, alarm,
                 heard, stop>>

-----------------------------------------------------------------------------
(* LiveRuntime *)

\* start(): a device has opened /audio.
Start ==
  /\ run = "none"
  /\ now + MaxFrame * FrameMs <= MaxTime
  /\ start_ms' = now
  /\ active' = TRUE
  /\ run' = "loop" /\ alarm' = now
  /\ prod' = "new"
  /\ UNCHANGED <<clock, kind, newest, buffer, closed, held, retry, q, next_idx, hand, wake,
                 heard, stop>>

\* Whom stop() has to wait for, from the producer on.
Await == IF prod # "over" THEN "producer" ELSE IF run # "over" THEN "run" ELSE "done"

\* stop() empties the queue and cancels the producer.
Stop ==
  /\ run # "none" /\ stop = "no"
  /\ active' = FALSE
  /\ q' = <<>>
  /\ stop' = Await
  /\ UNCHANGED <<clock, feeder, next_idx, start_ms, run, hand, wake, alarm, heard>>

ProducerCancelledIdle ==     \* mutant: a blocked submit() is not interrupted
  /\ stop = "producer" /\ prod # "full"
  /\ prod' = "over" /\ held' = 0
  /\ stop' = IF run = "over" THEN "done" ELSE "run"
  /\ UNCHANGED <<clock, kind, newest, buffer, closed, retry, engine>>

ProducerCancelled ==
  /\ stop = "producer"
  /\ prod' = "over" /\ held' = 0
  /\ stop' = IF run = "over" THEN "done" ELSE "run"
  /\ UNCHANGED <<clock, kind, newest, buffer, closed, retry, engine>>

RunForgotten ==     \* mutant: only the producer is cancelled
  /\ stop = "run" /\ stop' = "done"
  /\ UNCHANGED <<clock, feeder, engine>>

RunCancelled ==
  /\ stop = "run"
  /\ run' = "over" /\ hand' = <<>>
  /\ stop' = "done"
  /\ UNCHANGED <<clock, feeder, q, next_idx, start_ms, active, wake, alarm, heard>>

-----------------------------------------------------------------------------

\* Somebody could go on right now.
Due ==
  \/ run = "loop" /\ Rings(alarm)
  \/ run = "sending"
  \/ prod = "new" \/ (prod = "get" /\ buffer # <<>>)
  \/ prod = "full" /\ Rings(retry)
  \/ stop \in {"producer", "run"}

Tick ==
  /\ now < MaxTime
  /\ now' = now + 1
  /\ lagged' = (lagged \/ Due)
  /\ UNCHANGED <<feeder, engine, stop>>

Server == \/ ProducerBegins \/ Pull \/ Submit \/ SleepAgain \/ Step \/ SendFrame \/ Quit
          \/ ProducerCancelled \/ RunCancelled

Next == Server \/ Receive \/ Close \/ Start \/ Stop \/ Tick

Spec == Init /\ [][Next]_vars

\* The event loop runs whoever is ready and a fanout returns (the heartbeat
\* closes a socket that does not take its data).  Whether the studio sends, a
\* device opens /audio or somebody stops the LIVE is up to them.
Fairness ==
  /\ WF_vars(ProducerBegins) /\ WF_vars(Pull) /\ WF_vars(Submit \/ SleepAgain)
  /\ WF_vars(Step) /\ WF_vars(SendFrame) /\ WF_vars(Quit)
  /\ WF_vars(ProducerCancelled) /\ WF_vars(RunCancelled)
  /\ WF_vars(Tick)

FairSpec == Spec /\ Fairness

-----------------------------------------------------------------------------
(* Safety *)

Entries(s) == {s[i] : i \in DOMAIN s}
FramesOf(s) == {e.frame : e \in Entries(s)}

\* Frames that have come in and are neither sent nor lost.
OnTheWay == (FramesOf(hand) \cup FramesOf(q) \cup {held} \cup Entries(buffer)) \ {End}

Feed == INSTANCE LossyFeed WITH waiting <- OnTheWay

\* Through two bounded queues that drop at different ends, a blocked submit(), a
\* burst in progress and a stop in the middle of it, the devices hear the frames
\* in the order they were captured, none twice.
InOrder == Feed!Spec

\* The runtime as its users see it.
life ==
  IF run = "none" THEN "ready"
  ELSE IF stop = "no" THEN (IF run = "over" THEN "over" ELSE "running")
  ELSE IF stop = "done" THEN "over" ELSE "stopping"
ended == closed \/ kind = "file"

Life == INSTANCE RuntimeLife

\* Two tasks and a stop() that waits for both lead the one life that the handlers
\* count on: an engine that nobody stops runs until its source has ended, however
\* often its queue is found empty before, and one that is over stays over.
EngineLife == Life!Spec

\* A burst group is at most BURST_GROUP_MAX_MS of audio, however late the server
\* is; a single frame may be longer than that.
BurstBounded == Len(hand) * FrameMs <= Greatest(BurstMs, FrameMs)

\* A file's packet keeps its place in time: neither back-pressure nor a full
\* queue ever skips or repeats an index, so packet k is due at (k - 1) frames.
FileTimeline ==
  kind = "file" => \A e \in Entries(q) \cup Entries(hand) : e.idx = e.frame - 1

\* An engine that ends by itself has left nothing unsent: the producer has no
\* frame in hand, and a file was read to its end.
NothingLeftBehind ==
  run = "over" /\ stop = "no" =>
    /\ prod = "over" /\ held = 0 /\ q = <<>> /\ hand = <<>>
    /\ kind = "file" => buffer = <<>>

\* No frame is sent before its time, whatever woke the loop.
NeverEarly ==
  [][heard' # heard => now >= Expected(Head(hand).idx)]_vars

\* As long as the server has not been late, nobody hears a frame that is later
\* than the two backlog limits allow, also when the studio paused or left frames
\* out and its timeline no longer agrees with the clock.
NeverStale ==
  [][~lagged /\ heard' # heard
       => now - Expected(Head(hand).idx) <= Least(PreserveMs, DiscardMs)]_vars

\* Once stop() has returned no frame is sent, not even the rest of a burst that
\* was under way when it was called.
SilentAfterStop == [][stop = "done" => heard' = heard]_vars

\* As long as the server has not been late, every packet of a file is sent, at
\* its own time or, when the loop found the queue empty before the producer first
\* ran, a quarter of a frame later.
OnTime ==
  [][kind = "file" /\ ~lagged /\ heard' # heard
       => /\ heard' = heard + 1
          /\ now - (start_ms + heard * FrameMs) \in 0..FrameMs \div 4]_vars

-----------------------------------------------------------------------------
(* Liveness *)

\* An engine whose source has ended ends too, also when the close signal did not
\* fit into the queue or the producer was blocked when it came.
EndsWithSource == run # "none" /\ (closed \/ kind = "file") ~> run = "over"

\* stop() returns, whatever the two tasks were doing.
StopEnds == stop # "no" ~> stop = "done"

\* A producer blocked by a full queue gets through, or is stopped.
Unblocked == prod = "full" ~> prod # "full"
=============================================================================
