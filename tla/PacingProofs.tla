---------------------------- MODULE PacingProofs ----------------------------
(***************************************************************************)
(* Theorems about Pacing, for all thresholds, queue sizes and any number   *)
(* of frames: how the engine, its producer and stop() end; types, the size *)
(* of a burst, the timeline of a file, sending times, and the order the    *)
(* devices hear.                                                           *)
(***************************************************************************)
EXTENDS Pacing, FiniteSetTheorems, SequenceTheorems, TLAPS

-----------------------------------------------------------------------------
(* How it ends *)

\* Where the two tasks are when stop() has been called, and how far it is.
StopInv ==
  /\ stop \in {"no", "producer", "run", "done"}
  /\ stop # "no" => ~active /\ run # "none"
  /\ stop \in {"run", "done"} => prod = "over"
  /\ stop = "done" => run = "over"

\* How the two tasks end by themselves.
DrainInv ==
  /\ active \in BOOLEAN
  /\ run \in {"none", "loop", "sending", "over"}
  /\ kind = "file" => ~closed
  /\ run = "none" => prod = "none"
  /\ stop = "no" /\ run \in {"loop", "sending"} => active
  /\ run \in {"none", "loop"} => hand = <<>>
  /\ stop = "no" /\ prod = "over" => held = 0 /\ (kind = "file" => buffer = <<>>)
  /\ stop = "no" /\ run = "over" => prod = "over" /\ q = <<>> /\ hand = <<>>

EndInv == StopInv /\ DrainInv

LEMMA EndInit == Init => EndInv
BY PacingAssumption DEF Init, EndInv, StopInv, DrainInv

\* What a turn of the producer does, whatever its batch is.
LEMMA ProduceEffect ==
  ASSUME NEW batch, NEW rest, Produce(batch, rest)
  PROVE  /\ prod' = "full" \/ (prod' \in {"over", "get"} /\ held' = 0 /\ buffer' = rest)
         /\ UNCHANGED <<clock, kind, newest, closed, start_ms, active, run, hand, wake,
                        alarm, heard, stop>>
BY DEF Produce

LEMMA ProducerInv ==
  ASSUME EndInv, ProducerBegins \/ Pull \/ Submit
  PROVE  EndInv'
<1>1. PICK batch, rest : /\ Produce(batch, rest)
                         /\ ~closed => rest = <<>>
  BY DEF ProducerBegins, Pull, Submit
<1>2. prod \in {"new", "get", "full"} /\ stop = "no"
  BY DEF ProducerBegins, Pull, Submit, Retries
<1>3. /\ prod' = "full" \/ (prod' \in {"over", "get"} /\ held' = 0 /\ buffer' = rest)
      /\ UNCHANGED <<kind, closed, active, run, hand, stop>>
  BY <1>1, ProduceEffect DEF clock
<1> QED
  BY <1>1, <1>2, <1>3 DEF EndInv, StopInv, DrainInv

LEMMA LoopInv ==
  ASSUME EndInv, Step \/ SendFrame \/ Quit
  PROVE  EndInv'
<1> USE DEF EndInv, StopInv, DrainInv
<1>1. CASE Step
  <2>1. /\ run = "loop" /\ active /\ stop = "no"
        /\ UNCHANGED <<kind, closed, buffer, prod, held, stop>>
        /\ q' = _step.rest /\ hand' = _step.out
    BY <1>1 DEF Step, feeder
  <2>2. CASE _step.out = <<>>
    <3>1. Rest(_step.rest, _step.wake)
      BY <1>1, <2>2 DEF Step
    <3> QED
      BY <2>1, <2>2, <3>1 DEF Rest, Drained
  <2>3. CASE _step.out # <<>>
    BY <1>1, <2>1, <2>3 DEF Step
  <2> QED
    BY <2>2, <2>3
<1>2. CASE SendFrame
  <2>1. /\ run = "sending" /\ hand' = Tail(hand) /\ q' = q
        /\ UNCHANGED <<kind, closed, buffer, prod, held, stop>>
    BY <1>2 DEF SendFrame, feeder
  <2>2. CASE Tail(hand) = <<>>
    <3>1. Rest(q, wake)
      BY <1>2, <2>2 DEF SendFrame
    <3> QED
      BY <2>1, <2>2, <3>1 DEF Rest, Drained
  <2>3. CASE Tail(hand) # <<>>
    BY <1>2, <2>1, <2>3 DEF SendFrame
  <2> QED
    BY <2>2, <2>3
<1>3. CASE Quit
  BY <1>3 DEF Quit, feeder
<1> QED
  BY <1>1, <1>2, <1>3

LEMMA StopStep ==
  ASSUME EndInv, Start \/ Stop \/ ProducerCancelled \/ RunCancelled
  PROVE  EndInv'
<1> USE DEF EndInv, StopInv, DrainInv
<1>1. CASE Start
  BY <1>1 DEF Start
<1>2. CASE Stop
  BY <1>2 DEF Stop, Await, feeder
<1>3. CASE ProducerCancelled
  BY <1>3 DEF ProducerCancelled, engine
<1>4. CASE RunCancelled
  BY <1>4 DEF RunCancelled, feeder
<1> QED
  BY <1>1, <1>2, <1>3, <1>4

LEMMA EndStep ==
  ASSUME EndInv, [Next]_vars
  PROVE  EndInv'
<1>1. CASE SleepAgain \/ Receive \/ Close \/ Tick \/ UNCHANGED vars
  BY <1>1 DEF SleepAgain, Receive, push, Close, Tick, vars, engine, feeder, clock, EndInv,
              StopInv, DrainInv, Retries
<1> QED
  BY <1>1, ProducerInv, LoopInv, StopStep DEF Next, Server

\* How far stop() and the two tasks have come, in every state.
THEOREM EndInvariant == Spec => []EndInv
BY EndInit, EndStep, PTL DEF Spec

\* An engine that ends by itself has sent everything its source gave it.
THEOREM EngineDrains == Spec => []NothingLeftBehind
<1>1. EndInv => NothingLeftBehind
  BY DEF EndInv, DrainInv, NothingLeftBehind
<1> QED
  BY <1>1, EndInvariant, PTL

\* Once stop() has returned no frame is sent.
THEOREM StopSilences == Spec => SilentAfterStop
<1>1. EndInv /\ [Next]_vars => [stop = "done" => heard' = heard]_vars
  <2> SUFFICES ASSUME EndInv, Next, stop = "done"
               PROVE  heard' = heard
    BY DEF vars, engine
  <2>1. run = "over" /\ prod = "over"
    BY DEF EndInv, StopInv
  <2>2. ~SendFrame
    BY <2>1 DEF SendFrame
  <2>3. ASSUME ProducerBegins \/ Pull \/ Submit
        PROVE  FALSE
    BY <2>1, <2>3 DEF ProducerBegins, Pull, Submit, Retries
  <2> QED
    BY <2>2, <2>3
       DEF Next, Server, SleepAgain, Step, Quit, ProducerCancelled, RunCancelled, Receive,
           Close, Start, Stop, Tick, engine
<1> QED
  BY <1>1, EndInvariant, PTL DEF Spec, SilentAfterStop

-----------------------------------------------------------------------------
(* Invariants of what is on its way *)

\* What the producer has still to submit: the frame it is blocked with, then the
\* source's queue.
Ahead(h, b) == (IF h = 0 THEN <<>> ELSE <<h>>) \o b
Pending == Ahead(held, buffer)

\* What the producer holds, and where the End signal may lie.
FeedInv ==
  /\ prod = "full" <=> held # 0
  /\ \A i \in DOMAIN Pending :
       Pending[i] = End => i = Len(Pending) /\ (kind = "file" \/ closed)
  /\ run = "sending" => hand # <<>>

Rising(s) ==
  \A i, j \in DOMAIN s : i < j => s[i].frame < s[j].frame /\ s[i].idx < s[j].idx

\* Frames rise on their way from the source through the producer and the engine's
\* queue to the fanout, and so do their indices; what is being sent was due.
PendingOrder ==
  /\ \A i, j \in DOMAIN Pending : i < j /\ Pending[j] # End => Pending[i] < Pending[j]
  /\ \A i \in DOMAIN Pending : Pending[i] <= newest

QueueOrder ==
  /\ Rising(q)
  /\ \A i \in DOMAIN q : q[i].frame <= newest /\ q[i].idx < next_idx
  /\ \A i \in DOMAIN q, j \in DOMAIN Pending : Pending[j] # End => q[i].frame < Pending[j]

HandOrder ==
  /\ Rising(hand)
  /\ \A i \in DOMAIN hand : hand[i].frame <= newest /\ Expected(hand[i].idx) <= now
  /\ \A i \in DOMAIN hand, j \in DOMAIN q : hand[i].frame < q[j].frame
  /\ \A i \in DOMAIN hand, j \in DOMAIN Pending :
       Pending[j] # End => hand[i].frame < Pending[j]

OrderInv == PendingOrder /\ QueueOrder /\ HandOrder

\* While the producer runs, what is pending of a file is exactly what follows the
\* frames submitted so far.
FileInv ==
  kind = "file" /\ prod # "over" =>
    /\ Len(Pending) + next_idx = MaxFrame + 1
    /\ \A i \in DOMAIN Pending :
         Pending[i] = IF next_idx + i = MaxFrame + 1 THEN End ELSE next_idx + i

PipeInv == PacingTypeOK /\ EndInv /\ FeedInv

-----------------------------------------------------------------------------
(* Sequences, over a set that the provers do not look into *)

LEMMA SeqItems ==
  ASSUME NEW S, NEW s \in Seq(S)
  PROVE  /\ Len(s) \in Nat /\ DOMAIN s = 1..Len(s)
         /\ \A i \in 1..Len(s) : s[i] \in S
         /\ s # <<>> => Len(s) >= 1
BY LenProperties, ElementOfSeq, EmptySeq

LEMMA SeqRetype ==
  ASSUME NEW S, NEW T, NEW s \in Seq(S), \A i \in 1..Len(s) : s[i] \in T
  PROVE  s \in Seq(T)
<1>1. Len(s) \in Int /\ SubSeq(s, 1, Len(s)) = s
  BY SeqItems, SubSeqFull
<1> QED
  BY <1>1, SubSeqProperties

LEMMA SeqFront ==
  ASSUME NEW S, NEW s \in Seq(S), NEW n \in 0..Len(s)
  PROVE  /\ SubSeq(s, 1, n) \in Seq(S)
         /\ Len(SubSeq(s, 1, n)) = n
         /\ \A i \in 1..n : SubSeq(s, 1, n)[i] = s[i]
<1>1. Len(s) \in Nat /\ \A i \in 1..Len(s) : s[i] \in S
  BY SeqItems
<1>2. n \in Int /\ \A i \in 1..n : s[i] \in S
  BY <1>1
<1>3. /\ SubSeq(s, 1, n) \in Seq(S)
      /\ Len(SubSeq(s, 1, n)) = IF 1 <= n THEN n - 1 + 1 ELSE 0
      /\ \A i \in 1..n - 1 + 1 : SubSeq(s, 1, n)[i] = s[1 + i - 1]
  BY <1>2, SubSeqProperties
<1>4. Len(SubSeq(s, 1, n)) = n
  BY <1>1, <1>3
<1>5. ASSUME NEW i \in 1..n
      PROVE  SubSeq(s, 1, n)[i] = s[i]
  <2>1. i \in 1..n - 1 + 1 /\ 1 + i - 1 = i
    BY <1>2
  <2> QED
    BY <1>3, <2>1
<1> QED
  BY <1>3, <1>4, <1>5

LEMMA SeqBack ==
  ASSUME NEW S, NEW s \in Seq(S), NEW k \in 0..Len(s)
  PROVE  /\ SubSeq(s, k + 1, Len(s)) \in Seq(S)
         /\ Len(SubSeq(s, k + 1, Len(s))) = Len(s) - k
         /\ \A i \in 1..Len(s) - k : SubSeq(s, k + 1, Len(s))[i] = s[i + k]
<1> DEFINE n == Len(s)
<1>1. n \in Nat /\ \A i \in 1..n : s[i] \in S
  BY SeqItems
<1>2. k + 1 \in Int /\ n \in Int /\ \A i \in k + 1..n : s[i] \in S
  BY <1>1
<1>3. /\ SubSeq(s, k + 1, n) \in Seq(S)
      /\ Len(SubSeq(s, k + 1, n)) = IF k + 1 <= n THEN n - (k + 1) + 1 ELSE 0
      /\ \A i \in 1..n - (k + 1) + 1 : SubSeq(s, k + 1, n)[i] = s[k + 1 + i - 1]
  BY <1>2, SubSeqProperties
<1>4. Len(SubSeq(s, k + 1, n)) = n - k
  BY <1>1, <1>3
<1>5. ASSUME NEW i \in 1..n - k
      PROVE  SubSeq(s, k + 1, n)[i] = s[i + k]
  <2>1. i \in 1..n - (k + 1) + 1 /\ k + 1 + i - 1 = i + k
    BY <1>1
  <2> QED
    BY <1>3, <2>1
<1> QED
  BY <1>3, <1>4, <1>5

LEMMA SeqJoin ==
  ASSUME NEW S, NEW s \in Seq(S), NEW t \in Seq(S)
  PROVE  /\ s \o t \in Seq(S)
         /\ Len(s \o t) = Len(s) + Len(t)
         /\ \A i \in 1..Len(s) : (s \o t)[i] = s[i]
         /\ \A i \in 1..Len(t) : (s \o t)[Len(s) + i] = t[i]
<1>1. Len(s) \in Nat /\ Len(t) \in Nat
  BY SeqItems
<1> QED
  BY <1>1, ConcatProperties

LEMMA SeqAppend ==
  ASSUME NEW S, NEW s \in Seq(S), NEW x \in S, NEW r, r = Append(s, x)
  PROVE  /\ r \in Seq(S) /\ Len(r) = Len(s) + 1
         /\ \A i \in 1..Len(s) : r[i] = s[i]
         /\ r[Len(s) + 1] = x
BY AppendProperties

LEMMA SeqMake ==
  ASSUME NEW S, NEW n \in Nat, NEW f \in [1..n -> S]
  PROVE  f \in Seq(S) /\ Len(f) = n
OBVIOUS

LEMMA SeqOne ==
  ASSUME NEW S, NEW x \in S
  PROVE  <<x>> \in Seq(S) /\ Len(<<x>>) = 1 /\ <<x>>[1] = x
OBVIOUS

LEMMA SeqTail ==
  ASSUME NEW S, NEW s \in Seq(S), s # <<>>
  PROVE  /\ Head(s) = s[1] /\ s[1] \in S
         /\ Tail(s) \in Seq(S) /\ Len(Tail(s)) = Len(s) - 1
         /\ \A i \in 1..Len(s) - 1 : Tail(s)[i] = s[i + 1]
<1>1. Head(s) = s[1]
  OBVIOUS
<1> QED
  BY <1>1, HeadTailProperties

-----------------------------------------------------------------------------
(* What is pending *)

LEMMA AheadItems ==
  ASSUME NEW h \in 0..MaxFrame, NEW b \in Seq(0..MaxFrame)
  PROVE  /\ Ahead(h, b) \in Seq(0..MaxFrame)
         /\ h = 0 => Ahead(h, b) = b
         /\ h # 0 => /\ Len(Ahead(h, b)) = Len(b) + 1
                     /\ Ahead(h, b)[1] = h
                     /\ \A i \in 1..Len(b) : Ahead(h, b)[i + 1] = b[i]
<1>1. CASE h = 0
  <2>1. Ahead(h, b) = <<>> \o b
    BY <1>1 DEF Ahead
  <2>2. Ahead(h, b) = b
    BY <2>1
  <2> QED
    BY <1>1, <2>2
<1>2. CASE h # 0
  <2>1. Ahead(h, b) = <<h>> \o b
    BY <1>2 DEF Ahead
  <2>2. <<h>> \in Seq(0..MaxFrame) /\ Len(<<h>>) = 1 /\ <<h>>[1] = h
    OBVIOUS
  <2> QED
    BY <1>2, <2>1, <2>2
<1> QED
  BY <1>1, <1>2

LEMMA PendingItems ==
  ASSUME held \in 0..MaxFrame, buffer \in Seq(0..MaxFrame)
  PROVE  /\ Pending \in Seq(0..MaxFrame)
         /\ held = 0 => Pending = buffer
         /\ held # 0 => /\ Len(Pending) = Len(buffer) + 1
                        /\ Pending[1] = held
                        /\ \A i \in 1..Len(buffer) : Pending[i + 1] = buffer[i]
BY AheadItems DEF Pending

\* A turn of the producer takes a batch off the front of what is pending.
Feeding(batch, rest) ==
  /\ batch \in Seq(0..MaxFrame) /\ rest \in Seq(0..MaxFrame)
  /\ Len(batch) + Len(rest) = Len(Pending)
  /\ \A i \in 1..Len(batch) : batch[i] = Pending[i]
  /\ \A i \in 1..Len(rest) : rest[i] = Pending[Len(batch) + i]
  /\ Len(rest) <= Len(buffer)

LEMMA ProducerFeeding ==
  ASSUME PipeInv, ProducerBegins \/ Pull \/ Submit
  PROVE  \E batch, rest : /\ Produce(batch, rest)
                          /\ Feeding(batch, rest)
                          /\ Len(q) < QueueMax \/ held = 0
<1>1. held \in 0..MaxFrame /\ buffer \in Seq(0..MaxFrame)
  BY DEF PipeInv, PacingTypeOK
<1>2. <<>> \in Seq(0..MaxFrame) /\ Len(<<>>) = 0
  OBVIOUS
<1>3. CASE ProducerBegins
  <2>1. held = 0 /\ Pending = buffer
    BY <1>1, <1>3, PendingItems DEF ProducerBegins, PipeInv, FeedInv
  <2>2. Feeding(buffer, <<>>) /\ Feeding(<<>>, buffer)
    BY <1>1, <1>2, <2>1 DEF Feeding
  <2> QED
    BY <1>3, <2>1, <2>2 DEF ProducerBegins
<1>4. CASE Pull
  <2>1. held = 0 /\ Pending = buffer /\ buffer # <<>>
    BY <1>1, <1>4, PendingItems DEF Pull, PipeInv, FeedInv
  <2>2. Feeding(buffer, <<>>)
    BY <1>1, <1>2, <2>1 DEF Feeding
  <2>3. Feeding(<<Head(buffer)>>, Tail(buffer))
    <3>1. /\ Head(buffer) = buffer[1] /\ buffer[1] \in 0..MaxFrame
          /\ Tail(buffer) \in Seq(0..MaxFrame) /\ Len(Tail(buffer)) = Len(buffer) - 1
          /\ \A i \in 1..Len(buffer) - 1 : Tail(buffer)[i] = buffer[i + 1]
          /\ Len(buffer) \in Nat
      BY <1>1, <2>1, SeqTail, SeqItems
    <3>2. /\ <<Head(buffer)>> \in Seq(0..MaxFrame) /\ Len(<<Head(buffer)>>) = 1
          /\ <<Head(buffer)>>[1] = Head(buffer)
      BY <3>1, SeqOne
    <3> QED
      BY <1>1, <2>1, <3>1, <3>2 DEF Feeding
  <2> QED
    BY <1>4, <2>1, <2>2, <2>3 DEF Pull
<1>5. CASE Submit
  <2>1. held # 0 /\ Len(q) < QueueMax
    BY <1>5 DEF Submit, Retries, PipeInv, FeedInv
  <2>2. /\ Pending \in Seq(0..MaxFrame) /\ Len(Pending) = Len(buffer) + 1
        /\ Pending[1] = held /\ \A i \in 1..Len(buffer) : Pending[i + 1] = buffer[i]
    BY <1>1, <2>1, PendingItems
  <2>3. Pending = <<held>> \o buffer
    BY <2>1 DEF Pending, Ahead
  <2>4. Feeding(Pending, <<>>)
    BY <1>1, <1>2, <2>2 DEF Feeding
  <2>5. Feeding(<<held>>, buffer)
    BY <1>1, <2>2 DEF Feeding
  <2> QED
    BY <1>5, <2>1, <2>3, <2>4, <2>5 DEF Submit
<1> QED
  BY <1>3, <1>4, <1>5

\* The batch's frames, and how many of them fit into the engine's queue.
LEMMA BatchFrames ==
  ASSUME PipeInv, NEW batch, NEW rest, Feeding(batch, rest)
  PROVE  /\ Frames(batch) \in Seq(1..MaxFrame)
         /\ \A i \in 1..Len(Frames(batch)) : Frames(batch)[i] = batch[i]
         /\ \/ Len(Frames(batch)) = Len(batch)
            \/ /\ Len(Frames(batch)) = Len(batch) - 1
               /\ Len(batch) >= 1 /\ Pending[Len(batch)] = End
<1>1. /\ batch \in Seq(0..MaxFrame) /\ rest \in Seq(0..MaxFrame)
      /\ Pending \in Seq(0..MaxFrame)
      /\ Len(batch) + Len(rest) = Len(Pending)
      /\ \A i \in 1..Len(batch) : batch[i] = Pending[i]
  BY PendingItems DEF Feeding, PipeInv, PacingTypeOK
<1>2. Len(batch) \in Nat /\ Len(rest) \in Nat /\ DOMAIN Pending = 1..Len(Pending)
  BY <1>1, SeqItems
<1>3. \A i \in 1..Len(batch) : batch[i] \in 0..MaxFrame
  BY <1>1, SeqItems
<1>4. \A i \in 1..Len(batch) : batch[i] = End => i = Len(Pending)
  BY <1>1, <1>2 DEF PipeInv, FeedInv
<1>5. \A i \in 1..Len(batch) : i # Len(batch) => batch[i] \in 1..MaxFrame
  <2>1. ASSUME NEW i \in 1..Len(batch), i # Len(batch)
        PROVE  batch[i] # 0
    BY <1>1, <1>2, <1>4, <2>1 DEF End
  <2> QED
    BY <1>3, <2>1, PacingAssumption
<1>6. CASE batch # <<>> /\ batch[Len(batch)] = End
  <2>1. Frames(batch) = SubSeq(batch, 1, Len(batch) - 1)
    BY <1>6 DEF Frames
  <2>2. Len(batch) >= 1
    BY <1>1, <1>6, SeqItems
  <2>3. Len(batch) - 1 \in 0..Len(batch)
    BY <1>2, <2>2
  <2>4. Frames(batch) \in Seq(0..MaxFrame)
    BY <1>1, <2>1, <2>3, SeqFront
  <2>5. /\ Len(Frames(batch)) = Len(batch) - 1
        /\ \A i \in 1..Len(batch) - 1 : Frames(batch)[i] = batch[i]
    BY <1>1, <2>1, <2>3, SeqFront
  <2>6. \A i \in 1..Len(Frames(batch)) : Frames(batch)[i] \in 1..MaxFrame
    BY <1>2, <1>5, <2>2, <2>5
  <2>7. Frames(batch) \in Seq(1..MaxFrame)
    BY <2>4, <2>6, SeqRetype
  <2>8. Len(batch) \in 1..Len(batch)
    BY <1>2, <2>2
  <2> QED
    BY <1>1, <1>6, <2>2, <2>5, <2>7, <2>8
<1>7. CASE ~(batch # <<>> /\ batch[Len(batch)] = End)
  <2>1. Frames(batch) = batch
    BY <1>7 DEF Frames
  <2>2. ASSUME NEW i \in 1..Len(batch)
        PROVE  batch[i] \in 1..MaxFrame
    <3>1. batch # <<>>
      BY <1>2, <2>2
    <3>2. batch[i] # 0
      BY <1>2, <1>5, <1>7, <3>1, PacingAssumption DEF End
    <3> QED
      BY <1>3, <3>2, PacingAssumption
  <2>3. batch \in Seq(1..MaxFrame)
    BY <1>1, <2>2, SeqRetype
  <2> QED
    BY <2>1, <2>3
<1> QED
  BY <1>6, <1>7

\* The producer moves fit frames from the front of what is pending to the end of
\* the engine's queue, and drops d - fit End signals.
Moved(fit, d) ==
  /\ fit \in 0..d /\ d \in 0..Len(Pending)
  /\ d = fit \/ (d = fit + 1 /\ Pending[d] = End /\ prod' = "over")
  /\ \A i \in 1..fit : Pending[i] \in 1..MaxFrame
  /\ q' \in Seq(Entry)
  /\ Len(q') = Len(q) + fit /\ Len(q') <= QueueMax
  /\ \A i \in 1..Len(q) : q'[i] = q[i]
  /\ \A i \in 1..fit :
       q'[Len(q) + i] = [idx |-> next_idx + i - 1, frame |-> Pending[i]]
  /\ next_idx' = next_idx + fit
  /\ Len(Pending') = Len(Pending) - d
  /\ \A i \in 1..Len(Pending) - d : Pending'[i] = Pending[i + d]
  /\ held' \in 0..MaxFrame
  /\ prod' \in {"full", "get", "over"} /\ (prod' = "full" <=> held' # 0)
  /\ buffer' \in Seq(0..MaxFrame) /\ Len(buffer') <= Len(buffer)
  /\ retry' \in Nat
  /\ UNCHANGED <<clock, kind, newest, closed, start_ms, active, run, hand, wake, alarm,
                 heard, stop>>

LEMMA QueueGrows ==
  ASSUME q \in Seq(Entry), next_idx \in Nat, NEW frames \in Seq(1..MaxFrame),
         NEW fit \in 0..Len(frames),
         q' = q \o [i \in 1..fit |-> [idx |-> next_idx + i - 1, frame |-> frames[i]]]
  PROVE  /\ q' \in Seq(Entry)
         /\ Len(q') = Len(q) + fit
         /\ \A i \in 1..Len(q) : q'[i] = q[i]
         /\ \A i \in 1..fit :
              q'[Len(q) + i] = [idx |-> next_idx + i - 1, frame |-> frames[i]]
<1> DEFINE new == [i \in 1..fit |-> [idx |-> next_idx + i - 1, frame |-> frames[i]]]
<1>1. /\ Len(frames) \in Nat
      /\ \A i \in 1..Len(frames) : frames[i] \in 1..MaxFrame
  BY SeqItems
<1>2. fit \in Nat
  BY <1>1
<1>3. \A i \in 1..fit : frames[i] \in 1..MaxFrame
  BY <1>1
<1>4. \A i \in 1..fit : next_idx + i - 1 \in Nat
  BY <1>2
<1>5. \A i \in 1..fit : [idx |-> next_idx + i - 1, frame |-> frames[i]] \in Entry
  BY <1>3, <1>4 DEF Entry
<1>6. new \in [1..fit -> Entry]
  BY <1>5
<1>7. new \in Seq(Entry) /\ Len(new) = fit
  BY <1>2, <1>6
<1>8. \A i \in 1..fit : new[i] = [idx |-> next_idx + i - 1, frame |-> frames[i]]
  OBVIOUS
<1>9. q' = q \o new
  OBVIOUS
<1> HIDE DEF new
<1> QED
  BY <1>7, <1>8, <1>9, SeqJoin

LEMMA RetryType ==
  ASSUME PacingTypeOK
  PROVE  now + FrameMs \div 2 \in Nat /\ now + FrameMs \div 4 \in Nat
<1>1. FrameMs \in Nat /\ now \in Nat
  BY PacingAssumption DEF PacingTypeOK
<1>2. FrameMs \div 2 \in Nat /\ FrameMs \div 4 \in Nat
  BY <1>1
<1> QED
  BY <1>1, <1>2

LEMMA ProduceMoves ==
  ASSUME PipeInv, NEW batch, NEW rest, Produce(batch, rest), Feeding(batch, rest),
         Len(q) < QueueMax \/ held = 0
  PROVE  \E fit, d \in Nat : Moved(fit, d)
<1> DEFINE frames == Frames(batch)
           n == Len(frames)
           fit == Least(n, QueueMax - Len(q))
<1>1. /\ batch \in Seq(0..MaxFrame) /\ rest \in Seq(0..MaxFrame)
      /\ Pending \in Seq(0..MaxFrame) /\ buffer \in Seq(0..MaxFrame)
      /\ held \in 0..MaxFrame
  BY PendingItems DEF Feeding, PipeInv, PacingTypeOK
<1>2. /\ Len(batch) \in Nat /\ Len(rest) \in Nat /\ Len(Pending) \in Nat
      /\ Len(buffer) \in Nat
  BY <1>1, SeqItems
<1>3. /\ Len(batch) + Len(rest) = Len(Pending)
      /\ \A i \in 1..Len(batch) : batch[i] = Pending[i]
      /\ \A i \in 1..Len(rest) : rest[i] = Pending[Len(batch) + i]
      /\ Len(rest) <= Len(buffer)
  BY DEF Feeding
<1>4. Len(Pending) <= Len(buffer) + 1
  BY <1>1, <1>2, PendingItems
<1>5. /\ frames \in Seq(1..MaxFrame)
      /\ \A i \in 1..n : frames[i] = batch[i]
      /\ n = Len(batch) \/ (n = Len(batch) - 1 /\ Len(batch) >= 1
                            /\ Pending[Len(batch)] = End)
  BY BatchFrames
<1>6. q \in Seq(Entry) /\ Len(q) <= QueueMax /\ next_idx \in Nat /\ retry \in Nat
      /\ PacingTypeOK
  BY DEF PipeInv, PacingTypeOK
<1>7. Len(q) \in Nat /\ n \in Nat /\ QueueMax \in Nat
  BY <1>5, <1>6, SeqItems, PacingAssumption
<1>8. /\ q' = q \o [i \in 1..fit |-> [idx |-> next_idx + i - 1, frame |-> frames[i]]]
      /\ next_idx' = next_idx + fit
      /\ fit < n => /\ prod' = "full"
                    /\ held' = frames[fit + 1]
                    /\ retry' = now + FrameMs \div 2
                    /\ buffer' = SubSeq(batch, fit + 2, Len(batch)) \o rest
      /\ ~(fit < n) => /\ prod' = IF Exhausted(batch, frames) THEN "over" ELSE "get"
                       /\ held' = 0
                       /\ buffer' = rest
                       /\ retry' = retry
  BY DEF Produce
<1>9. UNCHANGED <<clock, kind, newest, closed, start_ms, active, run, hand, wake,
                  alarm, heard, stop>>
  BY ProduceEffect
<1>10. fit \in 0..n /\ Len(q) + fit <= QueueMax
  BY <1>6, <1>7 DEF Least
<1> HIDE DEF fit
<1>11. \A i \in 1..n : frames[i] = Pending[i] /\ Pending[i] \in 1..MaxFrame
  <2>1. \A i \in 1..n : frames[i] \in 1..MaxFrame
    BY <1>5, SeqItems
  <2>2. \A i \in 1..n : i \in 1..Len(batch)
    BY <1>2, <1>5, <1>7
  <2> QED
    BY <1>3, <1>5, <2>1, <2>2
<1> HIDE DEF frames
<1>12. /\ q' \in Seq(Entry)
       /\ Len(q') = Len(q) + fit
       /\ \A i \in 1..Len(q) : q'[i] = q[i]
       /\ \A i \in 1..fit :
            q'[Len(q) + i] = [idx |-> next_idx + i - 1, frame |-> frames[i]]
  BY <1>5, <1>6, <1>8, <1>10, QueueGrows
<1>13. \A i \in 1..fit : i \in 1..n
  BY <1>7, <1>10
<1>14. \A i \in 1..fit :
         q'[Len(q) + i] = [idx |-> next_idx + i - 1, frame |-> Pending[i]]
  BY <1>11, <1>12, <1>13
<1>15. retry' \in Nat
  BY <1>6, <1>8, RetryType
<1>16. CASE fit < n
  <2> DEFINE tail == SubSeq(batch, fit + 2, Len(batch))
             k == fit + 1
  <2>1. k \in 1..n /\ k \in 0..Len(batch) /\ k = fit + 1 /\ k \in Nat
        /\ fit \in Nat
    BY <1>2, <1>5, <1>7, <1>10, <1>16
  <2>2. held' = Pending[k] /\ held' \in 1..MaxFrame /\ prod' = "full"
        /\ buffer' = tail \o rest
    BY <1>8, <1>11, <1>16, <2>1
  <2>3. tail = SubSeq(batch, k + 1, Len(batch))
    <3>1. k + 1 = fit + 2
      BY <1>7, <1>10
    <3> QED
      BY <3>1
  <2> HIDE DEF tail, k
  <2>4. /\ tail \in Seq(0..MaxFrame) /\ Len(tail) = Len(batch) - k
        /\ \A i \in 1..Len(batch) - k : tail[i] = batch[i + k]
    BY <1>1, <2>1, <2>3, SeqBack
  <2>5. /\ buffer' \in Seq(0..MaxFrame)
        /\ Len(buffer') = Len(tail) + Len(rest)
        /\ \A i \in 1..Len(tail) : buffer'[i] = tail[i]
        /\ \A i \in 1..Len(rest) : buffer'[Len(tail) + i] = rest[i]
    <3>1. rest \in Seq(0..MaxFrame) /\ tail \in Seq(0..MaxFrame) /\ buffer' = tail \o rest
      BY <1>1, <2>2, <2>4
    <3> QED
      BY <3>1, SeqJoin
  <2>6. Len(buffer') = Len(Pending) - k
    <3>1. Len(tail) = Len(batch) - k /\ Len(buffer') = Len(tail) + Len(rest)
      BY <2>4, <2>5
    <3>2. Len(batch) + Len(rest) = Len(Pending) /\ k \in Nat
      BY <1>3, <2>1
    <3> QED
      BY <1>2, <3>1, <3>2
  <2>7. ASSUME NEW i \in 1..Len(Pending) - k
        PROVE  buffer'[i] = Pending[i + k]
    <3>1. CASE i <= Len(tail)
      <4>1. i \in 1..Len(tail) /\ i \in 1..Len(batch) - k /\ i + k \in 1..Len(batch)
        <5>1. Len(tail) = Len(batch) - k /\ k \in 0..Len(batch) /\ k \in Nat
          BY <2>1, <2>4
        <5>2. Len(batch) + Len(rest) = Len(Pending)
          BY <1>3
        <5> QED
          BY <1>2, <3>1, <5>1, <5>2
      <4> QED
        BY <1>3, <2>4, <2>5, <4>1
    <3>2. CASE i > Len(tail)
      <4> DEFINE j == i - Len(tail)
      <4>1. /\ j \in 1..Len(rest) /\ Len(tail) + j = i
            /\ Len(batch) + j = i + k
        <5>1. Len(tail) = Len(batch) - k /\ k \in 0..Len(batch) /\ k \in Nat
          BY <2>1, <2>4
        <5>2. Len(batch) + Len(rest) = Len(Pending)
          BY <1>3
        <5> QED
          BY <1>2, <3>2, <5>1, <5>2
      <4> HIDE DEF j
      <4> QED
        BY <1>3, <2>5, <4>1
    <3> QED
      BY <1>2, <2>1, <2>4, <3>1, <3>2
  <2>8. held' \in 0..MaxFrame /\ held' # 0
    BY <2>2, PacingAssumption
  <2>9. /\ Len(Pending') = Len(buffer') + 1
        /\ Pending'[1] = held'
        /\ \A i \in 1..Len(buffer') : Pending'[i + 1] = buffer'[i]
    BY <2>5, <2>8, AheadItems DEF Pending
  <2>10. Len(Pending') = Len(Pending) - fit
    BY <1>2, <2>1, <2>6, <2>9
  <2>11. ASSUME NEW i \in 1..Len(Pending) - fit
         PROVE  Pending'[i] = Pending[i + fit]
    <3>1. CASE i = 1
      <4>1. i + fit = k
        BY <2>1, <3>1
      <4> QED
        BY <2>2, <2>9, <3>1, <4>1
    <3>2. CASE i # 1
      <4> DEFINE j == i - 1
      <4>1. /\ j \in 1..Len(buffer') /\ j \in 1..Len(Pending) - k
            /\ j + 1 = i /\ j + k = i + fit
        BY <1>2, <2>1, <2>6, <3>2
      <4> HIDE DEF j
      <4> QED
        BY <2>7, <2>9, <4>1
    <3> QED
      BY <3>1, <3>2
  <2>12. Len(buffer') <= Len(buffer)
    BY <1>2, <1>4, <2>1, <2>6
  <2>13. fit \in 0..fit /\ fit \in 0..Len(Pending) /\ fit \in Nat
    BY <1>2, <1>3, <1>5, <1>7, <1>10
  <2>14. Moved(fit, fit)
    BY <1>6, <1>8, <1>9, <1>10, <1>11, <1>12, <1>13, <1>14, <1>15, <2>2, <2>5, <2>8,
       <2>10, <2>11, <2>12, <2>13
    DEF Moved
  <2> QED
    BY <2>13, <2>14
<1>17. CASE ~(fit < n)
  <2>1. fit = n /\ held' = 0 /\ buffer' = rest /\ prod' \in {"over", "get"}
        /\ held' \in 0..MaxFrame
    BY <1>7, <1>8, <1>10, <1>17, PacingAssumption
  <2>2. Pending' = rest
    BY <1>1, <2>1, AheadItems DEF Pending
  <2>3. n < Len(batch) => prod' = "over"
    BY <1>8, <1>17 DEF Exhausted
  <2>4. /\ fit \in 0..Len(batch) /\ Len(batch) \in 0..Len(Pending) /\ fit \in Nat
        /\ \/ Len(batch) = fit
           \/ Len(batch) = fit + 1 /\ Pending[Len(batch)] = End /\ prod' = "over"
    BY <1>2, <1>3, <1>5, <1>7, <2>1, <2>3
  <2>5. Len(Pending') = Len(Pending) - Len(batch)
    BY <1>2, <1>3, <2>2
  <2>6. ASSUME NEW i \in 1..Len(Pending) - Len(batch)
        PROVE  Pending'[i] = Pending[i + Len(batch)]
    <3>1. i \in 1..Len(rest) /\ Len(batch) + i = i + Len(batch)
      BY <1>2, <1>3
    <3> QED
      BY <1>3, <2>2, <3>1
  <2>7. Moved(fit, Len(batch))
    BY <1>1, <1>3, <1>6, <1>8, <1>9, <1>10, <1>11, <1>12, <1>13, <1>14, <1>15, <2>1,
       <2>4, <2>5, <2>6
    DEF Moved
  <2> QED
    BY <1>2, <2>4, <2>7
<1> QED
  BY <1>16, <1>17

LEMMA ProducerMoves ==
  ASSUME PipeInv, ProducerBegins \/ Pull \/ Submit
  PROVE  \E fit, d \in Nat : Moved(fit, d)
BY ProducerFeeding, ProduceMoves

-----------------------------------------------------------------------------
(* What a turn of the engine takes from its queue *)

LEMMA SubsetSize ==
  ASSUME NEW n \in Nat, NEW T \in SUBSET (1..n)
  PROVE  IsFiniteSet(T) /\ Cardinality(T) \in 0..n
<1>1. IsFiniteSet(1..n) /\ Cardinality(1..n) = n
  BY FS_Interval
<1>2. IsFiniteSet(T) /\ Cardinality(T) <= n
  BY <1>1, FS_Subset
<1>3. Cardinality(T) \in Nat
  BY <1>2, FS_CardinalityType
<1> QED
  BY <1>2, <1>3

\* A set of numbers that has no gaps is counted by its cardinality.
LEMMA NoGaps ==
  ASSUME NEW n \in Nat, NEW T \in SUBSET (1..n),
         \A i \in T, j \in 1..n : j < i => j \in T
  PROVE  \A i \in 1..Cardinality(T) : i \in T
<1> DEFINE c == Cardinality(T)
<1>1. IsFiniteSet(T) /\ c \in 0..n
  BY SubsetSize
<1>2. IsFiniteSet(1..c) /\ Cardinality(1..c) = c
  <2>1. c \in Nat
    BY <1>1
  <2> QED
    BY <2>1, FS_Interval
<1> HIDE DEF c
<1>3. ASSUME NEW i \in T
      PROVE  i \in 1..c
  <2>1. i \in Nat /\ i >= 1 /\ 1..i \subseteq T
    OBVIOUS
  <2>2. Cardinality(1..i) = i
    BY <2>1, FS_Interval
  <2>3. i <= c
    BY <1>1, <2>1, <2>2, FS_Subset DEF c
  <2> QED
    BY <1>1, <2>1, <2>3
<1>4. T = 1..c
  BY <1>2, <1>3, FS_Subset DEF c
<1> QED
  BY <1>4 DEF c

LEMMA ExpectedType ==
  ASSUME PacingTypeOK, NEW idx \in Nat
  PROVE  Expected(idx) \in Nat
<1>1. \A n \in Nat : idx * n \in Nat
  OBVIOUS
<1>2. start_ms \in Nat /\ FrameMs \in Nat
  BY PacingAssumption DEF PacingTypeOK
<1> QED
  BY <1>1, <1>2 DEF Expected

LEMMA ExpectedRises ==
  ASSUME PacingTypeOK, NEW i \in Nat, NEW j \in Nat, i < j
  PROVE  Expected(i) <= Expected(j)
<1>1. start_ms \in Nat /\ FrameMs \in Nat
  BY PacingAssumption DEF PacingTypeOK
<1>2. i * FrameMs <= j * FrameMs /\ i * FrameMs \in Nat /\ j * FrameMs \in Nat
  BY <1>1
<1> QED
  BY <1>1, <1>2 DEF Expected

\* What is left of a queue after the late entries were dropped.
LEMMA DropLateSuffix ==
  ASSUME NEW s \in Seq(Entry), NEW limit
  PROVE  \E k \in 0..Len(s) : DropLate(s, limit) = SubSeq(s, k + 1, Len(s))
<1> DEFINE late == {i \in DOMAIN s : \A j \in 1..i : now - Expected(s[j].idx) > limit}
<1>1. late \in SUBSET (1..Len(s)) /\ Len(s) \in Nat
  OBVIOUS
<1>2. DropLate(s, limit) = SubSeq(s, Cardinality(late) + 1, Len(s))
  BY DEF DropLate
<1> HIDE DEF late
<1>3. Cardinality(late) \in 0..Len(s)
  BY <1>1, SubsetSize
<1> QED
  BY <1>2, <1>3

\* s without its first k entries.
Suffix(t, s, k) ==
  /\ k \in 0..Len(s)
  /\ t \in Seq(Entry) /\ Len(t) = Len(s) - k
  /\ \A i \in 1..Len(s) - k : t[i] = s[i + k]

LEMMA KeptSuffix ==
  ASSUME q \in Seq(Entry)
  PROVE  \E k \in Nat : Suffix(Kept, q, k)
<1> DEFINE s == DropLate(q, DiscardMs)
<1>1. PICK k \in 0..Len(q) : s = SubSeq(q, k + 1, Len(q))
  BY DropLateSuffix
<1>2. s \in Seq(Entry) /\ Len(s) = Len(q) - k /\ \A i \in 1..Len(q) - k : s[i] = q[i + k]
  BY <1>1, SeqBack
<1> HIDE DEF s
<1>3. PICK l \in 0..Len(s) : DropLate(s, PreserveMs) = SubSeq(s, l + 1, Len(s))
  BY <1>2, DropLateSuffix
<1>4. Kept = SubSeq(s, l + 1, Len(s))
  BY <1>3 DEF Kept, s
<1>5. /\ Kept \in Seq(Entry) /\ Len(Kept) = Len(s) - l
      /\ \A i \in 1..Len(s) - l : Kept[i] = s[i + l]
  BY <1>2, <1>3, <1>4, SeqBack
<1>6. Len(q) \in Nat
  BY SeqItems
<1>7. l + k \in Nat /\ l + k \in 0..Len(q) /\ Len(Kept) = Len(q) - (l + k)
  BY <1>1, <1>2, <1>3, <1>5, <1>6
<1>8. ASSUME NEW i \in 1..Len(q) - (l + k)
      PROVE  Kept[i] = q[i + (l + k)]
  <2>1. i \in 1..Len(s) - l /\ i + l \in 1..Len(q) - k /\ i + (l + k) = i + l + k
    BY <1>1, <1>2, <1>3, <1>6
  <2> QED
    BY <1>2, <1>5, <2>1
<1> QED
  BY <1>5, <1>7, <1>8 DEF Suffix

\* A turn takes a prefix of what was kept, at most one burst group of it, and all
\* of it is due.
LEMMA TurnTakes ==
  ASSUME PacingTypeOK
  PROVE  \E n \in 0..Len(Kept) :
           /\ _step = Taking(n)
           /\ n <= 1 \/ n <= MaxBurst
           /\ Rising(Kept) => \A i \in 1..n : Expected(Kept[i].idx) <= now
<1> DEFINE backlog == now - Expected(Kept[1].idx)
           m == Least(BurstFrames(backlog), Len(Kept))
           due == {i \in 1..m : Expected(Kept[i].idx) <= now}
<1>1. Kept \in Seq(Entry)
  BY KeptSuffix DEF PacingTypeOK, Suffix
<1>2. Len(Kept) \in Nat /\ DOMAIN Kept = 1..Len(Kept)
      /\ \A i \in 1..Len(Kept) : Kept[i] \in Entry
  BY <1>1, SeqItems
<1>3. CASE Kept = <<>> \/ backlog < 0
  <2>1. _step = Taking(0)
    BY <1>3 DEF _step
  <2>2. 0 \in 0..Len(Kept) /\ 0 <= 1 /\ 1..0 = {}
    BY <1>2
  <2> QED
    BY <2>1, <2>2
<1>4. CASE ~(Kept = <<>> \/ backlog < 0)
  <2>1. backlog \in Int /\ backlog >= 0
    <3>1. Kept[1] \in Entry
      BY <1>1, <1>2, <1>4, SeqItems
    <3>2. Kept[1].idx \in Nat
      BY <3>1 DEF Entry
    <3>3. Expected(Kept[1].idx) \in Nat
      BY <3>2, ExpectedType
    <3>4. now \in Nat
      BY PacingAssumption DEF PacingTypeOK
    <3>5. backlog \in Int
      BY <3>3, <3>4
    <3> QED
      BY <1>4, <3>5
  <2> HIDE DEF backlog
  <2>2. /\ Least(BurstMs, backlog) \in Nat
        /\ Least(BurstMs, backlog) \div FrameMs \in Nat
        /\ BurstMs \div FrameMs \in Nat
    BY <2>1, PacingAssumption DEF Least
  <2>3. MaxBurst \in Nat /\ BurstFrames(backlog) \in Nat /\ BurstFrames(backlog) <= MaxBurst
    BY <2>2 DEF MaxBurst, BurstFrames, Least, Greatest
  <2>4. m \in 0..Len(Kept) /\ m <= MaxBurst /\ m \in Nat
    BY <1>2, <2>3 DEF Least
  <2>5. _step = Taking(Cardinality(due))
    BY <1>4 DEF _step, backlog
  <2> HIDE DEF m
  <2>6. Cardinality(due) \in 0..m
    BY <2>4, SubsetSize
  <2>7. Cardinality(due) \in 0..Len(Kept) /\ Cardinality(due) <= MaxBurst
    BY <1>2, <2>3, <2>4, <2>6
  <2>8. ASSUME Rising(Kept), NEW i \in 1..Cardinality(due)
        PROVE  Expected(Kept[i].idx) <= now
    <3>1. ASSUME NEW a \in due, NEW b \in 1..m, b < a
          PROVE  b \in due
      <4>1. a \in DOMAIN Kept /\ b \in DOMAIN Kept
        BY <1>2, <2>4
      <4>2. Kept[b].idx < Kept[a].idx /\ Kept[b].idx \in Nat /\ Kept[a].idx \in Nat
        BY <1>2, <2>8, <3>1, <4>1 DEF Rising, Entry
      <4>3. Expected(Kept[b].idx) <= Expected(Kept[a].idx)
        BY <4>2, ExpectedRises
      <4>4. Expected(Kept[b].idx) \in Nat /\ Expected(Kept[a].idx) \in Nat
        BY <4>2, ExpectedType
      <4>5. now \in Nat /\ Expected(Kept[a].idx) <= now
        BY <3>1, PacingAssumption DEF PacingTypeOK
      <4> QED
        BY <4>3, <4>4, <4>5
    <3>2. due \in SUBSET (1..m)
      OBVIOUS
    <3>3. i \in due
      <4> HIDE DEF due
      <4> QED
        BY <2>4, <3>1, <3>2, NoGaps
    <3> QED
      BY <3>3
  <2> HIDE DEF due
  <2> QED
    BY <2>5, <2>7, <2>8
<1> QED
  BY <1>3, <1>4

\* A turn drops the first k entries of the queue as too late, and takes n more.
Taken(k, n) ==
  /\ k + n \in 0..Len(q)
  /\ n <= 1 \/ n <= MaxBurst
  /\ hand' \in Seq(Entry) /\ Len(hand') = n
  /\ \A i \in 1..n : hand'[i] = q[i + k]
  /\ q' \in Seq(Entry) /\ Len(q') = Len(q) - (k + n)
  /\ \A i \in 1..Len(q) - (k + n) : q'[i] = q[i + (k + n)]
  /\ Rising(q) => \A i \in 1..n : Expected(hand'[i].idx) <= now
  /\ wake' \in Nat \cup {None}

LEMMA StepTakes ==
  ASSUME PacingTypeOK, Step
  PROVE  \E k, n \in Nat : Taken(k, n)
<1>1. q \in Seq(Entry)
  BY DEF PacingTypeOK
<1>2. PICK k \in Nat : Suffix(Kept, q, k)
  BY <1>1, KeptSuffix
<1>3. PICK n \in 0..Len(Kept) :
        /\ _step = Taking(n)
        /\ n <= 1 \/ n <= MaxBurst
        /\ Rising(Kept) => \A i \in 1..n : Expected(Kept[i].idx) <= now
  BY TurnTakes
<1>4. /\ Kept \in Seq(Entry) /\ Len(Kept) = Len(q) - k /\ k \in 0..Len(q)
      /\ \A i \in 1..Len(q) - k : Kept[i] = q[i + k]
  BY <1>2 DEF Suffix
<1>5. Len(q) \in Nat /\ Len(Kept) \in Nat /\ n \in Nat /\ k + n \in 0..Len(q)
      /\ DOMAIN Kept = 1..Len(Kept) /\ DOMAIN q = 1..Len(q)
      /\ \A i \in 1..Len(Kept) : Kept[i] \in Entry
  BY <1>1, <1>3, <1>4, SeqItems
<1>6. /\ hand' = SubSeq(Kept, 1, n)
      /\ q' = SubSeq(Kept, n + 1, Len(Kept))
      /\ wake' = IF n = Len(Kept) THEN None ELSE Expected(Kept[n + 1].idx)
  BY <1>3 DEF Step, Taking
<1>7. hand' \in Seq(Entry) /\ Len(hand') = n /\ \A i \in 1..n : hand'[i] = Kept[i]
  BY <1>3, <1>4, <1>6, SeqFront
<1>8. /\ q' \in Seq(Entry) /\ Len(q') = Len(Kept) - n
      /\ \A i \in 1..Len(Kept) - n : q'[i] = Kept[i + n]
  BY <1>3, <1>4, <1>6, SeqBack
<1>9. ASSUME NEW i \in 1..n
      PROVE  hand'[i] = q[i + k]
  <2>1. i \in 1..Len(q) - k
    BY <1>3, <1>4, <1>5
  <2> QED
    BY <1>4, <1>7, <2>1
<1>10. ASSUME NEW i \in 1..Len(q) - (k + n)
       PROVE  q'[i] = q[i + (k + n)]
  <2>1. i \in 1..Len(Kept) - n /\ i + n \in 1..Len(q) - k /\ i + n + k = i + (k + n)
    BY <1>4, <1>5
  <2> QED
    BY <1>4, <1>8, <2>1
<1>11. Len(q') = Len(q) - (k + n)
  BY <1>4, <1>5, <1>8
<1>12. Rising(q) => Rising(Kept)
  <2> SUFFICES ASSUME Rising(q), NEW i \in 1..Len(Kept), NEW j \in 1..Len(Kept), i < j
               PROVE  Kept[i].frame < Kept[j].frame /\ Kept[i].idx < Kept[j].idx
    BY <1>5 DEF Rising
  <2>1. /\ i + k \in DOMAIN q /\ j + k \in DOMAIN q /\ i + k < j + k
        /\ i \in 1..Len(q) - k /\ j \in 1..Len(q) - k
    BY <1>4, <1>5
  <2> QED
    BY <1>4, <2>1 DEF Rising
<1>13. wake' \in Nat \cup {None}
  <2>1. CASE n = Len(Kept)
    BY <1>6, <2>1
  <2>2. CASE n # Len(Kept)
    <3>1. n + 1 \in 1..Len(Kept)
      <4>1. n \in 0..Len(Kept) /\ Len(Kept) \in Nat
        BY <1>3, <1>5
      <4> QED
        BY <2>2, <4>1
    <3>2. Kept[n + 1].idx \in Nat
      BY <1>5, <3>1 DEF Entry
    <3> QED
      BY <1>6, <2>2, <3>2, ExpectedType
  <2> QED
    BY <2>1, <2>2
<1> QED
  BY <1>3, <1>5, <1>7, <1>8, <1>9, <1>10, <1>11, <1>12, <1>13 DEF Taken

\* How run() goes on.
LEMMA RestEffect ==
  ASSUME PacingTypeOK, NEW queue, NEW w \in Nat \cup {None}, Rest(queue, w)
  PROVE  /\ active' \in BOOLEAN /\ run' \in {"loop", "over"}
         /\ alarm' \in Nat
<1>1. now \in Nat /\ FrameMs \in Nat /\ active \in BOOLEAN /\ alarm \in Nat
  BY PacingAssumption DEF PacingTypeOK
<1>2. now + Poll \in Nat
  BY RetryType DEF Poll
<1>3. w # None => now + Greatest(0, Least(w - now, FrameMs)) \in Nat
  BY <1>1 DEF Greatest, Least
<1>4. alarm' \in {alarm, now + Poll, now} \/ (w # None /\ alarm' = now + Greatest(0, Least(w - now, FrameMs)))
  BY DEF Rest
<1>5. alarm' \in Nat
  BY <1>1, <1>2, <1>3, <1>4
<1>6. active' \in {FALSE, active} /\ run' \in {"loop", "over"}
  BY DEF Rest
<1> QED
  BY <1>1, <1>5, <1>6

-----------------------------------------------------------------------------
(* What the studio does to what is pending *)

\* A frame that stays has moved up by the t frames dropped, except for the one
\* that the producer holds.
Was(i, t) == i + IF held # 0 /\ i = 1 THEN 0 ELSE t

\* Frame k is put last; t frames at the head of the source's queue make room.
Pushed(k, t) ==
  /\ buffer' \in Seq(0..MaxFrame)
  /\ kind = "studio" => Len(buffer') <= FeedMax
  /\ Pending' \in Seq(0..MaxFrame)
  /\ Len(Pending') = Len(Pending) - t + 1
  /\ Pending'[Len(Pending')] = k
  /\ \A i \in 1..Len(Pending) - t :
       Was(i, t) \in 1..Len(Pending) /\ Pending'[i] = Pending[Was(i, t)]

LEMMA AppendPushes ==
  ASSUME PacingTypeOK, held' = held, NEW k \in 0..MaxFrame, NEW t \in {0, 1},
         t = 1 => buffer # <<>>,
         buffer' = Append(IF t = 1 THEN Tail(buffer) ELSE buffer, k),
         kind = "studio" => Len(buffer) - t + 1 <= FeedMax
  PROVE  Pushed(k, t)
<1> DEFINE b == IF t = 1 THEN Tail(buffer) ELSE buffer
<1>1. buffer \in Seq(0..MaxFrame) /\ held \in 0..MaxFrame
  BY DEF PacingTypeOK
<1>2. Len(buffer) \in Nat /\ (t = 1 => Len(buffer) >= 1)
  BY <1>1, SeqItems
<1>3. b \in Seq(0..MaxFrame)
  <2>1. CASE t = 1
    BY <1>1, <2>1, SeqTail
  <2>2. CASE t # 1
    BY <1>1, <2>2
  <2> QED
    BY <2>1, <2>2
<1>4. Len(b) = Len(buffer) - t
  <2>1. CASE t = 1
    BY <1>1, <2>1, SeqTail
  <2>2. CASE t = 0
    BY <1>2, <2>2
  <2> QED
    BY <2>1, <2>2
<1>5. ASSUME NEW i \in 1..Len(buffer) - t
      PROVE  b[i] = buffer[i + t]
  <2>1. CASE t = 1
    BY <1>1, <2>1, SeqTail
  <2>2. CASE t = 0
    <3>1. i + t = i
      BY <2>2
    <3> QED
      BY <2>2, <3>1
  <2> QED
    BY <2>1, <2>2
<1>6. buffer' = Append(b, k)
  OBVIOUS
<1> HIDE DEF b
<1>7. /\ buffer' \in Seq(0..MaxFrame) /\ Len(buffer') = Len(b) + 1
      /\ \A i \in 1..Len(b) : buffer'[i] = b[i]
      /\ buffer'[Len(b) + 1] = k
  <2> DEFINE Item == 0..MaxFrame
  <2>1. b \in Seq(Item) /\ k \in Item
    BY <1>3
  <2> HIDE DEF Item
  <2>2. /\ buffer' \in Seq(Item) /\ Len(buffer') = Len(b) + 1
        /\ \A i \in 1..Len(b) : buffer'[i] = b[i]
        /\ buffer'[Len(b) + 1] = k
    BY ONLY <1>6, <2>1, SeqAppend
  <2> QED
    BY <2>2 DEF Item
<1>8. Len(buffer') = Len(buffer) - t + 1 /\ buffer'[Len(buffer')] = k
  BY <1>2, <1>4, <1>7
<1>9. ASSUME NEW i \in 1..Len(buffer) - t
      PROVE  buffer'[i] = buffer[i + t]
  BY <1>4, <1>5, <1>7
<1>10. CASE held = 0
  <2>1. Pending = buffer /\ Pending' = buffer'
    BY <1>1, <1>7, <1>10, AheadItems DEF Pending
  <2>2. \A i \in 1..Len(buffer) - t : Was(i, t) = i + t /\ i + t \in 1..Len(buffer)
    BY <1>2, <1>10 DEF Was
  <2> QED
    BY <1>7, <1>8, <1>9, <2>1, <2>2 DEF Pushed
<1>11. CASE held # 0
  <2>1. /\ Len(Pending) = Len(buffer) + 1
        /\ Pending[1] = held
        /\ \A i \in 1..Len(buffer) : Pending[i + 1] = buffer[i]
    BY <1>1, <1>11, AheadItems DEF Pending
  <2>2. /\ Pending' \in Seq(0..MaxFrame)
        /\ Len(Pending') = Len(buffer') + 1
        /\ Pending'[1] = held
        /\ \A i \in 1..Len(buffer') : Pending'[i + 1] = buffer'[i]
    <3>1. held' \in 0..MaxFrame /\ held' # 0 /\ buffer' \in Seq(0..MaxFrame)
      BY <1>1, <1>7, <1>11
    <3> QED
      BY <3>1, AheadItems DEF Pending
  <2>3. Len(buffer') \in Nat /\ Len(buffer') >= 1
    BY <1>2, <1>8
  <2>4. Len(Pending') = Len(Pending) - t + 1
    BY <1>2, <1>8, <2>1, <2>2
  <2>5. Pending'[Len(Pending')] = k
    <3>1. Len(buffer') \in 1..Len(buffer')
      BY <2>3
    <3> QED
      BY <1>8, <2>2, <3>1
  <2>6. ASSUME NEW i \in 1..Len(Pending) - t
        PROVE  Was(i, t) \in 1..Len(Pending) /\ Pending'[i] = Pending[Was(i, t)]
    <3>1. CASE i = 1
      <4>1. Was(i, t) = 1 /\ 1 \in 1..Len(Pending)
        BY <1>2, <1>11, <2>1, <3>1 DEF Was
      <4> QED
        BY <2>1, <2>2, <3>1, <4>1
    <3>2. CASE i # 1
      <4> DEFINE j == i - 1
      <4>1. /\ j \in 1..Len(buffer) - t /\ j \in 1..Len(buffer') /\ i = j + 1
            /\ j + t \in 1..Len(buffer) /\ Was(i, t) = (j + t) + 1
        BY <1>2, <1>8, <2>1, <3>2 DEF Was
      <4>2. Was(i, t) \in 1..Len(Pending)
        BY <1>2, <2>1, <4>1
      <4> HIDE DEF j
      <4>3. Pending'[i] = buffer'[j] /\ buffer'[j] = buffer[j + t]
            /\ Pending[(j + t) + 1] = buffer[j + t]
        BY <1>9, <2>1, <2>2, <4>1
      <4> QED
        BY <4>1, <4>2, <4>3
    <3> QED
      BY <3>1, <3>2
  <2> QED
    BY <1>7, <1>8, <2>2, <2>4, <2>5, <2>6 DEF Pushed
<1> QED
  BY <1>10, <1>11

LEMMA ReceivePushes ==
  ASSUME PacingTypeOK, Receive
  PROVE  \E k \in newest + 1..MaxFrame, t \in {0, 1} : newest' = k /\ Pushed(k, t)
<1>1. PICK k \in newest + 1..MaxFrame : push(k)
  BY DEF Receive
<1>2. held' = held /\ k \in 0..MaxFrame /\ kind = "studio"
  BY <1>1, PacingAssumption DEF Receive, PacingTypeOK
<1>3. Len(buffer) \in Nat /\ Len(buffer) <= FeedMax /\ FeedMax \in Nat \ {0}
      /\ Len(<<>>) = 0
  BY <1>2, SeqItems, PacingAssumption DEF PacingTypeOK
<1>4. CASE Len(buffer) < FeedMax
  <2>1. buffer' = Append(buffer, k)
    BY <1>1, <1>4 DEF push
  <2>2. Pushed(k, 0)
    BY <1>2, <1>3, <1>4, <2>1, AppendPushes
  <2> QED
    BY <1>1, <2>2 DEF push
<1>5. CASE ~(Len(buffer) < FeedMax)
  <2>1. buffer' = Append(Tail(buffer), k)
    BY <1>1, <1>5 DEF push
  <2>2. buffer # <<>> /\ Len(buffer) - 1 + 1 <= FeedMax
    BY <1>3, <1>5
  <2>3. Pushed(k, 1)
    BY <1>2, <2>1, <2>2, AppendPushes
  <2> QED
    BY <1>1, <2>3 DEF push
<1> QED
  BY <1>4, <1>5

\* The close signal is put last, or lost.
LEMMA ClosePushes ==
  ASSUME PacingTypeOK, Close
  PROVE  Pushed(End, 0) \/ UNCHANGED <<held, buffer>>
<1>1. held' = held /\ End \in 0..MaxFrame
  BY PacingAssumption DEF Close, End
<1>2. Len(buffer) \in Nat /\ FeedMax \in Nat
  BY SeqItems, PacingAssumption DEF PacingTypeOK
<1>3. CASE Len(buffer) < FeedMax
  <2>1. buffer' = Append(buffer, End)
    BY <1>3 DEF Close
  <2>2. Pushed(End, 0)
    BY <1>1, <1>2, <1>3, <2>1, AppendPushes
  <2> QED
    BY <2>2
<1>4. CASE ~(Len(buffer) < FeedMax)
  BY <1>1, <1>4 DEF Close
<1> QED
  BY <1>3, <1>4

-----------------------------------------------------------------------------
(* Types, and where the End signal is *)

LEMMA PendingNext ==
  ASSUME held' \in 0..MaxFrame, buffer' \in Seq(0..MaxFrame)
  PROVE  /\ Pending' \in Seq(0..MaxFrame) /\ Len(Pending') \in Nat
         /\ DOMAIN Pending' = 1..Len(Pending')
<1>1. Pending' \in Seq(0..MaxFrame)
  BY AheadItems DEF Pending
<1> QED
  BY <1>1, SeqItems

LEMMA PendingNow ==
  ASSUME PacingTypeOK
  PROVE  /\ Pending \in Seq(0..MaxFrame) /\ Len(Pending) \in Nat
         /\ DOMAIN Pending = 1..Len(Pending)
         /\ \A i \in 1..Len(Pending) : Pending[i] \in 0..MaxFrame
<1>1. Pending \in Seq(0..MaxFrame)
  BY PendingItems DEF PacingTypeOK
<1> QED
  BY <1>1, SeqItems

LEMMA MovedPipe ==
  ASSUME PipeInv, NEW fit \in Nat, NEW d \in Nat, Moved(fit, d)
  PROVE  PacingTypeOK' /\ FeedInv'
<1>1. PacingTypeOK /\ FeedInv
  BY DEF PipeInv
<1>2. /\ UNCHANGED <<now, lagged, kind, newest, closed, start_ms, active, run, hand, wake,
                     alarm, heard, stop>>
      /\ held' \in 0..MaxFrame /\ buffer' \in Seq(0..MaxFrame)
      /\ Len(buffer') <= Len(buffer)
      /\ q' \in Seq(Entry) /\ Len(q') <= QueueMax
      /\ next_idx' = next_idx + fit /\ retry' \in Nat
      /\ prod' \in {"full", "get", "over"} /\ (prod' = "full" <=> held' # 0)
  BY DEF Moved, clock
<1>3. next_idx' \in Nat
  BY <1>1, <1>2 DEF PacingTypeOK
<1>4. kind' = "studio" => Len(buffer') <= FeedMax
  <2>1. buffer \in Seq(0..MaxFrame) /\ (kind = "studio" => Len(buffer) <= FeedMax)
    BY <1>1 DEF PacingTypeOK
  <2>2. Len(buffer) \in Nat /\ Len(buffer') \in Nat /\ FeedMax \in Nat
    BY <1>2, <2>1, SeqItems, PacingAssumption
  <2> QED
    BY <1>2, <2>1, <2>2
<1>5. PacingTypeOK'
  BY <1>1, <1>2, <1>3, <1>4 DEF PacingTypeOK
<1>6. ASSUME NEW i \in DOMAIN Pending', Pending'[i] = End
      PROVE  i = Len(Pending') /\ (kind' = "file" \/ closed')
  <2>1. /\ DOMAIN Pending' = 1..Len(Pending') /\ DOMAIN Pending = 1..Len(Pending)
        /\ Len(Pending) \in Nat
    BY <1>1, <1>2, PendingNext, PendingNow
  <2>2. /\ Len(Pending') = Len(Pending) - d /\ d \in 0..Len(Pending)
        /\ \A j \in 1..Len(Pending) - d : Pending'[j] = Pending[j + d]
    BY DEF Moved
  <2>3. i \in 1..Len(Pending) - d /\ i + d \in DOMAIN Pending
    BY <2>1, <2>2
  <2>4. i + d = Len(Pending) /\ (kind = "file" \/ closed)
    BY <1>1, <1>6, <2>2, <2>3 DEF FeedInv
  <2> QED
    BY <1>2, <2>1, <2>2, <2>3, <2>4
<1>7. FeedInv'
  BY <1>1, <1>2, <1>6 DEF FeedInv
<1> QED
  BY <1>5, <1>7

LEMMA StepPipe ==
  ASSUME PipeInv, Step
  PROVE  PacingTypeOK' /\ FeedInv'
<1>1. PacingTypeOK /\ FeedInv
  BY DEF PipeInv
<1>2. PICK k \in Nat, n \in Nat : Taken(k, n)
  BY <1>1, StepTakes
<1>3. /\ UNCHANGED <<now, lagged, kind, newest, buffer, closed, prod, held, retry, next_idx,
                     start_ms, heard, stop>>
      /\ hand' = _step.out /\ wake' = _step.wake
      /\ _step.out = <<>> => Rest(_step.rest, _step.wake)
      /\ _step.out # <<>> => run' = "sending" /\ UNCHANGED <<active, alarm>>
  BY DEF Step, clock, feeder
<1>4. /\ hand' \in Seq(Entry) /\ wake' \in Nat \cup {None}
      /\ q' \in Seq(Entry) /\ Len(q') = Len(q) - (k + n) /\ k + n \in 0..Len(q)
  BY <1>2 DEF Taken
<1>5. Len(q') <= QueueMax
  <2>1. Len(q) \in Nat /\ Len(q) <= QueueMax /\ QueueMax \in Nat
    BY <1>1, SeqItems, PacingAssumption DEF PacingTypeOK
  <2> QED
    BY <1>4, <2>1
<1>6. /\ active' \in BOOLEAN /\ alarm' \in Nat
      /\ run' \in {"loop", "over"} \/ (run' = "sending" /\ hand' # <<>>)
  <2>1. CASE _step.out = <<>>
    <3>1. /\ active' \in BOOLEAN /\ run' \in {"loop", "over"}
          /\ alarm' \in Nat
      BY <1>1, <1>3, <1>4, <2>1, RestEffect
    <3> QED
      BY <3>1
  <2>2. CASE _step.out # <<>>
    BY <1>1, <1>3, <2>2 DEF PacingTypeOK
  <2> QED
    BY <2>1, <2>2
<1>7. PacingTypeOK'
  BY <1>1, <1>3, <1>4, <1>5, <1>6 DEF PacingTypeOK
<1>8. Pending' = Pending
  BY <1>3 DEF Pending
<1>9. FeedInv'
  BY <1>1, <1>3, <1>6, <1>8 DEF FeedInv
<1> QED
  BY <1>7, <1>9

\* A fanout returns: the frame it sent is the head of what was taken.
LEMMA SendTakes ==
  ASSUME PipeInv, SendFrame
  PROVE  /\ hand # <<>> /\ hand[1] \in Entry /\ heard' = hand[1].frame /\ hand' = Tail(hand)
         /\ Head(hand) = hand[1] /\ Len(hand) \in Nat /\ Len(hand) >= 1
         /\ hand' \in Seq(Entry) /\ Len(hand') = Len(hand) - 1
         /\ \A i \in 1..Len(hand) - 1 : hand'[i] = hand[i + 1]
<1>1. hand \in Seq(Entry) /\ hand # <<>>
  BY DEF PipeInv, PacingTypeOK, FeedInv, SendFrame
<1>2. Len(hand) \in Nat /\ Len(hand) >= 1
  BY <1>1, SeqItems
<1> QED
  BY <1>1, <1>2, SeqTail DEF SendFrame

LEMMA SendPipe ==
  ASSUME PipeInv, SendFrame
  PROVE  PacingTypeOK' /\ FeedInv'
<1>1. PacingTypeOK /\ FeedInv
  BY DEF PipeInv
<1>2. hand' \in Seq(Entry) /\ heard' \in 0..MaxFrame /\ hand' = Tail(hand)
  BY SendTakes, PacingAssumption DEF Entry
<1>3. /\ UNCHANGED <<now, lagged, kind, newest, buffer, closed, prod, held, retry, q,
                     next_idx, start_ms, wake, stop>>
      /\ Tail(hand) = <<>> => Rest(q, wake)
      /\ Tail(hand) # <<>> => UNCHANGED <<run, active, alarm>>
      /\ run = "sending"
  BY DEF SendFrame, clock, feeder
<1>4. wake \in Nat \cup {None}
  BY <1>1 DEF PacingTypeOK
<1>5. /\ active' \in BOOLEAN /\ alarm' \in Nat
      /\ run' \in {"loop", "over"} \/ (run' = "sending" /\ hand' # <<>>)
  <2>1. CASE Tail(hand) = <<>>
    <3>1. /\ active' \in BOOLEAN /\ run' \in {"loop", "over"}
          /\ alarm' \in Nat
      BY <1>1, <1>3, <1>4, <2>1, RestEffect
    <3> QED
      BY <3>1
  <2>2. CASE Tail(hand) # <<>>
    BY <1>1, <1>2, <1>3, <2>2 DEF PacingTypeOK
  <2> QED
    BY <2>1, <2>2
<1>6. PacingTypeOK'
  BY <1>1, <1>2, <1>3, <1>5 DEF PacingTypeOK
<1>7. Pending' = Pending
  BY <1>3 DEF Pending
<1>8. FeedInv'
  BY <1>1, <1>3, <1>5, <1>7 DEF FeedInv
<1> QED
  BY <1>6, <1>8

\* As long as a studio's source is open there is no End signal.
LEMMA OpenStudio ==
  ASSUME PipeInv, kind = "studio", ~closed, NEW i \in 1..Len(Pending)
  PROVE  Pending[i] \in 1..MaxFrame
<1>1. i \in DOMAIN Pending /\ Pending[i] \in 0..MaxFrame
  BY PendingNow DEF PipeInv
<1>2. Pending[i] # 0
  BY <1>1 DEF PipeInv, FeedInv, End
<1> QED
  BY <1>1, <1>2, PacingAssumption

LEMMA ReceivePipe ==
  ASSUME PipeInv, Receive
  PROVE  PacingTypeOK' /\ FeedInv'
<1>1. PacingTypeOK /\ FeedInv
  BY DEF PipeInv
<1>2. /\ kind = "studio" /\ ~closed
      /\ UNCHANGED <<now, lagged, kind, closed, prod, held, retry, engine, stop>>
  BY DEF Receive, clock
<1>3. PICK k \in newest + 1..MaxFrame, t \in {0, 1} : newest' = k /\ Pushed(k, t)
  BY <1>1, ReceivePushes
<1>4. k \in 1..MaxFrame
  BY <1>1, <1>3, PacingAssumption DEF PacingTypeOK
<1>5. newest' \in 0..MaxFrame /\ buffer' \in Seq(0..MaxFrame)
      /\ (kind' = "studio" => Len(buffer') <= FeedMax)
  BY <1>2, <1>3, <1>4, PacingAssumption DEF Pushed
<1>6. PacingTypeOK'
  BY <1>1, <1>2, <1>5 DEF PacingTypeOK, engine
<1>7. ASSUME NEW i \in DOMAIN Pending'
      PROVE  Pending'[i] # End
  <2>1. held' \in 0..MaxFrame
    BY <1>1, <1>2 DEF PacingTypeOK
  <2>2. DOMAIN Pending' = 1..Len(Pending') /\ Len(Pending) \in Nat
    BY <1>1, <1>5, <2>1, PendingNext, PendingNow
  <2>3. /\ Len(Pending') = Len(Pending) - t + 1
        /\ Pending'[Len(Pending')] = k
        /\ \A j \in 1..Len(Pending) - t :
             Was(j, t) \in 1..Len(Pending) /\ Pending'[j] = Pending[Was(j, t)]
    BY <1>3 DEF Pushed
  <2>4. CASE i = Len(Pending')
    BY <1>4, <2>3, <2>4 DEF End
  <2>5. CASE i # Len(Pending')
    <3>1. i \in 1..Len(Pending) - t
      BY <2>2, <2>3, <2>5
    <3>2. Pending'[i] \in 1..MaxFrame
      BY <1>2, <2>3, <3>1, OpenStudio
    <3> QED
      BY <3>2 DEF End
  <2> QED
    BY <2>4, <2>5
<1>8. FeedInv'
  BY <1>1, <1>2, <1>7 DEF FeedInv, engine
<1> QED
  BY <1>6, <1>8

LEMMA ClosePipe ==
  ASSUME PipeInv, Close
  PROVE  PacingTypeOK' /\ FeedInv'
<1>1. PacingTypeOK /\ FeedInv
  BY DEF PipeInv
<1>2. /\ kind = "studio" /\ ~closed /\ closed' = TRUE
      /\ UNCHANGED <<now, lagged, kind, newest, prod, held, retry, engine, stop>>
  BY DEF Close, clock
<1>3. CASE UNCHANGED <<held, buffer>>
  <2>1. Pending' = Pending
    BY <1>3 DEF Pending
  <2>2. PacingTypeOK'
    BY <1>1, <1>2, <1>3 DEF PacingTypeOK, engine
  <2>3. FeedInv'
    BY <1>1, <1>2, <2>1 DEF FeedInv, engine
  <2> QED
    BY <2>2, <2>3
<1>4. CASE Pushed(End, 0)
  <2>1. /\ buffer' \in Seq(0..MaxFrame) /\ (kind' = "studio" => Len(buffer') <= FeedMax)
        /\ Len(Pending') = Len(Pending) - 0 + 1
        /\ \A j \in 1..Len(Pending) - 0 :
             Was(j, 0) \in 1..Len(Pending) /\ Pending'[j] = Pending[Was(j, 0)]
    BY <1>2, <1>4 DEF Pushed
  <2>2. PacingTypeOK'
    BY <1>1, <1>2, <2>1 DEF PacingTypeOK, engine
  <2>3. ASSUME NEW i \in DOMAIN Pending', Pending'[i] = End
        PROVE  i = Len(Pending')
    <3>1. held' \in 0..MaxFrame
      BY <1>1, <1>2 DEF PacingTypeOK
    <3>2. DOMAIN Pending' = 1..Len(Pending') /\ Len(Pending) \in Nat
      BY <1>1, <2>1, <3>1, PendingNext, PendingNow
    <3>3. SUFFICES ASSUME i # Len(Pending')
                   PROVE  FALSE
      OBVIOUS
    <3>4. i \in 1..Len(Pending) - 0
      BY <2>1, <3>2, <3>3
    <3>5. Pending'[i] \in 1..MaxFrame
      BY <1>2, <2>1, <3>4, OpenStudio
    <3> QED
      BY <2>3, <3>5 DEF End
  <2>4. FeedInv'
    BY <1>1, <1>2, <2>3 DEF FeedInv, engine
  <2> QED
    BY <2>2, <2>4
<1> QED
  BY <1>1, <1>3, <1>4, ClosePushes

\* The frame that submit() waits with is dropped when its task is cancelled.
LEMMA CancelledPending ==
  ASSUME PacingTypeOK, held' = 0, buffer' = buffer
  PROVE  \E c \in {0, 1} : /\ c = 1 <=> held # 0
                           /\ Len(Pending') = Len(Pending) - c
                           /\ \A i \in 1..Len(Pending) - c : Pending'[i] = Pending[i + c]
<1>1. held \in 0..MaxFrame /\ buffer \in Seq(0..MaxFrame) /\ 0 \in 0..MaxFrame
  BY PacingAssumption DEF PacingTypeOK
<1>2. Pending' = buffer
  BY <1>1, AheadItems DEF Pending
<1>3. Len(buffer) \in Nat
  BY <1>1, SeqItems
<1>4. CASE held = 0
  <2>1. Len(Pending') = Len(Pending) - 0
        /\ \A i \in 1..Len(Pending) - 0 : Pending'[i] = Pending[i + 0]
    BY <1>1, <1>2, <1>3, <1>4, PendingItems
  <2> QED
    BY <1>4, <2>1
<1>5. CASE held # 0
  <2>1. Len(Pending') = Len(Pending) - 1
        /\ \A i \in 1..Len(Pending) - 1 : Pending'[i] = Pending[i + 1]
    BY <1>1, <1>2, <1>3, <1>5, PendingItems
  <2> QED
    BY <1>5, <2>1
<1> QED
  BY <1>4, <1>5

LEMMA CancelPipe ==
  ASSUME PipeInv, ProducerCancelled
  PROVE  PacingTypeOK' /\ FeedInv'
<1>1. PacingTypeOK /\ FeedInv
  BY DEF PipeInv
<1>2. /\ prod' = "over" /\ held' = 0 /\ stop' \in {"run", "done"}
      /\ UNCHANGED <<now, lagged, kind, newest, buffer, closed, retry, engine>>
  BY DEF ProducerCancelled, clock
<1>3. held' \in 0..MaxFrame
  BY <1>2, PacingAssumption
<1>4. PacingTypeOK'
  BY <1>1, <1>2, <1>3 DEF PacingTypeOK, engine
<1>5. PICK c \in {0, 1} : /\ Len(Pending') = Len(Pending) - c
                          /\ \A i \in 1..Len(Pending) - c : Pending'[i] = Pending[i + c]
  BY <1>1, <1>2, CancelledPending
<1>6. ASSUME NEW i \in DOMAIN Pending', Pending'[i] = End
      PROVE  i = Len(Pending') /\ (kind' = "file" \/ closed')
  <2>1. buffer' \in Seq(0..MaxFrame)
    BY <1>1, <1>2 DEF PacingTypeOK
  <2>2. /\ DOMAIN Pending' = 1..Len(Pending') /\ DOMAIN Pending = 1..Len(Pending)
        /\ Len(Pending) \in Nat
    BY <1>1, <1>3, <2>1, PendingNext, PendingNow
  <2>3. i \in 1..Len(Pending) - c /\ i + c \in DOMAIN Pending
    BY <1>5, <2>2
  <2>4. i + c = Len(Pending) /\ (kind = "file" \/ closed)
    BY <1>1, <1>5, <1>6, <2>3 DEF FeedInv
  <2> QED
    BY <1>2, <1>5, <2>2, <2>3, <2>4
<1>7. FeedInv'
  BY <1>1, <1>2, <1>6 DEF FeedInv, engine
<1> QED
  BY <1>4, <1>7

LEMMA OtherPipe ==
  ASSUME PipeInv,
         SleepAgain \/ Quit \/ Start \/ Stop \/ RunCancelled \/ Tick \/ UNCHANGED vars
  PROVE  PacingTypeOK' /\ FeedInv'
<1>1. PacingTypeOK /\ FeedInv
  BY DEF PipeInv
<1>2. now \in Nat /\ MaxTime \in Nat /\ QueueMax \in Nat
  BY <1>1, PacingAssumption DEF PacingTypeOK
<1>3. <<>> \in Seq(Entry) /\ Len(<<>>) = 0
  OBVIOUS
<1>4. UNCHANGED <<held, buffer>> => Pending' = Pending
  BY DEF Pending
<1>5. CASE SleepAgain
  <2>1. retry' \in Nat
    BY <1>1, <1>5, RetryType DEF SleepAgain
  <2> QED
    BY <1>1, <1>4, <1>5, <2>1 DEF SleepAgain, clock, engine, PacingTypeOK, FeedInv
<1>6. CASE Quit
  BY <1>1, <1>4, <1>6 DEF Quit, clock, feeder, PacingTypeOK, FeedInv
<1>7. CASE Start
  <2>1. prod = "none"
    BY <1>7 DEF Start, PipeInv, EndInv, DrainInv
  <2> QED
    BY <1>1, <1>2, <1>4, <1>7, <2>1 DEF Start, clock, PacingTypeOK, FeedInv
<1>8. CASE Stop
  <2>1. PacingTypeOK'
    <3>1. stop' \in {"no", "producer", "run", "done"} /\ active' \in BOOLEAN
      BY <1>8 DEF Stop, Await
    <3>2. q' \in Seq(Entry) /\ Len(q') <= QueueMax
      BY <1>2, <1>3, <1>8 DEF Stop
    <3> QED
      BY <1>1, <1>8, <3>1, <3>2 DEF Stop, clock, feeder, PacingTypeOK
  <2>2. FeedInv'
    BY <1>1, <1>4, <1>8 DEF Stop, feeder, FeedInv
  <2> QED
    BY <2>1, <2>2
<1>9. CASE RunCancelled
  <2>1. PacingTypeOK'
    BY <1>1, <1>3, <1>9 DEF RunCancelled, clock, feeder, PacingTypeOK
  <2>2. FeedInv'
    BY <1>1, <1>4, <1>9 DEF RunCancelled, feeder, FeedInv
  <2> QED
    BY <2>1, <2>2
<1>10. CASE Tick
  <2>1. now' \in 0..MaxTime /\ lagged' \in BOOLEAN
    BY <1>1, <1>2, <1>10 DEF Tick, PacingTypeOK, Due
  <2>2. PacingTypeOK'
    BY <1>1, <1>10, <2>1 DEF Tick, feeder, engine, PacingTypeOK
  <2>3. FeedInv'
    BY <1>1, <1>4, <1>10 DEF Tick, feeder, engine, FeedInv
  <2> QED
    BY <2>2, <2>3
<1>11. CASE UNCHANGED vars
  BY <1>1, <1>4, <1>11 DEF vars, clock, feeder, engine, PacingTypeOK, FeedInv
<1> QED
  BY <1>5, <1>6, <1>7, <1>8, <1>9, <1>10, <1>11

LEMMA FileItemsType ==
  /\ FileItems \in Seq(0..MaxFrame) /\ Len(FileItems) = MaxFrame + 1
  /\ \A i \in 1..MaxFrame + 1 : FileItems[i] = IF i = MaxFrame + 1 THEN End ELSE i
<1>1. MaxFrame \in Nat
  BY PacingAssumption
<1>2. ASSUME NEW i \in 1..MaxFrame + 1
      PROVE  /\ i % (MaxFrame + 1) \in 0..MaxFrame
             /\ i % (MaxFrame + 1) = IF i = MaxFrame + 1 THEN End ELSE i
  <2>1. CASE i = MaxFrame + 1
    <3>1. i % (MaxFrame + 1) = 0
      BY <1>1, <2>1
    <3> QED
      BY <1>1, <2>1, <3>1 DEF End
  <2>2. CASE i # MaxFrame + 1
    <3>1. i \in 1..MaxFrame
      BY <1>1, <2>2
    <3>2. i % (MaxFrame + 1) = i
      BY <1>1, <3>1
    <3> QED
      BY <2>2, <3>1, <3>2
  <2> QED
    BY <2>1, <2>2
<1>3. MaxFrame + 1 \in Nat
  BY <1>1
<1>4. FileItems \in [1..MaxFrame + 1 -> 0..MaxFrame]
  BY <1>2 DEF FileItems
<1>5. \A i \in 1..MaxFrame + 1 : FileItems[i] = i % (MaxFrame + 1)
  BY DEF FileItems
<1> HIDE DEF FileItems
<1>6. FileItems \in Seq(0..MaxFrame) /\ Len(FileItems) = MaxFrame + 1
  BY <1>3, <1>4, SeqMake
<1> QED
  BY <1>2, <1>5, <1>6

LEMMA PipeInit == Init => PacingTypeOK /\ FeedInv
<1> SUFFICES ASSUME Init
             PROVE  PacingTypeOK /\ FeedInv
  OBVIOUS
<1>1. buffer \in Seq(0..MaxFrame) /\ (kind = "studio" => Len(buffer) <= FeedMax)
  <2>1. <<>> \in Seq(0..MaxFrame) /\ Len(<<>>) = 0
    OBVIOUS
  <2>2. CASE kind = "file"
    BY <2>2, FileItemsType DEF Init
  <2>3. CASE kind # "file"
    <3>1. buffer = <<>> /\ FeedMax \in Nat
      BY <2>3, PacingAssumption DEF Init
    <3> QED
      BY <2>1, <3>1
  <2> QED
    BY <2>2, <2>3
<1>2. <<>> \in Seq(Entry) /\ Len(<<>>) = 0
  OBVIOUS
<1>3. PacingTypeOK
  <2>1. /\ now \in 0..MaxTime /\ start_ms \in 0..MaxTime
        /\ newest \in 0..MaxFrame /\ held \in 0..MaxFrame /\ heard \in 0..MaxFrame
        /\ kind \in {"studio", "file"} /\ QueueMax \in Nat
    BY PacingAssumption DEF Init
  <2>2. q \in Seq(Entry) /\ Len(q) <= QueueMax /\ hand \in Seq(Entry)
    BY <1>2, <2>1 DEF Init
  <2>3. /\ retry \in Nat /\ next_idx \in Nat /\ alarm \in Nat
        /\ wake \in Nat \cup {None}
    BY DEF Init
  <2> QED
    BY <1>1, <2>1, <2>2, <2>3 DEF Init, PacingTypeOK
<1>4. Pending = buffer
  BY <1>3, PendingItems DEF Init, PacingTypeOK
<1>5. ASSUME NEW i \in DOMAIN Pending, Pending[i] = End
      PROVE  i = Len(Pending) /\ (kind = "file" \/ closed)
  <2>1. DOMAIN Pending = 1..Len(Pending) /\ Len(Pending) \in Nat
    BY <1>3, PendingNow
  <2>2. CASE kind = "file"
    <3>1. Pending = FileItems
      BY <1>4, <2>2 DEF Init
    <3>2. i \in 1..MaxFrame + 1
      BY <2>1, <3>1, FileItemsType
    <3>3. i = MaxFrame + 1
      BY <1>5, <3>1, <3>2, FileItemsType, PacingAssumption DEF End
    <3> QED
      BY <2>2, <3>1, <3>3, FileItemsType
  <2>3. CASE kind # "file"
    BY <1>4, <2>1, <2>3 DEF Init
  <2> QED
    BY <2>2, <2>3
<1>6. FeedInv
  BY <1>5 DEF Init, FeedInv
<1> QED
  BY <1>3, <1>6

LEMMA PipeStep ==
  ASSUME PipeInv, [Next]_vars
  PROVE  PipeInv'
<1>1. EndInv'
  BY EndStep DEF PipeInv
<1>2. PacingTypeOK' /\ FeedInv'
  <2>1. CASE ProducerBegins \/ Pull \/ Submit
    BY <2>1, ProducerMoves, MovedPipe
  <2>2. CASE Step
    BY <2>2, StepPipe
  <2>3. CASE SendFrame
    BY <2>3, SendPipe
  <2>4. CASE Receive
    BY <2>4, ReceivePipe
  <2>5. CASE Close
    BY <2>5, ClosePipe
  <2>6. CASE ProducerCancelled
    BY <2>6, CancelPipe
  <2>7. CASE SleepAgain \/ Quit \/ Start \/ Stop \/ RunCancelled \/ Tick \/ UNCHANGED vars
    BY <2>7, OtherPipe
  <2> QED
    BY <2>1, <2>2, <2>3, <2>4, <2>5, <2>6, <2>7 DEF Next, Server
<1> QED
  BY <1>1, <1>2 DEF PipeInv

\* Types, what the producer holds and where the End signal is, in every state.
THEOREM PipeInvariant == Spec => []PipeInv
<1>1. Init => PipeInv
  BY EndInit, PipeInit DEF PipeInv
<1> QED
  BY <1>1, PipeStep, PTL DEF Spec

\* The types of Pacing: whatever the source, the producer, the loop and stop()
\* do between each other's steps, the two queues keep their bounds.
THEOREM PacingTypes == Spec => []PacingTypeOK
<1>1. PipeInv => PacingTypeOK
  BY DEF PipeInv
<1> QED
  BY <1>1, PipeInvariant, PTL

-----------------------------------------------------------------------------
(* The steps, by what they do to the frames *)

\* Time passes, a task begins, goes on or ends; at most frames are thrown away.
Quiet ==
  /\ UNCHANGED <<kind, newest, closed, held, buffer, next_idx, heard>>
  /\ prod = "over" => prod' = "over"
  /\ q' \in {q, <<>>} /\ hand' \in {hand, <<>>}
  /\ now <= now'
  /\ start_ms' = start_ms \/ hand = <<>>

LEMMA Effects ==
  ASSUME PipeInv, [Next]_vars
  PROVE  \/ prod # "over" /\ \E fit, d \in Nat : Moved(fit, d)
         \/ Step \/ SendFrame \/ Receive \/ Close \/ ProducerCancelled
         \/ Quiet
<1>1. now \in Nat
  BY PacingAssumption DEF PipeInv, PacingTypeOK
<1>2. CASE ProducerBegins \/ Pull \/ Submit
  <2>1. prod # "over"
    BY <1>2 DEF ProducerBegins, Pull, Submit, Retries
  <2> QED
    BY <1>2, <2>1, ProducerMoves
<1>3. CASE SleepAgain
  BY <1>1, <1>3 DEF SleepAgain, Retries, Quiet, clock, engine
<1>4. CASE Quit
  BY <1>1, <1>4 DEF Quit, Quiet, clock, feeder
<1>5. CASE Start
  <2>1. prod = "none" /\ hand = <<>>
    BY <1>5 DEF Start, PipeInv, EndInv, DrainInv
  <2> QED
    BY <1>1, <1>5, <2>1 DEF Start, Quiet, clock
<1>6. CASE Stop
  BY <1>1, <1>6 DEF Stop, Quiet, clock, feeder
<1>7. CASE RunCancelled
  BY <1>1, <1>7 DEF RunCancelled, Quiet, clock, feeder
<1>8. CASE Tick
  <2>1. now <= now'
    BY <1>1, <1>8 DEF Tick
  <2> QED
    BY <1>8, <2>1 DEF Tick, Quiet, feeder, engine
<1>9. CASE UNCHANGED vars
  <2>1. now <= now'
    BY <1>1, <1>9 DEF vars, clock
  <2> QED
    BY <1>9, <2>1 DEF vars, Quiet, clock, feeder, engine
<1> QED
  BY <1>2, <1>3, <1>4, <1>5, <1>6, <1>7, <1>8, <1>9 DEF Next, Server

-----------------------------------------------------------------------------
(* The size of a burst *)

LEMMA BurstLength ==
  ASSUME NEW n \in Nat, n <= 1 \/ n <= MaxBurst
  PROVE  n * FrameMs <= Greatest(BurstMs, FrameMs)
<1>1. FrameMs \in Nat \ {0} /\ BurstMs \in Nat
  BY PacingAssumption
<1>2. CASE n <= 1
  <2>1. n = 0 \/ n = 1
    BY <1>2
  <2>2. 0 * FrameMs = 0 /\ 1 * FrameMs = FrameMs
    BY <1>1
  <2> QED
    BY <1>1, <2>1, <2>2 DEF Greatest
<1>3. CASE n > 1
  <2> DEFINE k == BurstMs \div FrameMs
  <2>1. k \in Nat /\ k * FrameMs <= BurstMs
    BY <1>1
  <2>2. n <= k
    BY <1>1, <1>3, <2>1 DEF MaxBurst, Greatest
  <2> HIDE DEF k
  <2>3. n * FrameMs <= k * FrameMs
    BY <1>1, <2>1, <2>2
  <2>4. n * FrameMs \in Nat /\ k * FrameMs \in Nat
    BY <1>1, <2>1
  <2> QED
    BY <1>1, <2>1, <2>3, <2>4 DEF Greatest
<1> QED
  BY <1>2, <1>3

\* The number of frames that a burst group may have.
Burst == hand \in Seq(Entry) /\ (Len(hand) <= 1 \/ Len(hand) <= MaxBurst)

LEMMA MaxBurstType == MaxBurst \in Nat /\ MaxBurst >= 1
<1>1. BurstMs \div FrameMs \in Nat
  BY PacingAssumption
<1> QED
  BY <1>1 DEF MaxBurst, Greatest

LEMMA BurstStep ==
  ASSUME PipeInv, Burst, [Next]_vars
  PROVE  Burst'
<1>1. hand' \in Seq(Entry)
  <2>1. PipeInv'
    BY PipeStep
  <2> QED
    BY <2>1 DEF PipeInv, PacingTypeOK
<1>2. Len(hand) \in Nat /\ MaxBurst \in Nat /\ MaxBurst' = MaxBurst /\ Len(<<>>) = 0
  BY SeqItems, MaxBurstType DEF Burst, MaxBurst, Greatest
<1>3. CASE hand' \in {hand, <<>>}
  BY <1>1, <1>2, <1>3 DEF Burst
<1>4. CASE Step
  <2>1. PICK k \in Nat, n \in Nat : Taken(k, n)
    BY <1>4, StepTakes DEF PipeInv
  <2> QED
    BY <1>1, <1>2, <2>1 DEF Taken, Burst
<1>5. CASE SendFrame
  <2>1. Len(hand') = Len(hand) - 1
    BY <1>5, SendTakes
  <2> QED
    BY <1>1, <1>2, <2>1 DEF Burst
<1>6. Receive \/ Close \/ ProducerCancelled => hand' = hand
  BY DEF Receive, Close, ProducerCancelled, engine
<1>7. Quiet => hand' \in {hand, <<>>}
  BY DEF Quiet
<1>8. (\E fit, d \in Nat : Moved(fit, d)) => hand' = hand
  BY DEF Moved
<1> QED
  BY <1>3, <1>4, <1>5, <1>6, <1>7, <1>8, Effects

\* No burst group is longer than BURST_GROUP_MAX_MS, whatever the backlog, the
\* size of a frame and the length of the queue, except a single frame.
THEOREM BurstsAreBounded == Spec => []BurstBounded
<1>1. Init => Burst
  <2> SUFFICES ASSUME Init
               PROVE  Burst
    OBVIOUS
  <2>1. hand = <<>> /\ <<>> \in Seq(Entry) /\ Len(<<>>) = 0
    BY DEF Init
  <2> QED
    BY <2>1 DEF Burst
<1>2. PipeInv /\ Burst /\ [Next]_vars => Burst'
  BY BurstStep
<1>3. Burst => BurstBounded
  <2> SUFFICES ASSUME Burst
               PROVE  BurstBounded
    OBVIOUS
  <2>1. Len(hand) \in Nat /\ (Len(hand) <= 1 \/ Len(hand) <= MaxBurst)
    BY SeqItems DEF Burst
  <2> QED
    BY <2>1, BurstLength DEF BurstBounded
<1> QED
  BY <1>1, <1>2, <1>3, PipeInvariant, PTL DEF Spec

-----------------------------------------------------------------------------
(* The timeline of a file *)

\* The entry of a file's packet.
InPlace(s) == \A i \in DOMAIN s : s[i].idx = s[i].frame - 1

Timed == FileInv /\ (kind = "file" => InPlace(q) /\ InPlace(hand))

LEMMA QueueNow ==
  ASSUME PacingTypeOK
  PROVE  /\ q \in Seq(Entry) /\ Len(q) \in Nat /\ DOMAIN q = 1..Len(q)
         /\ hand \in Seq(Entry) /\ Len(hand) \in Nat /\ DOMAIN hand = 1..Len(hand)
         /\ \A i \in DOMAIN q : /\ q[i] \in Entry
                                /\ q[i].idx \in Nat /\ q[i].frame \in 1..MaxFrame
         /\ \A i \in DOMAIN hand : /\ hand[i] \in Entry
                                   /\ hand[i].idx \in Nat /\ hand[i].frame \in 1..MaxFrame
<1>1. /\ q \in Seq(Entry) /\ Len(q) \in Nat /\ DOMAIN q = 1..Len(q)
      /\ hand \in Seq(Entry) /\ Len(hand) \in Nat /\ DOMAIN hand = 1..Len(hand)
      /\ \A i \in DOMAIN q : q[i] \in Entry
      /\ \A i \in DOMAIN hand : hand[i] \in Entry
  BY SeqItems DEF PacingTypeOK
<1> QED
  BY <1>1 DEF Entry

LEMMA TimedMoves ==
  ASSUME PipeInv, PipeInv', Timed, kind = "file", prod # "over",
         NEW fit \in Nat, NEW d \in Nat, Moved(fit, d)
  PROVE  Timed'
<1>1. PacingTypeOK /\ PacingTypeOK'
  BY DEF PipeInv
<1>2. /\ Len(Pending) + next_idx = MaxFrame + 1
      /\ \A i \in 1..Len(Pending) :
           Pending[i] = IF next_idx + i = MaxFrame + 1 THEN End ELSE next_idx + i
      /\ InPlace(q) /\ InPlace(hand)
  BY <1>1, PendingNow DEF Timed, FileInv
<1>3. Len(Pending) \in Nat /\ next_idx \in Nat /\ MaxFrame \in Nat
      /\ DOMAIN Pending' = 1..Len(Pending')
  BY <1>1, PendingNow, PendingNext, PacingAssumption DEF PacingTypeOK
<1>4. FileInv'
  <2> SUFFICES ASSUME prod' # "over"
               PROVE  FileInv'
    BY DEF FileInv
  <2>1. /\ Len(Pending') = Len(Pending) - fit /\ next_idx' = next_idx + fit
        /\ \A i \in 1..Len(Pending) - fit : Pending'[i] = Pending[i + fit]
    BY DEF Moved
  <2>2. Len(Pending') + next_idx' = MaxFrame + 1
    <3>1. Len(Pending) + next_idx = MaxFrame + 1
      BY <1>2
    <3>2. Len(Pending') = Len(Pending) - fit /\ next_idx' = next_idx + fit
      BY <2>1
    <3>3. Len(Pending) \in Nat /\ next_idx \in Nat /\ fit \in Nat
      BY <1>3
    <3> QED
      BY ONLY <3>1, <3>2, <3>3
  <2>3. ASSUME NEW i \in DOMAIN Pending'
        PROVE  Pending'[i] = IF next_idx' + i = MaxFrame + 1 THEN End ELSE next_idx' + i
    <3>1. /\ i \in 1..Len(Pending) - fit /\ i + fit \in 1..Len(Pending)
          /\ next_idx + (i + fit) = next_idx' + i
      BY <1>3, <2>1
    <3> QED
      BY <1>2, <2>1, <3>1
  <2> QED
    BY <2>2, <2>3 DEF FileInv
<1>5. ASSUME NEW i \in DOMAIN q'
      PROVE  q'[i].idx = q'[i].frame - 1
  <2>1. DOMAIN q' = 1..Len(q') /\ DOMAIN q = 1..Len(q) /\ Len(q) \in Nat
    <3>1. q' \in Seq(Entry)
      BY DEF Moved
    <3> QED
      BY <1>1, <3>1, SeqItems, QueueNow
  <2>2. /\ Len(q') = Len(q) + fit
        /\ \A j \in 1..Len(q) : q'[j] = q[j]
        /\ \A j \in 1..fit :
             /\ q'[Len(q) + j] = [idx |-> next_idx + j - 1, frame |-> Pending[j]]
             /\ Pending[j] \in 1..MaxFrame
        /\ fit \in 0..Len(Pending)
    BY <1>3 DEF Moved
  <2>3. CASE i \in 1..Len(q)
    BY <1>2, <2>1, <2>2, <2>3 DEF InPlace
  <2>4. CASE i \notin 1..Len(q)
    <3> DEFINE j == i - Len(q)
    <3>1. j \in 1..fit /\ i = Len(q) + j /\ j \in 1..Len(Pending)
      BY <1>3, <2>1, <2>2, <2>4
    <3> HIDE DEF j
    <3>2. q'[i] = [idx |-> next_idx + j - 1, frame |-> Pending[j]]
          /\ Pending[j] \in 1..MaxFrame
      BY <2>2, <3>1
    <3>3. Pending[j] = next_idx + j
      BY <1>2, <3>1, <3>2 DEF End
    <3>4. q'[i].idx = next_idx + j - 1 /\ q'[i].frame = next_idx + j
      BY <3>2, <3>3
    <3> QED
      BY <1>3, <3>1, <3>4
  <2> QED
    BY <2>3, <2>4
<1>6. hand' = hand /\ kind' = kind
  BY DEF Moved
<1> QED
  BY <1>2, <1>4, <1>5, <1>6 DEF Timed, InPlace

LEMMA TimedStep ==
  ASSUME PipeInv, Timed, [Next]_vars
  PROVE  Timed'
<1>1. PipeInv' /\ PacingTypeOK /\ PacingTypeOK'
  BY PipeStep DEF PipeInv
<1>2. kind' = kind
  <2>1. Step \/ SendFrame \/ Receive \/ Close \/ ProducerCancelled \/ Quiet => kind' = kind
    BY DEF Step, SendFrame, Receive, Close, ProducerCancelled, Quiet, feeder
  <2>2. (\E fit, d \in Nat : Moved(fit, d)) => kind' = kind
    BY DEF Moved
  <2> QED
    BY <2>1, <2>2, Effects
<1>3. CASE kind # "file"
  BY <1>2, <1>3 DEF Timed, FileInv
<1>4. CASE kind = "file"
  <2>1. FileInv /\ InPlace(q) /\ InPlace(hand)
    BY <1>4 DEF Timed
  <2>2. CASE prod # "over" /\ \E fit, d \in Nat : Moved(fit, d)
    BY <1>1, <1>4, <2>2, TimedMoves
  <2>3. CASE Step
    <3>1. PICK k \in Nat, n \in Nat : Taken(k, n)
      BY <1>1, <2>3, StepTakes
    <3>2. /\ k + n \in 0..Len(q)
          /\ Len(hand') = n /\ \A i \in 1..n : hand'[i] = q[i + k]
          /\ Len(q') = Len(q) - (k + n)
          /\ \A i \in 1..Len(q) - (k + n) : q'[i] = q[i + (k + n)]
          /\ hand' \in Seq(Entry) /\ q' \in Seq(Entry)
      BY <3>1 DEF Taken
    <3>3. /\ DOMAIN q' = 1..Len(q') /\ DOMAIN hand' = 1..Len(hand')
          /\ DOMAIN q = 1..Len(q) /\ Len(q) \in Nat
      BY <1>1, <3>2, SeqItems, QueueNow
    <3>4. ASSUME NEW i \in DOMAIN hand'
          PROVE  hand'[i].idx = hand'[i].frame - 1
      <4>1. i \in 1..n /\ i + k \in DOMAIN q
        BY <3>2, <3>3
      <4> QED
        BY <2>1, <3>2, <4>1 DEF InPlace
    <3>5. ASSUME NEW i \in DOMAIN q'
          PROVE  q'[i].idx = q'[i].frame - 1
      <4>1. i \in 1..Len(q) - (k + n) /\ i + (k + n) \in DOMAIN q
        BY <3>2, <3>3
      <4> QED
        BY <2>1, <3>2, <4>1 DEF InPlace
    <3>6. UNCHANGED <<prod, next_idx>> /\ Pending' = Pending
      BY <2>3 DEF Step, feeder, Pending
    <3>7. FileInv'
      BY <1>2, <2>1, <3>6 DEF FileInv
    <3> QED
      BY <3>4, <3>5, <3>7 DEF Timed, InPlace
  <2>4. CASE SendFrame
    <3>1. /\ Len(hand') = Len(hand) - 1 /\ hand' \in Seq(Entry)
          /\ \A i \in 1..Len(hand) - 1 : hand'[i] = hand[i + 1]
      BY <2>4, SendTakes
    <3>2. DOMAIN hand' = 1..Len(hand') /\ DOMAIN hand = 1..Len(hand) /\ Len(hand) \in Nat
      BY <1>1, <3>1, SeqItems, QueueNow
    <3>3. ASSUME NEW i \in DOMAIN hand'
          PROVE  hand'[i].idx = hand'[i].frame - 1
      <4>1. i \in 1..Len(hand) - 1 /\ i + 1 \in DOMAIN hand
        BY <3>1, <3>2
      <4> QED
        BY <2>1, <3>1, <4>1 DEF InPlace
    <3>4. UNCHANGED <<prod, next_idx, q>> /\ Pending' = Pending
      BY <2>4 DEF SendFrame, feeder, Pending
    <3>5. FileInv'
      BY <1>2, <2>1, <3>4 DEF FileInv
    <3> QED
      BY <2>1, <3>3, <3>4, <3>5 DEF Timed, InPlace
  <2>5. CASE Receive \/ Close
    BY <1>4, <2>5 DEF Receive, Close
  <2>6. CASE ProducerCancelled
    <3>1. prod' = "over" /\ UNCHANGED <<q, hand>>
      BY <2>6 DEF ProducerCancelled, engine
    <3> QED
      BY <2>1, <3>1 DEF Timed, FileInv, InPlace
  <2>7. CASE Quiet
    <3>1. Pending' = Pending
      BY <2>7 DEF Quiet, Pending
    <3>2. FileInv'
      BY <2>1, <2>7, <3>1 DEF Quiet, FileInv
    <3>3. DOMAIN <<>> = {}
      OBVIOUS
    <3>4. InPlace(q') /\ InPlace(hand')
      BY <2>1, <2>7, <3>3 DEF Quiet, InPlace
    <3> QED
      BY <3>2, <3>4 DEF Timed, InPlace
  <2> QED
    BY <2>2, <2>3, <2>4, <2>5, <2>6, <2>7, Effects
<1> QED
  BY <1>3, <1>4

LEMMA TimedInit == Init => Timed
<1> SUFFICES ASSUME Init
             PROVE  Timed
  OBVIOUS
<1>1. DOMAIN <<>> = {}
  OBVIOUS
<1>2. InPlace(q) /\ InPlace(hand)
  BY <1>1 DEF Init, InPlace
<1>3. ASSUME kind = "file"
      PROVE  FileInv
  <2>1. PacingTypeOK
    BY PipeInit
  <2>2. Pending = FileItems /\ next_idx = 0
    BY <1>3, <2>1, PendingItems DEF Init, PacingTypeOK
  <2>3. DOMAIN Pending = 1..Len(Pending) /\ MaxFrame \in Nat
    BY <2>1, PendingNow, PacingAssumption
  <2>4. Len(Pending) + next_idx = MaxFrame + 1
    BY <2>2, <2>3, FileItemsType
  <2>5. ASSUME NEW i \in DOMAIN Pending
        PROVE  Pending[i] = IF next_idx + i = MaxFrame + 1 THEN End ELSE next_idx + i
    <3>1. i \in 1..MaxFrame + 1 /\ next_idx + i = i
      BY <2>2, <2>3, FileItemsType
    <3> QED
      BY <2>2, <3>1, FileItemsType
  <2> QED
    BY <2>4, <2>5 DEF FileInv
<1> QED
  BY <1>2, <1>3 DEF Timed, FileInv

\* A file of any length keeps its timeline: whatever the queue's size, and however
\* often the producer found it full, packet k has index k - 1.
THEOREM FileKeepsTime == Spec => []FileTimeline
<1>1. PipeInv /\ Timed /\ [Next]_vars => Timed'
  BY TimedStep
<1>2. Timed => FileTimeline
  BY DEF Timed, InPlace, FileTimeline, Entries
<1> QED
  BY <1>1, <1>2, TimedInit, PipeInvariant, PTL DEF Spec

-----------------------------------------------------------------------------
(* The order of the frames *)

\* Frames that leave the front of what is pending leave the rest in order, and
\* whatever was before them.
LEMMA PendingShift ==
  ASSUME PipeInv, PipeInv', PendingOrder, newest' = newest, NEW d \in Nat,
         d <= Len(Pending), Len(Pending') = Len(Pending) - d,
         \A i \in 1..Len(Pending) - d : Pending'[i] = Pending[i + d]
  PROVE  /\ PendingOrder'
         /\ \A j \in DOMAIN Pending' : j + d \in DOMAIN Pending /\ Pending'[j] = Pending[j + d]
<1>1. /\ DOMAIN Pending' = 1..Len(Pending') /\ DOMAIN Pending = 1..Len(Pending)
      /\ Len(Pending) \in Nat
  <2>1. PacingTypeOK /\ held' \in 0..MaxFrame /\ buffer' \in Seq(0..MaxFrame)
    BY DEF PipeInv, PacingTypeOK
  <2> QED
    BY <2>1, PendingNow, PendingNext
<1>2. ASSUME NEW j \in DOMAIN Pending'
      PROVE  j + d \in DOMAIN Pending /\ Pending'[j] = Pending[j + d] /\ j \in Nat
  <2>1. j \in 1..Len(Pending) - d /\ j + d \in 1..Len(Pending)
    BY <1>1
  <2> QED
    BY <1>1, <2>1
<1>3. \A i, j \in DOMAIN Pending' : i < j => i + d < j + d
  BY <1>1
<1>4. \A i, j \in DOMAIN Pending' : i < j /\ Pending'[j] # End => Pending'[i] < Pending'[j]
  BY <1>2, <1>3 DEF PendingOrder
<1>5. \A i \in DOMAIN Pending' : Pending'[i] <= newest'
  BY <1>2 DEF PendingOrder
<1> QED
  BY <1>2, <1>4, <1>5 DEF PendingOrder

\* The entries that a turn of the producer puts into the queue.
LEMMA MovedEntries ==
  ASSUME PipeInv, NEW fit \in Nat, NEW d \in Nat, Moved(fit, d), NEW i \in DOMAIN q'
  PROVE  \/ i \in DOMAIN q /\ q'[i] = q[i]
         \/ \E j \in 1..fit : /\ i = Len(q) + j /\ j \in DOMAIN Pending /\ Pending[j] # End
                              /\ q'[i].idx = next_idx + j - 1 /\ q'[i].frame = Pending[j]
<1>1. q' \in Seq(Entry)
  BY DEF Moved
<1>2. /\ DOMAIN q' = 1..Len(q') /\ DOMAIN q = 1..Len(q) /\ Len(q) \in Nat
      /\ DOMAIN Pending = 1..Len(Pending) /\ Len(Pending) \in Nat
  BY <1>1, SeqItems, QueueNow, PendingNow DEF PipeInv
<1>3. /\ Len(q') = Len(q) + fit
      /\ \A j \in 1..Len(q) : q'[j] = q[j]
      /\ \A j \in 1..fit :
           /\ q'[Len(q) + j] = [idx |-> next_idx + j - 1, frame |-> Pending[j]]
           /\ Pending[j] \in 1..MaxFrame
      /\ fit \in 0..d /\ d \in 0..Len(Pending)
  BY DEF Moved
<1>4. CASE i \in 1..Len(q)
  BY <1>2, <1>3, <1>4
<1>5. CASE i \notin 1..Len(q)
  <2> DEFINE j == i - Len(q)
  <2>1. j \in 1..fit /\ i = Len(q) + j /\ j \in 1..Len(Pending)
    BY <1>2, <1>3, <1>5
  <2> HIDE DEF j
  <2>2. q'[i] = [idx |-> next_idx + j - 1, frame |-> Pending[j]] /\ Pending[j] \in 1..MaxFrame
    BY <1>3, <2>1
  <2>3. q'[i].idx = next_idx + j - 1 /\ q'[i].frame = Pending[j] /\ Pending[j] # End
    BY <2>2 DEF End
  <2> QED
    BY <1>2, <2>1, <2>3
<1> QED
  BY <1>4, <1>5

LEMMA MovedOrder ==
  ASSUME PipeInv, PipeInv', OrderInv, NEW fit \in Nat, NEW d \in Nat, Moved(fit, d)
  PROVE  OrderInv'
<1>1. PacingTypeOK /\ PacingTypeOK'
  BY DEF PipeInv
<1>2. PendingOrder /\ QueueOrder /\ HandOrder
  BY DEF OrderInv
<1>3. /\ fit \in 0..d /\ d \in 0..Len(Pending) /\ next_idx' = next_idx + fit
      /\ UNCHANGED <<newest, hand, now, start_ms>>
      /\ Len(Pending') = Len(Pending) - d
      /\ \A i \in 1..Len(Pending) - d : Pending'[i] = Pending[i + d]
  BY DEF Moved, clock
<1>4. /\ next_idx \in Nat /\ newest \in Nat /\ Len(q) \in Nat
      /\ DOMAIN q = 1..Len(q) /\ Len(Pending) \in Nat /\ DOMAIN Pending = 1..Len(Pending)
      /\ \A j \in DOMAIN Pending : Pending[j] \in Nat
      /\ \A i \in DOMAIN q : q[i].frame \in Nat /\ q[i].idx \in Nat
      /\ \A i \in DOMAIN hand : hand[i].frame \in Nat
  <2>1. next_idx \in Nat /\ newest \in Nat
    BY <1>1, PacingAssumption DEF PacingTypeOK
  <2>2. /\ Len(Pending) \in Nat /\ DOMAIN Pending = 1..Len(Pending)
        /\ \A j \in DOMAIN Pending : Pending[j] \in Nat
    BY <1>1, PendingNow, PacingAssumption
  <2>3. /\ Len(q) \in Nat /\ DOMAIN q = 1..Len(q)
        /\ \A i \in DOMAIN q : q[i].frame \in 1..MaxFrame /\ q[i].idx \in Nat
        /\ \A i \in DOMAIN hand : hand[i].frame \in 1..MaxFrame
    BY <1>1, QueueNow
  <2> QED
    BY <2>1, <2>2, <2>3, PacingAssumption
<1>5. d <= Len(Pending)
  BY <1>3, <1>4
<1>6. /\ PendingOrder'
      /\ \A j \in DOMAIN Pending' : j + d \in DOMAIN Pending /\ Pending'[j] = Pending[j + d]
  BY <1>2, <1>3, <1>5, PendingShift
<1>7. \A i \in DOMAIN q' :
        \/ i \in DOMAIN q /\ q'[i] = q[i]
        \/ \E j \in 1..fit : /\ i = Len(q) + j /\ j \in DOMAIN Pending /\ Pending[j] # End
                             /\ q'[i].idx = next_idx + j - 1 /\ q'[i].frame = Pending[j]
  BY MovedEntries
<1>8. Rising(q')
  <2> SUFFICES ASSUME NEW i \in DOMAIN q', NEW k \in DOMAIN q', i < k
               PROVE  q'[i].frame < q'[k].frame /\ q'[i].idx < q'[k].idx
    BY DEF Rising
  <2>1. CASE k \in DOMAIN q /\ q'[k] = q[k]
    <3>1. i \in DOMAIN q /\ q'[i] = q[i]
      BY <1>4, <1>7, <2>1
    <3> QED
      BY <1>2, <2>1, <3>1 DEF QueueOrder, Rising
  <2>2. ASSUME NEW b \in 1..fit, k = Len(q) + b, b \in DOMAIN Pending, Pending[b] # End,
               q'[k].idx = next_idx + b - 1, q'[k].frame = Pending[b]
        PROVE  q'[i].frame < q'[k].frame /\ q'[i].idx < q'[k].idx
    <3>1. CASE i \in DOMAIN q /\ q'[i] = q[i]
      <4>1. q[i].frame < Pending[b] /\ q[i].idx < next_idx
        BY <1>2, <2>2, <3>1 DEF QueueOrder
      <4> QED
        BY <1>4, <2>2, <3>1, <4>1
    <3>2. ASSUME NEW a \in 1..fit, i = Len(q) + a, a \in DOMAIN Pending, Pending[a] # End,
                 q'[i].idx = next_idx + a - 1, q'[i].frame = Pending[a]
          PROVE  q'[i].frame < q'[k].frame /\ q'[i].idx < q'[k].idx
      <4>1. a < b
        BY <1>4, <2>2, <3>2
      <4>2. Pending[a] < Pending[b]
        BY <1>2, <2>2, <3>2, <4>1 DEF PendingOrder
      <4> QED
        BY <1>4, <2>2, <3>2, <4>1, <4>2
    <3> QED
      BY <1>7, <3>1, <3>2
  <2> QED
    BY <1>7, <2>1, <2>2
<1>9. ASSUME NEW i \in DOMAIN q'
      PROVE  /\ q'[i].frame <= newest' /\ q'[i].idx < next_idx'
             /\ \A j \in DOMAIN Pending' : Pending'[j] # End => q'[i].frame < Pending'[j]
             /\ \A h \in DOMAIN hand' : hand'[h].frame < q'[i].frame
  <2>1. CASE i \in DOMAIN q /\ q'[i] = q[i]
    <3>1. /\ q[i].frame <= newest /\ q[i].idx < next_idx
          /\ \A j \in DOMAIN Pending : Pending[j] # End => q[i].frame < Pending[j]
          /\ \A h \in DOMAIN hand : hand[h].frame < q[i].frame
      BY <1>2, <2>1 DEF QueueOrder, HandOrder
    <3>2. q[i].idx < next_idx'
      BY <1>3, <1>4, <2>1, <3>1
    <3> QED
      BY <1>3, <1>6, <2>1, <3>1, <3>2
  <2>2. ASSUME NEW b \in 1..fit, b \in DOMAIN Pending, Pending[b] # End,
               q'[i].idx = next_idx + b - 1, q'[i].frame = Pending[b]
        PROVE  /\ q'[i].frame <= newest' /\ q'[i].idx < next_idx'
               /\ \A j \in DOMAIN Pending' : Pending'[j] # End => q'[i].frame < Pending'[j]
               /\ \A h \in DOMAIN hand' : hand'[h].frame < q'[i].frame
    <3>1. q'[i].idx < next_idx'
      BY <1>3, <1>4, <2>2
    <3>2. q'[i].frame <= newest'
      BY <1>2, <1>3, <2>2 DEF PendingOrder
    <3>3. ASSUME NEW j \in DOMAIN Pending', Pending'[j] # End
          PROVE  q'[i].frame < Pending'[j]
      <4>1. j + d \in DOMAIN Pending /\ Pending'[j] = Pending[j + d]
        BY <1>6
      <4>2. b < j + d
        <5>1. j \in 1..Len(Pending')
          <6>1. Pending' \in Seq(0..MaxFrame)
            BY <1>1, AheadItems DEF Pending, PacingTypeOK
          <6> QED
            BY <6>1, SeqItems
        <5>2. Len(Pending') \in Int
          BY <1>3, <1>4
        <5> QED
          BY <1>3, <5>1, <5>2
      <4> QED
        BY <1>2, <2>2, <3>3, <4>1, <4>2 DEF PendingOrder
    <3>4. \A h \in DOMAIN hand' : hand'[h].frame < q'[i].frame
      BY <1>2, <1>3, <2>2 DEF HandOrder
    <3> QED
      BY <3>1, <3>2, <3>3, <3>4
  <2> QED
    BY <1>7, <2>1, <2>2
<1>10. QueueOrder'
  BY <1>8, <1>9 DEF QueueOrder, Rising
<1>11. HandOrder'
  <2>1. \A i \in DOMAIN hand', j \in DOMAIN Pending' :
          Pending'[j] # End => hand'[i].frame < Pending'[j]
    BY <1>2, <1>3, <1>6 DEF HandOrder
  <2>2. \A i : Expected(i)' = Expected(i)
    BY <1>3 DEF Expected
  <2> QED
    BY <1>2, <1>3, <1>9, <2>1, <2>2 DEF HandOrder, Rising, Expected
<1> QED
  BY <1>6, <1>10, <1>11 DEF OrderInv

LEMMA StepOrder ==
  ASSUME PipeInv, PipeInv', OrderInv, Step
  PROVE  OrderInv'
<1>1. PacingTypeOK /\ PacingTypeOK'
  BY DEF PipeInv
<1>2. PendingOrder /\ QueueOrder /\ HandOrder
  BY DEF OrderInv
<1>3. PICK k \in Nat, n \in Nat : Taken(k, n)
  BY <1>1, StepTakes
<1>4. /\ k + n \in 0..Len(q)
      /\ Len(hand') = n /\ \A i \in 1..n : hand'[i] = q[i + k]
      /\ Len(q') = Len(q) - (k + n)
      /\ \A i \in 1..Len(q) - (k + n) : q'[i] = q[i + (k + n)]
      /\ hand' \in Seq(Entry) /\ q' \in Seq(Entry)
      /\ Rising(q) => \A i \in 1..n : Expected(hand'[i].idx) <= now
  BY <1>3 DEF Taken
<1>5. UNCHANGED <<newest, next_idx, now, start_ms>> /\ Pending' = Pending
  BY DEF Step, feeder, clock, Pending
<1>6. /\ DOMAIN q' = 1..Len(q') /\ DOMAIN hand' = 1..Len(hand')
      /\ DOMAIN q = 1..Len(q) /\ Len(q) \in Nat
  BY <1>1, <1>4, SeqItems, QueueNow
<1>7. ASSUME NEW i \in DOMAIN hand'
      PROVE  i \in 1..n /\ i + k \in DOMAIN q /\ i + k <= k + n /\ hand'[i] = q[i + k]
  <2>1. i \in 1..n /\ i + k \in DOMAIN q /\ i + k <= k + n
    BY <1>4, <1>6
  <2> QED
    BY <1>4, <2>1
<1>8. ASSUME NEW i \in DOMAIN q'
      PROVE  i + (k + n) \in DOMAIN q /\ k + n < i + (k + n) /\ q'[i] = q[i + (k + n)]
  <2>1. i \in 1..Len(q) - (k + n) /\ i + (k + n) \in DOMAIN q /\ k + n < i + (k + n)
    BY <1>4, <1>6
  <2> QED
    BY <1>4, <2>1
<1>9. Rising(q')
  <2> SUFFICES ASSUME NEW i \in DOMAIN q', NEW j \in DOMAIN q', i < j
               PROVE  q'[i].frame < q'[j].frame /\ q'[i].idx < q'[j].idx
    BY DEF Rising
  <2>1. i + (k + n) < j + (k + n)
    BY <1>6
  <2> QED
    BY <1>2, <1>8, <2>1 DEF QueueOrder, Rising
<1>10. Rising(hand')
  <2> SUFFICES ASSUME NEW i \in DOMAIN hand', NEW j \in DOMAIN hand', i < j
               PROVE  hand'[i].frame < hand'[j].frame /\ hand'[i].idx < hand'[j].idx
    BY DEF Rising
  <2>1. i + k < j + k
    BY <1>6
  <2> QED
    BY <1>2, <1>7, <2>1 DEF QueueOrder, Rising
<1>11. ASSUME NEW i \in DOMAIN hand', NEW j \in DOMAIN q'
       PROVE  hand'[i].frame < q'[j].frame
  <2>1. i + k < j + (k + n)
    BY <1>6, <1>7, <1>8
  <2> QED
    BY <1>2, <1>7, <1>8, <2>1 DEF QueueOrder, Rising
<1>12. QueueOrder'
  BY <1>2, <1>5, <1>8, <1>9 DEF QueueOrder, Rising
<1>13. \A i \in DOMAIN hand' : Expected(hand'[i].idx) <= now
  BY <1>2, <1>4, <1>7 DEF QueueOrder
<1>14. \A i : Expected(i)' = Expected(i)
  BY <1>5 DEF Expected
<1>15. HandOrder'
  BY <1>2, <1>5, <1>7, <1>10, <1>11, <1>13, <1>14 DEF QueueOrder, HandOrder, Rising, Expected
<1>16. PendingOrder'
  BY <1>2, <1>5 DEF PendingOrder
<1> QED
  BY <1>12, <1>15, <1>16 DEF OrderInv

LEMMA SendOrder ==
  ASSUME PipeInv, PipeInv', OrderInv, SendFrame
  PROVE  OrderInv'
<1>1. PacingTypeOK
  BY DEF PipeInv
<1>2. PendingOrder /\ QueueOrder /\ HandOrder
  BY DEF OrderInv
<1>3. UNCHANGED <<newest, next_idx, now, start_ms, q>> /\ Pending' = Pending
  BY DEF SendFrame, feeder, clock, Pending
<1>4. /\ Len(hand') = Len(hand) - 1 /\ hand' \in Seq(Entry) /\ Len(hand) \in Nat
      /\ \A i \in 1..Len(hand) - 1 : hand'[i] = hand[i + 1]
  BY SendTakes
<1>5. DOMAIN hand' = 1..Len(hand') /\ DOMAIN hand = 1..Len(hand)
  BY <1>1, <1>4, SeqItems, QueueNow
<1>6. ASSUME NEW i \in DOMAIN hand'
      PROVE  i + 1 \in DOMAIN hand /\ hand'[i] = hand[i + 1]
  <2>1. i \in 1..Len(hand) - 1 /\ i + 1 \in DOMAIN hand
    BY <1>4, <1>5
  <2> QED
    BY <1>4, <2>1
<1>7. Rising(hand')
  <2> SUFFICES ASSUME NEW i \in DOMAIN hand', NEW j \in DOMAIN hand', i < j
               PROVE  hand'[i].frame < hand'[j].frame /\ hand'[i].idx < hand'[j].idx
    BY DEF Rising
  <2>1. i + 1 < j + 1
    BY <1>5
  <2> QED
    BY <1>2, <1>6, <2>1 DEF HandOrder, Rising
<1>8. \A i : Expected(i)' = Expected(i)
  BY <1>3 DEF Expected
<1>9. HandOrder'
  BY <1>2, <1>3, <1>6, <1>7, <1>8 DEF HandOrder, Rising, Expected
<1>10. PendingOrder' /\ QueueOrder'
  BY <1>2, <1>3 DEF PendingOrder, QueueOrder, Rising
<1> QED
  BY <1>9, <1>10 DEF OrderInv

LEMMA ReceiveOrder ==
  ASSUME PipeInv, PipeInv', OrderInv, Receive
  PROVE  OrderInv'
<1>1. PacingTypeOK
  BY DEF PipeInv
<1>2. PendingOrder /\ QueueOrder /\ HandOrder
  BY DEF OrderInv
<1>3. UNCHANGED <<next_idx, now, start_ms, q, hand, held, kind, closed>>
      /\ kind = "studio" /\ ~closed
  BY DEF Receive, engine, clock
<1>4. PICK k \in newest + 1..MaxFrame, t \in {0, 1} : newest' = k /\ Pushed(k, t)
  BY <1>1, ReceivePushes
<1>5. newest \in Nat /\ k \in Nat /\ newest < k /\ k # End
  BY <1>1, PacingAssumption DEF PacingTypeOK, End
<1>6. /\ Len(Pending') = Len(Pending) - t + 1
      /\ Pending'[Len(Pending')] = k
      /\ \A i \in 1..Len(Pending) - t :
           Was(i, t) \in 1..Len(Pending) /\ Pending'[i] = Pending[Was(i, t)]
  BY <1>4 DEF Pushed
<1>7. /\ DOMAIN Pending' = 1..Len(Pending') /\ DOMAIN Pending = 1..Len(Pending)
      /\ Len(Pending) \in Nat
  <2>1. held' \in 0..MaxFrame /\ buffer' \in Seq(0..MaxFrame)
    BY DEF PipeInv, PacingTypeOK
  <2> QED
    BY <1>1, <2>1, PendingNow, PendingNext
<1>8. ASSUME NEW i \in DOMAIN Pending'
      PROVE  \/ i = Len(Pending') /\ Pending'[i] = k
             \/ /\ i \in 1..Len(Pending) - t /\ Was(i, t) \in DOMAIN Pending
                /\ Pending'[i] = Pending[Was(i, t)] /\ Pending[Was(i, t)] \in 1..newest
  <2>1. CASE i = Len(Pending')
    BY <1>6, <2>1
  <2>2. CASE i # Len(Pending')
    <3>1. i \in 1..Len(Pending) - t
      BY <1>6, <1>7, <2>2
    <3>2. Was(i, t) \in DOMAIN Pending /\ Pending'[i] = Pending[Was(i, t)]
      BY <1>6, <1>7, <3>1
    <3>3. Pending[Was(i, t)] <= newest
      BY <1>2, <3>2 DEF PendingOrder
    <3>4. Pending[Was(i, t)] \in 1..MaxFrame
      BY <1>3, <1>7, <3>2, OpenStudio
    <3>5. Pending[Was(i, t)] \in 1..newest
      BY <1>5, <3>3, <3>4
    <3> QED
      BY <3>1, <3>2, <3>5
  <2> QED
    BY <2>1, <2>2
<1>9. ASSUME NEW i \in DOMAIN Pending', NEW j \in DOMAIN Pending', i < j
      PROVE  Pending'[i] < Pending'[j]
  <2>1. /\ i \in 1..Len(Pending) - t /\ Was(i, t) \in DOMAIN Pending
        /\ Pending'[i] = Pending[Was(i, t)] /\ Pending[Was(i, t)] \in 1..newest
    BY <1>7, <1>8, <1>9
  <2>2. CASE j = Len(Pending') /\ Pending'[j] = k
    BY <1>5, <2>1, <2>2
  <2>3. CASE /\ j \in 1..Len(Pending) - t /\ Was(j, t) \in DOMAIN Pending
             /\ Pending'[j] = Pending[Was(j, t)] /\ Pending[Was(j, t)] \in 1..newest
    <3>1. Was(i, t) < Was(j, t)
      BY <1>9, <2>1, <2>3 DEF Was
    <3>2. Pending[Was(j, t)] # End
      BY <1>5, <2>3 DEF End
    <3> QED
      BY <1>2, <2>1, <2>3, <3>1, <3>2 DEF PendingOrder
  <2> QED
    BY <1>8, <2>2, <2>3
<1>10. \A i \in DOMAIN Pending' : Pending'[i] <= newest'
  BY <1>4, <1>5, <1>8
<1>11. PendingOrder'
  BY <1>9, <1>10 DEF PendingOrder
<1>12. ASSUME NEW i \in DOMAIN q
       PROVE  /\ q[i].frame <= newest'
              /\ \A j \in DOMAIN Pending' : Pending'[j] # End => q[i].frame < Pending'[j]
  <2>1. q[i].frame <= newest /\ q[i].frame \in Nat
    BY <1>1, <1>2, QueueNow, PacingAssumption DEF QueueOrder
  <2>2. q[i].frame < k
    BY <1>5, <2>1
  <2>3. ASSUME NEW j \in DOMAIN Pending', Pending'[j] # End
        PROVE  q[i].frame < Pending'[j]
    <3>1. CASE Pending'[j] = k
      BY <2>2, <3>1
    <3>2. CASE Was(j, t) \in DOMAIN Pending /\ Pending'[j] = Pending[Was(j, t)]
      BY <1>2, <2>3, <3>2 DEF QueueOrder
    <3> QED
      BY <1>8, <3>1, <3>2
  <2> QED
    BY <1>4, <1>5, <2>1, <2>2, <2>3
<1>13. ASSUME NEW i \in DOMAIN hand
       PROVE  /\ hand[i].frame <= newest'
              /\ \A j \in DOMAIN Pending' : Pending'[j] # End => hand[i].frame < Pending'[j]
  <2>1. hand[i].frame <= newest /\ hand[i].frame \in Nat
    BY <1>1, <1>2, QueueNow, PacingAssumption DEF HandOrder
  <2>2. hand[i].frame < k
    BY <1>5, <2>1
  <2>3. ASSUME NEW j \in DOMAIN Pending', Pending'[j] # End
        PROVE  hand[i].frame < Pending'[j]
    <3>1. CASE Pending'[j] = k
      BY <2>2, <3>1
    <3>2. CASE Was(j, t) \in DOMAIN Pending /\ Pending'[j] = Pending[Was(j, t)]
      BY <1>2, <2>3, <3>2 DEF HandOrder
    <3> QED
      BY <1>8, <3>1, <3>2
  <2> QED
    BY <1>4, <1>5, <2>1, <2>2, <2>3
<1>14. QueueOrder'
  BY <1>2, <1>3, <1>12 DEF QueueOrder, Rising
<1>15. HandOrder'
  BY <1>2, <1>3, <1>13 DEF HandOrder, Rising, Expected
<1> QED
  BY <1>11, <1>14, <1>15 DEF OrderInv

\* What the close signal leaves pending: the frames, and perhaps an End after them.
LEMMA ClosePending ==
  ASSUME PipeInv, PipeInv', Close, NEW i \in DOMAIN Pending'
  PROVE  \/ i \in DOMAIN Pending /\ Pending'[i] = Pending[i]
         \/ Pending'[i] = End /\ i = Len(Pending) + 1
<1>1. PacingTypeOK
  BY DEF PipeInv
<1>2. CASE UNCHANGED <<held, buffer>>
  BY <1>2 DEF Pending
<1>3. CASE Pushed(End, 0)
  <2>1. /\ Len(Pending') = Len(Pending) + 1
        /\ Pending'[Len(Pending')] = End
        /\ \A j \in 1..Len(Pending) - 0 : Pending'[j] = Pending[Was(j, 0)]
        /\ Len(Pending) \in Nat
    BY <1>1, <1>3, PendingNow DEF Pushed
  <2>2. DOMAIN Pending' = 1..Len(Pending') /\ DOMAIN Pending = 1..Len(Pending)
    <3>1. held' \in 0..MaxFrame /\ buffer' \in Seq(0..MaxFrame)
      BY DEF PipeInv, PacingTypeOK
    <3> QED
      BY <1>1, <3>1, PendingNow, PendingNext
  <2>3. CASE i = Len(Pending) + 1
    BY <2>1, <2>3
  <2>4. CASE i # Len(Pending) + 1
    <3>1. i \in 1..Len(Pending) - 0 /\ Was(i, 0) = i
      BY <2>1, <2>2, <2>4 DEF Was
    <3> QED
      BY <2>1, <2>2, <3>1
  <2> QED
    BY <2>3, <2>4
<1> QED
  BY <1>1, <1>2, <1>3, ClosePushes

LEMMA CloseOrder ==
  ASSUME PipeInv, PipeInv', OrderInv, Close
  PROVE  OrderInv'
<1>1. PendingOrder /\ QueueOrder /\ HandOrder
  BY DEF OrderInv
<1>2. UNCHANGED <<newest, next_idx, now, start_ms, q, hand>>
  BY DEF Close, engine, clock
<1>3. /\ newest \in Nat /\ Len(Pending) \in Nat /\ DOMAIN Pending = 1..Len(Pending)
  BY PendingNow, PacingAssumption DEF PipeInv, PacingTypeOK
<1>4. ASSUME NEW i \in DOMAIN Pending', NEW j \in DOMAIN Pending', i < j, Pending'[j] # End
      PROVE  Pending'[i] < Pending'[j]
  <2>1. j \in DOMAIN Pending /\ Pending'[j] = Pending[j]
    BY <1>4, ClosePending
  <2>2. i \in DOMAIN Pending /\ Pending'[i] = Pending[i]
    BY <1>3, <1>4, <2>1, ClosePending
  <2> QED
    BY <1>1, <1>4, <2>1, <2>2 DEF PendingOrder
<1>5. ASSUME NEW i \in DOMAIN Pending'
      PROVE  Pending'[i] <= newest'
  <2>1. CASE i \in DOMAIN Pending /\ Pending'[i] = Pending[i]
    BY <1>1, <1>2, <2>1 DEF PendingOrder
  <2>2. CASE Pending'[i] = End
    BY <1>2, <1>3, <2>2 DEF End
  <2> QED
    BY <2>1, <2>2, ClosePending
<1>6. PendingOrder'
  BY <1>4, <1>5 DEF PendingOrder
<1>7. \A j \in DOMAIN Pending' :
        Pending'[j] # End => j \in DOMAIN Pending /\ Pending'[j] = Pending[j]
  BY ClosePending
<1>8. QueueOrder'
  BY <1>1, <1>2, <1>7 DEF QueueOrder, Rising
<1>9. HandOrder'
  BY <1>1, <1>2, <1>7 DEF HandOrder, Rising, Expected
<1> QED
  BY <1>6, <1>8, <1>9 DEF OrderInv

LEMMA CancelOrder ==
  ASSUME PipeInv, PipeInv', OrderInv, ProducerCancelled
  PROVE  OrderInv'
<1>1. PacingTypeOK
  BY DEF PipeInv
<1>2. PendingOrder /\ QueueOrder /\ HandOrder
  BY DEF OrderInv
<1>3. UNCHANGED <<newest, next_idx, now, start_ms, q, hand, buffer>> /\ held' = 0
  BY DEF ProducerCancelled, engine, clock
<1>4. PICK c \in {0, 1} : /\ c = 1 <=> held # 0
                          /\ Len(Pending') = Len(Pending) - c
                          /\ \A i \in 1..Len(Pending) - c : Pending'[i] = Pending[i + c]
  BY <1>1, <1>3, CancelledPending
<1>5. c \in Nat /\ c <= Len(Pending)
  <2>1. Len(Pending) \in Nat /\ Len(buffer) \in Nat
    BY <1>1, PendingNow, SeqItems DEF PacingTypeOK
  <2>2. held # 0 => Len(Pending) = Len(buffer) + 1
    BY <1>1, PendingItems DEF PacingTypeOK
  <2> QED
    BY <1>4, <2>1, <2>2
<1>6. /\ PendingOrder'
      /\ \A j \in DOMAIN Pending' : j + c \in DOMAIN Pending /\ Pending'[j] = Pending[j + c]
  BY <1>2, <1>3, <1>4, <1>5, PendingShift
<1>7. QueueOrder'
  BY <1>2, <1>3, <1>6 DEF QueueOrder, Rising
<1>8. HandOrder'
  BY <1>2, <1>3, <1>6 DEF HandOrder, Rising, Expected
<1> QED
  BY <1>6, <1>7, <1>8 DEF OrderInv

LEMMA QuietOrder ==
  ASSUME PipeInv, PipeInv', OrderInv, Quiet
  PROVE  OrderInv'
<1>1. PendingOrder /\ QueueOrder /\ HandOrder
  BY DEF OrderInv
<1>2. UNCHANGED <<newest, next_idx>> /\ Pending' = Pending /\ now <= now'
      /\ q' \in {q, <<>>} /\ hand' \in {hand, <<>>}
      /\ (start_ms' = start_ms \/ hand = <<>>)
  BY DEF Quiet, Pending
<1>3. DOMAIN <<>> = {}
  OBVIOUS
<1>4. /\ DOMAIN q' = {} \/ q' = q
      /\ DOMAIN hand' = {} \/ (hand' = hand /\ start_ms' = start_ms)
  BY <1>2, <1>3
<1>5. PendingOrder' /\ QueueOrder'
  BY <1>1, <1>2, <1>4 DEF PendingOrder, QueueOrder, Rising
<1>6. ASSUME NEW i \in DOMAIN hand'
      PROVE  (start_ms' + hand'[i].idx * FrameMs) <= now'
  <2>1. hand' = hand /\ start_ms' = start_ms /\ i \in DOMAIN hand
    BY <1>4, <1>6
  <2>2. start_ms + hand[i].idx * FrameMs <= now
    BY <1>1, <2>1 DEF HandOrder, Expected
  <2>3. hand[i].idx \in Nat /\ now \in Nat /\ now' \in Nat
    BY <2>1, QueueNow, PacingAssumption DEF PipeInv, PacingTypeOK
  <2>4. Expected(hand[i].idx) \in Nat
    BY <2>3, ExpectedType DEF PipeInv
  <2>5. Expected(hand[i].idx) = start_ms + hand[i].idx * FrameMs
    BY DEF Expected
  <2> DEFINE e == start_ms + hand[i].idx * FrameMs
  <2>6. e \in Nat /\ e <= now /\ start_ms' + hand'[i].idx * FrameMs = e
    BY <2>1, <2>2, <2>4, <2>5
  <2> HIDE DEF e
  <2> QED
    BY <1>2, <2>3, <2>6
<1>7. HandOrder'
  BY <1>1, <1>2, <1>4, <1>6 DEF HandOrder, Rising, Expected
<1> QED
  BY <1>5, <1>7 DEF OrderInv

LEMMA OrderStep ==
  ASSUME PipeInv, OrderInv, [Next]_vars
  PROVE  OrderInv'
<1>1. PipeInv'
  BY PipeStep
<1>2. CASE \E fit, d \in Nat : Moved(fit, d)
  BY <1>1, <1>2, MovedOrder
<1>3. CASE Step
  BY <1>1, <1>3, StepOrder
<1>4. CASE SendFrame
  BY <1>1, <1>4, SendOrder
<1>5. CASE Receive
  BY <1>1, <1>5, ReceiveOrder
<1>6. CASE Close
  BY <1>1, <1>6, CloseOrder
<1>7. CASE ProducerCancelled
  BY <1>1, <1>7, CancelOrder
<1>8. CASE Quiet
  BY <1>1, <1>8, QuietOrder
<1> QED
  BY <1>2, <1>3, <1>4, <1>5, <1>6, <1>7, <1>8, Effects

LEMMA OrderInit == Init => OrderInv
<1> SUFFICES ASSUME Init
             PROVE  OrderInv
  OBVIOUS
<1>1. DOMAIN <<>> = {}
  OBVIOUS
<1>2. QueueOrder /\ HandOrder
  BY <1>1 DEF Init, QueueOrder, HandOrder, Rising
<1>3. PacingTypeOK
  BY PipeInit
<1>4. Pending = buffer
  BY <1>3, PendingItems DEF Init, PacingTypeOK
<1>5. CASE kind = "file"
  <2>1. Pending = FileItems /\ newest = MaxFrame /\ MaxFrame \in Nat
    BY <1>4, <1>5, PacingAssumption DEF Init
  <2>2. DOMAIN Pending = 1..MaxFrame + 1
    BY <1>3, <2>1, PendingNow, FileItemsType
  <2>3. \A i \in DOMAIN Pending : Pending[i] = IF i = MaxFrame + 1 THEN End ELSE i
    BY <2>1, <2>2, FileItemsType
  <2>4. \A i \in DOMAIN Pending : Pending[i] <= newest
    BY <2>1, <2>2, <2>3 DEF End
  <2>5. \A i, j \in DOMAIN Pending : i < j /\ Pending[j] # End => Pending[i] < Pending[j]
    BY <2>1, <2>2, <2>3
  <2> QED
    BY <1>2, <2>4, <2>5 DEF OrderInv, PendingOrder
<1>6. CASE kind # "file"
  <2>1. Pending = <<>>
    BY <1>4, <1>6 DEF Init
  <2> QED
    BY <1>1, <1>2, <2>1 DEF OrderInv, PendingOrder
<1> QED
  BY <1>5, <1>6

\* Frames and indices rise all along the way, and what is being sent was due.
THEOREM OrderInvariant == Spec => []OrderInv
BY OrderInit, OrderStep, PipeInvariant, PTL DEF Spec

\* No frame is sent before its time, whatever woke the loop and however long the
\* producer, a stop or a slow fanout came in between: what a turn takes was due
\* when it was taken, and time and start_ms do not go back while it is sent.
THEOREM FramesNeverEarly == Spec => NeverEarly
<1>1. PipeInv /\ OrderInv /\ [Next]_vars => [heard' # heard => now >= Expected(Head(hand).idx)]_vars
  <2> SUFFICES ASSUME PipeInv, OrderInv, [Next]_vars, heard' # heard
               PROVE  now >= Expected(Head(hand).idx)
    OBVIOUS
  <2>1. SendFrame
    <3>1. Step \/ Receive \/ Close \/ ProducerCancelled \/ Quiet => heard' = heard
      BY DEF Step, Receive, Close, ProducerCancelled, Quiet, engine
    <3>2. (\E fit, d \in Nat : Moved(fit, d)) => heard' = heard
      BY DEF Moved
    <3> QED
      BY <3>1, <3>2, Effects
  <2>2. Head(hand) = hand[1] /\ 1 \in DOMAIN hand /\ hand[1].idx \in Nat
    <3>1. Head(hand) = hand[1] /\ Len(hand) \in Nat /\ Len(hand) >= 1
      BY <2>1, SendTakes
    <3>2. 1 \in DOMAIN hand
      BY <3>1, QueueNow DEF PipeInv
    <3> QED
      BY <3>1, <3>2, QueueNow DEF PipeInv
  <2>3. Expected(hand[1].idx) <= now
    BY <2>2 DEF OrderInv, HandOrder
  <2>4. Expected(hand[1].idx) \in Nat /\ now \in Nat
    <3>1. PacingTypeOK
      BY DEF PipeInv
    <3>2. Expected(hand[1].idx) \in Nat
      BY <2>2, <3>1, ExpectedType
    <3> QED
      BY <3>1, <3>2, PacingAssumption DEF PacingTypeOK
  <2> QED
    BY <2>2, <2>3, <2>4
<1> QED
  BY <1>1, PipeInvariant, OrderInvariant, PTL DEF Spec, NeverEarly

-----------------------------------------------------------------------------
(* The age of what is sent *)

\* No entry of s is more than limit late.
Fresh(s, limit) == \A i \in DOMAIN s : now - Expected(s[i].idx) <= limit

\* What a turn took was fresh; it stays so as long as no time passes, and time that
\* passes during a burst is a delay of the server.
HandFresh ==
  run = "sending" /\ ~lagged => Fresh(hand, PreserveMs) /\ Fresh(hand, DiscardMs)

\* A suffix of a rising sequence rises, and is as fresh.
LEMMA SuffixKeeps ==
  ASSUME NEW s \in Seq(Entry), NEW t, NEW k, Suffix(t, s, k)
  PROVE  /\ Rising(s) => Rising(t)
         /\ \A limit : Fresh(s, limit) => Fresh(t, limit)
<1>1. /\ k \in 0..Len(s) /\ t \in Seq(Entry) /\ Len(t) = Len(s) - k
      /\ \A i \in 1..Len(s) - k : t[i] = s[i + k]
  BY DEF Suffix
<1>2. Len(s) \in Nat /\ DOMAIN s = 1..Len(s) /\ DOMAIN t = 1..Len(t)
  BY <1>1, SeqItems
<1>3. ASSUME NEW i \in DOMAIN t
      PROVE  i + k \in DOMAIN s /\ t[i] = s[i + k]
  <2>1. i \in 1..Len(s) - k /\ i + k \in 1..Len(s)
    BY <1>1, <1>2
  <2> QED
    BY <1>1, <1>2, <2>1
<1>4. \A i, j \in DOMAIN t : i < j => i + k < j + k
  BY <1>1, <1>2
<1>5. Rising(s) => Rising(t)
  BY <1>3, <1>4 DEF Rising
<1>6. \A limit : Fresh(s, limit) => Fresh(t, limit)
  BY <1>3 DEF Fresh
<1> QED
  BY <1>5, <1>6

\* popleft() while the head is late leaves nothing that is late, since what follows
\* the head is due after it.
LEMMA DropLateFresh ==
  ASSUME PacingTypeOK, NEW s \in Seq(Entry), Rising(s), NEW limit \in Nat
  PROVE  /\ \E k \in Nat : Suffix(DropLate(s, limit), s, k)
         /\ Fresh(DropLate(s, limit), limit)
<1> DEFINE late == {i \in DOMAIN s : \A j \in 1..i : now - Expected(s[j].idx) > limit}
           c == Cardinality(late)
           t == DropLate(s, limit)
<1>1. Len(s) \in Nat /\ DOMAIN s = 1..Len(s) /\ \A i \in 1..Len(s) : s[i] \in Entry
  BY SeqItems
<1>2. late \in SUBSET (1..Len(s))
  BY <1>1
<1>3. \A i \in late, j \in 1..Len(s) : j < i => j \in late
  BY <1>1
<1>4. t = SubSeq(s, c + 1, Len(s))
  BY DEF DropLate
<1>5. \A i \in DOMAIN s : i \in late <=> \A j \in 1..i : now - Expected(s[j].idx) > limit
  OBVIOUS
<1> HIDE DEF late, t
<1>6. IsFiniteSet(late) /\ c \in 0..Len(s) /\ \A i \in 1..c : i \in late
  BY <1>1, <1>2, <1>3, SubsetSize, NoGaps
<1> HIDE DEF c
<1>7. Suffix(t, s, c) /\ c \in Nat
  <2>1. /\ t \in Seq(Entry) /\ Len(t) = Len(s) - c
        /\ \A i \in 1..Len(s) - c : t[i] = s[i + c]
    BY <1>4, <1>6, SeqBack
  <2> QED
    BY <1>1, <1>6, <2>1 DEF Suffix
<1>8. c + 1 \notin late
  <2> SUFFICES ASSUME c + 1 \in late
               PROVE  FALSE
    OBVIOUS
  <2>1. 1..c + 1 \subseteq late /\ c + 1 \in Nat /\ 1 \in Int
    BY <1>6, <1>7
  <2>2. Cardinality(1..c + 1) = c + 1
    BY <2>1, FS_Interval
  <2>3. Cardinality(1..c + 1) <= c
    BY <1>6, <2>1, FS_Subset DEF c
  <2> QED
    BY <1>7, <2>2, <2>3
<1>9. ASSUME NEW i \in DOMAIN t
      PROVE  now - Expected(t[i].idx) <= limit
  <2>1. i \in 1..Len(s) - c /\ t[i] = s[i + c]
    <3>1. t \in Seq(Entry) /\ Len(t) = Len(s) - c
      BY <1>7 DEF Suffix
    <3>2. DOMAIN t = 1..Len(t)
      BY <3>1, SeqItems
    <3> QED
      BY <1>7, <3>1, <3>2 DEF Suffix
  <2>2. c + 1 \in DOMAIN s /\ i + c \in DOMAIN s /\ c + 1 <= i + c
    BY <1>1, <1>6, <2>1
  <2>3. PICK j \in 1..c + 1 : ~(now - Expected(s[j].idx) > limit)
    BY <1>5, <1>8, <2>2
  <2>4. j \in DOMAIN s /\ (j = i + c \/ j < i + c)
    BY <1>1, <2>1, <2>2, <2>3
  <2>5. s[j].idx \in Nat /\ s[i + c].idx \in Nat
    BY <1>1, <2>2, <2>4 DEF Entry
  <2>6. Expected(s[j].idx) <= Expected(s[i + c].idx)
    <3>1. CASE j = i + c
      <4>1. Expected(s[j].idx) \in Nat
        BY <2>5, ExpectedType
      <4> QED
        BY <3>1, <4>1
    <3>2. CASE j < i + c
      <4>1. s[j].idx < s[i + c].idx
        BY <2>2, <2>4, <3>2 DEF Rising
      <4> QED
        BY <2>5, <4>1, ExpectedRises
    <3> QED
      BY <2>4, <3>1, <3>2
  <2>7. Expected(s[j].idx) \in Nat /\ Expected(s[i + c].idx) \in Nat
    BY <2>5, ExpectedType
  <2>8. now \in Nat
    BY PacingAssumption DEF PacingTypeOK
  <2> QED
    BY <2>1, <2>3, <2>6, <2>7, <2>8
<1>10. Fresh(t, limit)
  BY <1>9 DEF Fresh
<1> QED
  BY <1>7, <1>10 DEF t

LEMMA KeptFresh ==
  ASSUME PacingTypeOK, Rising(q)
  PROVE  Kept \in Seq(Entry) /\ Fresh(Kept, PreserveMs) /\ Fresh(Kept, DiscardMs)
<1> DEFINE s == DropLate(q, DiscardMs)
<1>1. q \in Seq(Entry) /\ DiscardMs \in Nat /\ PreserveMs \in Nat
  BY PacingAssumption DEF PacingTypeOK
<1>2. PICK k \in Nat : Suffix(s, q, k)
  BY <1>1, DropLateFresh
<1>3. Fresh(s, DiscardMs)
  BY <1>1, DropLateFresh
<1>4. Kept = DropLate(s, PreserveMs)
  BY DEF Kept
<1> HIDE DEF s
<1>5. s \in Seq(Entry) /\ Rising(s)
  <2>1. s \in Seq(Entry)
    BY <1>2 DEF Suffix
  <2> QED
    BY <1>1, <1>2, <2>1, SuffixKeeps
<1>6. PICK l \in Nat : Suffix(Kept, s, l)
  BY <1>1, <1>4, <1>5, DropLateFresh
<1>7. Fresh(Kept, PreserveMs)
  BY <1>1, <1>4, <1>5, DropLateFresh
<1>8. Fresh(Kept, DiscardMs)
  BY <1>3, <1>5, <1>6, SuffixKeeps
<1> QED
  BY <1>6, <1>7, <1>8 DEF Suffix

LEMMA StepFresh ==
  ASSUME PipeInv, OrderInv, Step
  PROVE  HandFresh'
<1>1. PacingTypeOK /\ Rising(q)
  BY DEF PipeInv, OrderInv, QueueOrder
<1>2. Kept \in Seq(Entry) /\ Fresh(Kept, PreserveMs) /\ Fresh(Kept, DiscardMs)
  BY <1>1, KeptFresh
<1>3. PICK n \in 0..Len(Kept) : _step = Taking(n)
  BY <1>1, TurnTakes
<1>4. hand' = SubSeq(Kept, 1, n) /\ UNCHANGED <<now, start_ms>>
  BY <1>3 DEF Step, Taking, clock
<1>5. hand' \in Seq(Entry) /\ Len(hand') = n /\ \A i \in 1..n : hand'[i] = Kept[i]
  BY <1>2, <1>3, <1>4, SeqFront
<1>6. DOMAIN hand' = 1..n /\ DOMAIN Kept = 1..Len(Kept) /\ Len(Kept) \in Nat
  BY <1>2, <1>5, SeqItems
<1>7. \A i \in DOMAIN hand' : i \in DOMAIN Kept /\ hand'[i] = Kept[i]
  BY <1>3, <1>5, <1>6
<1>8. \A i : Expected(i)' = Expected(i)
  BY <1>4 DEF Expected
<1> QED
  BY <1>2, <1>4, <1>7, <1>8 DEF HandFresh, Fresh, Expected

\* Every other step sends nothing new: it takes the head off, or leaves the burst as
\* it is, ends it, or lets time pass in it, which makes the server late.
LEMMA FreshStep ==
  ASSUME PipeInv, OrderInv, HandFresh, [Next]_vars
  PROVE  HandFresh'
<1>1. CASE Step
  BY <1>1, StepFresh
<1>2. CASE SendFrame
  <2>1. /\ Len(hand) \in Nat /\ Len(hand') = Len(hand) - 1 /\ hand' \in Seq(Entry)
        /\ \A i \in 1..Len(hand) - 1 : hand'[i] = hand[i + 1]
    BY <1>2, SendTakes
  <2>2. DOMAIN hand' = 1..Len(hand) - 1 /\ DOMAIN hand = 1..Len(hand)
    BY <2>1, SeqItems, QueueNow DEF PipeInv
  <2>3. \A i \in DOMAIN hand' : i + 1 \in DOMAIN hand /\ hand'[i] = hand[i + 1]
    BY <2>1, <2>2
  <2>4. run = "sending" /\ UNCHANGED <<now, lagged, start_ms>>
    BY <1>2 DEF SendFrame, clock
  <2>5. \A i : Expected(i)' = Expected(i)
    BY <2>4 DEF Expected
  <2> QED
    BY <2>3, <2>4, <2>5 DEF HandFresh, Fresh, Expected
<1>3. CASE Tick
  BY <1>3 DEF Tick, Due, HandFresh, engine
<1>4. CASE Start
  BY <1>4 DEF Start, HandFresh
<1>5. CASE Quit \/ RunCancelled
  BY <1>5 DEF Quit, RunCancelled, HandFresh
<1>6. ASSUME UNCHANGED <<run, lagged, now, start_ms, hand>>
      PROVE  HandFresh'
  BY <1>6 DEF HandFresh, Fresh, Expected
<1>7. CASE ProducerBegins \/ Pull \/ Submit
  BY <1>6, <1>7 DEF ProducerBegins, Pull, Submit, Produce, clock
<1>8. CASE SleepAgain \/ Receive \/ Close \/ Stop \/ ProducerCancelled \/ UNCHANGED vars
  BY <1>6, <1>8 DEF SleepAgain, Receive, Close, Stop, ProducerCancelled, vars, clock, engine
<1> QED
  BY <1>1, <1>2, <1>3, <1>4, <1>5, <1>7, <1>8 DEF Next, Server

\* As long as the server has not been late, nobody hears a frame that is later than
\* either backlog limit, whatever the studio left out, however long it paused and
\* whichever of the two limits is the larger.
THEOREM FramesNeverStale == Spec => NeverStale
<1>1. Init => HandFresh
  BY DEF Init, HandFresh
<1>2. PipeInv /\ OrderInv /\ HandFresh /\ [Next]_vars => HandFresh'
  BY FreshStep
<1>3. PipeInv /\ OrderInv /\ HandFresh /\ [Next]_vars
        => [~lagged /\ heard' # heard
              => now - Expected(Head(hand).idx) <= Least(PreserveMs, DiscardMs)]_vars
  <2> SUFFICES ASSUME PipeInv, OrderInv, HandFresh, [Next]_vars, ~lagged, heard' # heard
               PROVE  now - Expected(Head(hand).idx) <= Least(PreserveMs, DiscardMs)
    OBVIOUS
  <2>1. SendFrame
    <3>1. Step \/ Receive \/ Close \/ ProducerCancelled \/ Quiet => heard' = heard
      BY DEF Step, Receive, Close, ProducerCancelled, Quiet, engine
    <3>2. (\E fit, d \in Nat : Moved(fit, d)) => heard' = heard
      BY DEF Moved
    <3> QED
      BY <3>1, <3>2, Effects
  <2>2. Head(hand) = hand[1] /\ 1 \in DOMAIN hand
    <3>1. Head(hand) = hand[1] /\ Len(hand) \in Nat /\ Len(hand) >= 1
      BY <2>1, SendTakes
    <3> QED
      BY <3>1, QueueNow DEF PipeInv
  <2>3. /\ now - Expected(hand[1].idx) <= PreserveMs
        /\ now - Expected(hand[1].idx) <= DiscardMs
    BY <2>1, <2>2 DEF SendFrame, HandFresh, Fresh
  <2> QED
    BY <2>2, <2>3 DEF Least
<1> QED
  BY <1>1, <1>2, <1>3, PipeInvariant, OrderInvariant, PTL DEF Spec, NeverStale

-----------------------------------------------------------------------------
(* The listener's view *)

LEMMA AheadEntries ==
  ASSUME NEW h \in 0..MaxFrame, NEW b \in Seq(0..MaxFrame)
  PROVE  ({h} \cup Entries(b)) \ {End} = Entries(Ahead(h, b)) \ {End}
<1>1. CASE h = 0
  <2>1. Ahead(h, b) = b
    BY <1>1, AheadItems
  <2> QED
    BY <1>1, <2>1 DEF End
<1>2. CASE h # 0
  <2>1. /\ Ahead(h, b) \in Seq(0..MaxFrame) /\ Len(Ahead(h, b)) = Len(b) + 1
        /\ Ahead(h, b)[1] = h
        /\ \A i \in 1..Len(b) : Ahead(h, b)[i + 1] = b[i]
    BY <1>2, AheadItems
  <2> DEFINE a == Ahead(h, b)
  <2>2. DOMAIN a = 1..Len(b) + 1 /\ DOMAIN b = 1..Len(b) /\ Len(b) \in Nat
    BY <2>1, SeqItems
  <2>3. ASSUME NEW i \in DOMAIN a
        PROVE  a[i] \in {h} \cup Entries(b)
    <3>1. CASE i = 1
      BY <2>1, <3>1
    <3>2. CASE i # 1
      <4> DEFINE j == i - 1
      <4>1. j \in 1..Len(b) /\ i = j + 1
        BY <2>2, <3>2
      <4> HIDE DEF j
      <4>2. a[i] = b[j] /\ j \in DOMAIN b
        BY <2>1, <2>2, <4>1
      <4> QED
        BY <4>2 DEF Entries
    <3> QED
      BY <3>1, <3>2
  <2>4. h \in Entries(a)
    <3>1. 1 \in DOMAIN a /\ a[1] = h
      BY <2>1, <2>2
    <3> QED
      BY <3>1 DEF Entries
  <2>5. ASSUME NEW i \in DOMAIN b
        PROVE  b[i] \in Entries(a)
    <3>1. i + 1 \in DOMAIN a /\ a[i + 1] = b[i]
      BY <2>1, <2>2
    <3> QED
      BY <3>1 DEF Entries
  <2> HIDE DEF a
  <2>6. Entries(a) = {h} \cup Entries(b)
    BY <2>3, <2>4, <2>5 DEF Entries
  <2> QED
    BY <2>6 DEF a
<1> QED
  BY <1>1, <1>2

\* A frame that is on its way, and where it is.
OnItsWay(f) ==
  \/ \E i \in DOMAIN hand : f = hand[i].frame
  \/ \E i \in DOMAIN q : f = q[i].frame
  \/ \E i \in DOMAIN Pending : f = Pending[i]

LEMMA WayNow ==
  ASSUME PacingTypeOK
  PROVE  \A f : f \in OnTheWay <=> f # End /\ OnItsWay(f)
<1>1. ({held} \cup Entries(buffer)) \ {End} = Entries(Pending) \ {End}
  BY AheadEntries DEF PacingTypeOK, Pending
<1>2. OnTheWay = (FramesOf(hand) \cup FramesOf(q) \cup Entries(Pending)) \ {End}
  BY <1>1 DEF OnTheWay
<1> QED
  BY <1>2 DEF OnItsWay, FramesOf, Entries

LEMMA WayNext ==
  ASSUME PacingTypeOK'
  PROVE  \A f : f \in OnTheWay' <=> f # End /\ OnItsWay(f)'
<1>1. held' \in 0..MaxFrame /\ buffer' \in Seq(0..MaxFrame)
  BY DEF PacingTypeOK
<1>2. ({held'} \cup Entries(buffer')) \ {End} = Entries(Pending') \ {End}
  BY <1>1, AheadEntries DEF Pending
<1>3. OnTheWay' = (FramesOf(hand') \cup FramesOf(q') \cup Entries(Pending')) \ {End}
  BY <1>2 DEF OnTheWay, FramesOf, Entries
<1> QED
  BY <1>3 DEF OnItsWay, FramesOf, Entries

\* A step that puts nothing new on the way is one that loses frames.
LEMMA Loses ==
  ASSUME PipeInv, PipeInv', UNCHANGED <<newest, heard>>,
         ASSUME NEW f, f # End, OnItsWay(f)'
         PROVE  OnItsWay(f)
  PROVE  Feed!Lose
<1>1. OnTheWay' \subseteq OnTheWay
  BY WayNow, WayNext DEF PipeInv
<1> QED
  BY <1>1 DEF Feed!Lose

LEMMA MovedLoses ==
  ASSUME PipeInv, PipeInv', NEW fit \in Nat, NEW d \in Nat, Moved(fit, d)
  PROVE  Feed!Lose
<1>1. /\ UNCHANGED <<newest, heard, hand>>
      /\ Len(Pending') = Len(Pending) - d
      /\ \A i \in 1..Len(Pending) - d : Pending'[i] = Pending[i + d]
  BY DEF Moved
<1>2. /\ DOMAIN Pending' = 1..Len(Pending') /\ DOMAIN Pending = 1..Len(Pending)
      /\ Len(Pending) \in Nat
  <2>1. PacingTypeOK /\ held' \in 0..MaxFrame /\ buffer' \in Seq(0..MaxFrame)
    BY DEF PipeInv, PacingTypeOK
  <2> QED
    BY <2>1, PendingNow, PendingNext
<1>3. ASSUME NEW f, f # End, OnItsWay(f)'
      PROVE  OnItsWay(f)
  <2>1. ASSUME NEW i \in DOMAIN q', f = q'[i].frame
        PROVE  OnItsWay(f)
    BY <2>1, MovedEntries DEF OnItsWay
  <2>2. ASSUME NEW i \in DOMAIN Pending', f = Pending'[i]
        PROVE  OnItsWay(f)
    <3>1. i \in 1..Len(Pending) - d /\ i + d \in DOMAIN Pending
      BY <1>1, <1>2
    <3> QED
      BY <1>1, <2>2, <3>1 DEF OnItsWay
  <2> QED
    BY <1>1, <1>3, <2>1, <2>2 DEF OnItsWay
<1> QED
  BY <1>1, <1>3, Loses

LEMMA StepLoses ==
  ASSUME PipeInv, PipeInv', Step
  PROVE  Feed!Lose
<1>1. PICK k \in Nat, n \in Nat : Taken(k, n)
  BY StepTakes DEF PipeInv
<1>2. /\ k + n \in 0..Len(q)
      /\ Len(hand') = n /\ \A i \in 1..n : hand'[i] = q[i + k]
      /\ Len(q') = Len(q) - (k + n)
      /\ \A i \in 1..Len(q) - (k + n) : q'[i] = q[i + (k + n)]
      /\ hand' \in Seq(Entry) /\ q' \in Seq(Entry)
  BY <1>1 DEF Taken
<1>3. UNCHANGED <<newest, heard>> /\ Pending' = Pending
  BY DEF Step, feeder, Pending
<1>4. /\ DOMAIN q' = 1..Len(q') /\ DOMAIN hand' = 1..Len(hand')
      /\ DOMAIN q = 1..Len(q) /\ Len(q) \in Nat
  BY <1>2, SeqItems, QueueNow DEF PipeInv
<1>5. ASSUME NEW f, f # End, OnItsWay(f)'
      PROVE  OnItsWay(f)
  <2>1. ASSUME NEW i \in DOMAIN hand', f = hand'[i].frame
        PROVE  OnItsWay(f)
    <3>1. i \in 1..n /\ i + k \in DOMAIN q
      BY <1>2, <1>4
    <3> QED
      BY <1>2, <2>1, <3>1 DEF OnItsWay
  <2>2. ASSUME NEW i \in DOMAIN q', f = q'[i].frame
        PROVE  OnItsWay(f)
    <3>1. i \in 1..Len(q) - (k + n) /\ i + (k + n) \in DOMAIN q
      BY <1>2, <1>4
    <3> QED
      BY <1>2, <2>2, <3>1 DEF OnItsWay
  <2> QED
    BY <1>3, <1>5, <2>1, <2>2 DEF OnItsWay
<1> QED
  BY <1>3, <1>5, Loses

\* The frame that is sent is the oldest on its way.
LEMMA SendSends ==
  ASSUME PipeInv, PipeInv', OrderInv, SendFrame
  PROVE  Feed!Send
<1>1. PacingTypeOK /\ PacingTypeOK'
  BY DEF PipeInv
<1>2. /\ Len(hand) \in Nat /\ Len(hand) >= 1
      /\ heard' = hand[1].frame
      /\ Len(hand') = Len(hand) - 1 /\ hand' \in Seq(Entry)
      /\ \A i \in 1..Len(hand) - 1 : hand'[i] = hand[i + 1]
  BY SendTakes
<1>3. DOMAIN hand' = 1..Len(hand') /\ DOMAIN hand = 1..Len(hand)
  BY <1>1, <1>2, SeqItems, QueueNow
<1>4. UNCHANGED <<newest, q>> /\ Pending' = Pending
  BY DEF SendFrame, feeder, Pending
<1>5. 1 \in DOMAIN hand /\ heard' \in Nat /\ heard' # End
  <2>1. 1 \in DOMAIN hand
    BY <1>2, <1>3
  <2>2. hand[1].frame \in 1..MaxFrame
    BY <1>1, <2>1, QueueNow
  <2> QED
    BY <1>2, <2>1, <2>2, PacingAssumption DEF End
<1>6. ASSUME NEW i \in DOMAIN hand, i # 1
      PROVE  heard' < hand[i].frame
  <2>1. 1 < i
    BY <1>3, <1>6
  <2> QED
    BY <1>2, <1>5, <2>1 DEF OrderInv, HandOrder, Rising
<1>7. /\ \A i \in DOMAIN q : heard' < q[i].frame
      /\ \A i \in DOMAIN Pending : Pending[i] # End => heard' < Pending[i]
  BY <1>2, <1>5 DEF OrderInv, HandOrder
<1>8. /\ \A i \in DOMAIN hand : hand[i].frame \in Nat
      /\ \A i \in DOMAIN q : q[i].frame \in Nat
      /\ \A i \in DOMAIN Pending : Pending[i] \in Nat
  <2>1. /\ \A i \in DOMAIN hand : hand[i].frame \in 1..MaxFrame
        /\ \A i \in DOMAIN q : q[i].frame \in 1..MaxFrame
        /\ \A i \in DOMAIN Pending : Pending[i] \in 0..MaxFrame
    BY <1>1, QueueNow, PendingNow
  <2> QED
    BY <2>1, PacingAssumption
<1>9. ASSUME NEW f, f # End, OnItsWay(f)
      PROVE  f \in Nat /\ (f = heard' \/ heard' < f)
  <2>1. ASSUME NEW i \in DOMAIN hand, f = hand[i].frame
        PROVE  f \in Nat /\ (f = heard' \/ heard' < f)
    BY <1>2, <1>6, <1>8, <2>1
  <2>2. ASSUME NEW i \in DOMAIN q, f = q[i].frame
        PROVE  f \in Nat /\ (f = heard' \/ heard' < f)
    BY <1>7, <1>8, <2>2
  <2>3. ASSUME NEW i \in DOMAIN Pending, f = Pending[i]
        PROVE  f \in Nat /\ (f = heard' \/ heard' < f)
    BY <1>7, <1>8, <1>9, <2>3
  <2> QED
    BY <1>9, <2>1, <2>2, <2>3 DEF OnItsWay
<1>10. ASSUME NEW i \in DOMAIN hand'
       PROVE  i + 1 \in DOMAIN hand /\ i + 1 # 1 /\ hand'[i] = hand[i + 1]
  <2>1. i \in 1..Len(hand) - 1 /\ i + 1 \in DOMAIN hand /\ i + 1 # 1
    BY <1>2, <1>3
  <2> QED
    BY <1>2, <2>1
<1>11. ASSUME NEW f, f # End, OnItsWay(f)'
       PROVE  OnItsWay(f) /\ f # heard'
  <2>1. ASSUME NEW i \in DOMAIN hand', f = hand'[i].frame
        PROVE  OnItsWay(f) /\ f # heard'
    <3>1. i + 1 \in DOMAIN hand /\ f = hand[i + 1].frame /\ heard' < f /\ f \in Nat
      BY <1>6, <1>8, <1>10, <2>1
    <3> QED
      BY <1>5, <3>1 DEF OnItsWay
  <2>2. ASSUME NEW i \in DOMAIN q, f = q[i].frame
        PROVE  OnItsWay(f) /\ f # heard'
    <3>1. heard' < f /\ f \in Nat
      BY <1>7, <1>8, <2>2
    <3> QED
      BY <1>5, <2>2, <3>1 DEF OnItsWay
  <2>3. ASSUME NEW i \in DOMAIN Pending, f = Pending[i]
        PROVE  OnItsWay(f) /\ f # heard'
    <3>1. heard' < f /\ f \in Nat
      BY <1>7, <1>8, <1>11, <2>3
    <3> QED
      BY <1>5, <2>3, <3>1 DEF OnItsWay
  <2> QED
    BY <1>4, <1>11, <2>1, <2>2, <2>3 DEF OnItsWay
<1>12. ASSUME NEW f, f # End, OnItsWay(f), f # heard'
       PROVE  OnItsWay(f)'
  <2>1. ASSUME NEW i \in DOMAIN hand, f = hand[i].frame
        PROVE  OnItsWay(f)'
    <3> DEFINE j == i - 1
    <3>1. j \in 1..Len(hand) - 1 /\ i = j + 1 /\ j \in DOMAIN hand'
      BY <1>2, <1>3, <1>12, <2>1
    <3> HIDE DEF j
    <3>2. hand'[j] = hand[i]
      BY <1>2, <3>1
    <3> QED
      BY <2>1, <3>1, <3>2 DEF OnItsWay
  <2> QED
    BY <1>4, <1>12, <2>1 DEF OnItsWay
<1>13. heard' \in OnTheWay
  BY <1>1, <1>2, <1>5, WayNow DEF OnItsWay
<1>14. \A f \in OnTheWay : heard' <= f
  BY <1>1, <1>5, <1>9, WayNow
<1>15. OnTheWay' = OnTheWay \ {heard'}
  BY <1>1, <1>11, <1>12, WayNow, WayNext
<1> QED
  BY <1>4, <1>13, <1>14, <1>15 DEF Feed!Send

LEMMA ReceivePuts ==
  ASSUME PipeInv, PipeInv', Receive
  PROVE  Feed!Put
<1>1. PacingTypeOK /\ PacingTypeOK'
  BY DEF PipeInv
<1>2. UNCHANGED <<heard, q, hand>>
  BY DEF Receive, engine
<1>3. PICK k \in newest + 1..MaxFrame, t \in {0, 1} : newest' = k /\ Pushed(k, t)
  BY <1>1, ReceivePushes
<1>4. newest' > newest
  BY <1>1, <1>3, PacingAssumption DEF PacingTypeOK
<1>5. /\ Len(Pending') = Len(Pending) - t + 1
      /\ Pending'[Len(Pending')] = k
      /\ \A i \in 1..Len(Pending) - t :
           Was(i, t) \in 1..Len(Pending) /\ Pending'[i] = Pending[Was(i, t)]
  BY <1>3 DEF Pushed
<1>6. /\ DOMAIN Pending' = 1..Len(Pending') /\ DOMAIN Pending = 1..Len(Pending)
      /\ Len(Pending) \in Nat
  <2>1. held' \in 0..MaxFrame /\ buffer' \in Seq(0..MaxFrame)
    BY <1>1 DEF PacingTypeOK
  <2> QED
    BY <1>1, <2>1, PendingNow, PendingNext
<1>7. ASSUME NEW f, f # End, OnItsWay(f)'
      PROVE  OnItsWay(f) \/ f = newest'
  <2>1. ASSUME NEW i \in DOMAIN Pending', f = Pending'[i]
        PROVE  OnItsWay(f) \/ f = newest'
    <3>1. CASE i = Len(Pending')
      BY <1>3, <1>5, <2>1, <3>1
    <3>2. CASE i # Len(Pending')
      <4>1. i \in 1..Len(Pending) - t
        BY <1>5, <1>6, <3>2
      <4>2. Was(i, t) \in DOMAIN Pending /\ Pending'[i] = Pending[Was(i, t)]
        BY <1>5, <1>6, <4>1
      <4> QED
        BY <2>1, <4>2 DEF OnItsWay
    <3> QED
      BY <3>1, <3>2
  <2> QED
    BY <1>2, <1>7, <2>1 DEF OnItsWay
<1>8. OnTheWay' \subseteq OnTheWay \cup {newest'}
  BY <1>1, <1>7, WayNow, WayNext
<1> QED
  BY <1>2, <1>4, <1>8 DEF Feed!Put

LEMMA CloseLoses ==
  ASSUME PipeInv, PipeInv', Close
  PROVE  Feed!Lose
<1>1. UNCHANGED <<newest, heard, q, hand>>
  BY DEF Close, engine
<1>2. ASSUME NEW f, f # End, OnItsWay(f)'
      PROVE  OnItsWay(f)
  BY <1>1, <1>2, ClosePending DEF OnItsWay
<1> QED
  BY <1>1, <1>2, Loses

LEMMA CancelLoses ==
  ASSUME PipeInv, PipeInv', ProducerCancelled
  PROVE  Feed!Lose
<1>1. UNCHANGED <<newest, heard, q, hand, buffer>> /\ held' = 0
  BY DEF ProducerCancelled, engine
<1>2. PICK c \in {0, 1} : /\ Len(Pending') = Len(Pending) - c
                          /\ \A i \in 1..Len(Pending) - c : Pending'[i] = Pending[i + c]
  BY <1>1, CancelledPending DEF PipeInv
<1>3. /\ DOMAIN Pending' = 1..Len(Pending') /\ DOMAIN Pending = 1..Len(Pending)
      /\ Len(Pending) \in Nat
  <2>1. PacingTypeOK /\ held' \in 0..MaxFrame /\ buffer' \in Seq(0..MaxFrame)
    BY DEF PipeInv, PacingTypeOK
  <2> QED
    BY <2>1, PendingNow, PendingNext
<1>4. ASSUME NEW f, f # End, OnItsWay(f)'
      PROVE  OnItsWay(f)
  <2>1. ASSUME NEW i \in DOMAIN Pending', f = Pending'[i]
        PROVE  OnItsWay(f)
    <3>1. i \in 1..Len(Pending) - c /\ i + c \in DOMAIN Pending
      BY <1>2, <1>3
    <3> QED
      BY <1>2, <2>1, <3>1 DEF OnItsWay
  <2> QED
    BY <1>1, <1>4, <2>1 DEF OnItsWay
<1> QED
  BY <1>1, <1>4, Loses

LEMMA QuietLoses ==
  ASSUME PipeInv, PipeInv', Quiet
  PROVE  Feed!Lose
<1>1. UNCHANGED <<newest, heard>> /\ Pending' = Pending
      /\ q' \in {q, <<>>} /\ hand' \in {hand, <<>>}
  BY DEF Quiet, Pending
<1>2. DOMAIN <<>> = {}
  OBVIOUS
<1>3. ASSUME NEW f, f # End, OnItsWay(f)'
      PROVE  OnItsWay(f)
  BY <1>1, <1>2, <1>3 DEF OnItsWay
<1> QED
  BY <1>1, <1>3, Loses

LEMMA FeedInit == Init => Feed!Init
<1> SUFFICES ASSUME Init
             PROVE  Feed!Init
  OBVIOUS
<1>1. PacingTypeOK
  BY PipeInit
<1>2. Pending = buffer
  BY <1>1, PendingItems DEF Init, PacingTypeOK
<1>3. q = <<>> /\ hand = <<>> /\ DOMAIN <<>> = {} /\ heard = 0
  BY DEF Init
<1>4. newest \in Nat /\ MaxFrame \in Nat
  BY <1>1, PacingAssumption DEF PacingTypeOK
<1>5. \A f : f \in OnTheWay <=> f # End /\ \E i \in DOMAIN Pending : f = Pending[i]
  BY <1>1, <1>3, WayNow DEF OnItsWay
<1>6. CASE kind = "file"
  <2>1. Pending = FileItems /\ newest = MaxFrame
    BY <1>2, <1>6 DEF Init
  <2>2. DOMAIN Pending = 1..MaxFrame + 1
    BY <1>1, <2>1, PendingNow, FileItemsType
  <2>3. \A i \in DOMAIN Pending : Pending[i] = IF i = MaxFrame + 1 THEN End ELSE i
    BY <2>1, <2>2, FileItemsType
  <2>4. \A f \in OnTheWay : f \in 1..newest
    BY <1>4, <1>5, <2>1, <2>2, <2>3
  <2>5. ASSUME NEW f \in 1..newest
        PROVE  f \in OnTheWay
    <3>1. f \in DOMAIN Pending /\ Pending[f] = f /\ f # End
      BY <1>4, <2>1, <2>2, <2>3 DEF End
    <3> QED
      BY <1>5, <3>1
  <2>6. OnTheWay = 1..newest
    BY <2>4, <2>5
  <2> QED
    BY <1>3, <1>4, <2>6 DEF Feed!Init
<1>7. CASE kind # "file"
  <2>1. Pending = <<>> /\ newest = 0
    BY <1>2, <1>7 DEF Init
  <2>2. OnTheWay = {} /\ 1..newest = {}
    BY <1>3, <1>5, <2>1
  <2> QED
    BY <1>3, <1>4, <2>2 DEF Feed!Init
<1> QED
  BY <1>6, <1>7

LEMMA FeedStep ==
  ASSUME PipeInv, OrderInv, [Next]_vars
  PROVE  Feed!Next
<1>1. PipeInv'
  BY PipeStep
<1>2. CASE \E fit, d \in Nat : Moved(fit, d)
  BY <1>1, <1>2, MovedLoses DEF Feed!Next
<1>3. CASE Step
  BY <1>1, <1>3, StepLoses DEF Feed!Next
<1>4. CASE SendFrame
  BY <1>1, <1>4, SendSends DEF Feed!Next
<1>5. CASE Receive
  BY <1>1, <1>5, ReceivePuts DEF Feed!Next
<1>6. CASE Close
  BY <1>1, <1>6, CloseLoses DEF Feed!Next
<1>7. CASE ProducerCancelled
  BY <1>1, <1>7, CancelLoses DEF Feed!Next
<1>8. CASE Quiet
  BY <1>1, <1>8, QuietLoses DEF Feed!Next
<1> QED
  BY <1>2, <1>3, <1>4, <1>5, <1>6, <1>7, <1>8, Effects

\* Pacing implements LossyFeed: through two bounded queues that drop at different
\* ends, a blocked submit() and a burst, the devices hear frames in the order they
\* were captured, none twice.
THEOREM HeardInOrder == Spec => InOrder
<1>1. PipeInv /\ OrderInv /\ [Next]_vars => [Feed!Next]_(Feed!feed)
  BY FeedStep
<1> QED
  BY <1>1, FeedInit, PipeInvariant, OrderInvariant, PTL DEF Spec, InOrder, Feed!Spec

-----------------------------------------------------------------------------
(* The runtime as its users see it *)

\* A producer that has ended by itself has seen the end of its source.
SourceSeen == stop = "no" /\ prod = "over" => ended

LEMMA ProducerSeen ==
  ASSUME PipeInv, ProducerBegins \/ Pull \/ Submit, prod' = "over"
  PROVE  ended
<1>1. PICK batch, rest : Produce(batch, rest) /\ Feeding(batch, rest)
  BY ProducerFeeding
<1> DEFINE frames == Frames(batch)
<1>2. Len(frames) = Len(batch) \/ (Len(batch) >= 1 /\ Pending[Len(batch)] = End)
  BY <1>1, BatchFrames
<1>3. closed \/ Len(frames) < Len(batch)
  <2>1. prod' = IF Least(Len(frames), QueueMax - Len(q)) < Len(frames) THEN "full"
                ELSE IF Exhausted(batch, frames) THEN "over" ELSE "get"
    BY <1>1 DEF Produce
  <2> HIDE DEF frames
  <2> QED
    BY <2>1 DEF Exhausted
<1>4. CASE closed
  BY <1>4 DEF ended
<1>5. CASE ~closed
  <2>1. /\ batch \in Seq(0..MaxFrame) /\ rest \in Seq(0..MaxFrame)
        /\ Len(batch) + Len(rest) = Len(Pending) /\ Pending \in Seq(0..MaxFrame)
    BY <1>1, PendingItems DEF Feeding, PipeInv, PacingTypeOK
  <2>2. /\ Len(batch) \in Nat /\ Len(rest) \in Nat /\ Len(Pending) \in Nat
        /\ DOMAIN Pending = 1..Len(Pending)
    BY <2>1, SeqItems
  <2>3. Len(batch) >= 1 /\ Pending[Len(batch)] = End
    <3> HIDE DEF frames
    <3> QED
      BY <1>2, <1>3, <1>5, <2>2
  <2>4. Len(batch) \in DOMAIN Pending
    BY <2>1, <2>2, <2>3
  <2> QED
    BY <1>5, <2>3, <2>4 DEF PipeInv, FeedInv, ended
<1> QED
  BY <1>4, <1>5

LEMMA SeenStep ==
  ASSUME PipeInv, SourceSeen, [Next]_vars
  PROVE  SourceSeen'
<1>1. CASE ProducerBegins \/ Pull \/ Submit
  <2>1. UNCHANGED <<closed, kind, stop>>
    BY <1>1, ProduceEffect DEF ProducerBegins, Pull, Submit
  <2> QED
    BY <1>1, <2>1, ProducerSeen DEF SourceSeen, ended
<1>2. CASE Close
  BY <1>2 DEF Close, SourceSeen, ended
<1>3. CASE Start \/ SleepAgain
  BY <1>3 DEF Start, SleepAgain, Retries, SourceSeen, ended
<1>4. CASE Stop \/ ProducerCancelled \/ RunCancelled
  BY <1>4 DEF Stop, ProducerCancelled, RunCancelled, Await, SourceSeen
<1>5. CASE Step \/ SendFrame \/ Quit \/ Receive \/ Tick \/ UNCHANGED vars
  BY <1>5 DEF Step, SendFrame, Quit, Receive, push, Tick, vars, feeder, SourceSeen, ended
<1> QED
  BY <1>1, <1>2, <1>3, <1>4, <1>5 DEF Next, Server

\* The steps after which run() may have ended.
LEMMA RestLives ==
  ASSUME SourceSeen, stop = "no", run \in {"loop", "sending"}, UNCHANGED <<closed, kind, stop>>,
         run' \in {"loop", "sending"} \/ (run' = "over" /\ prod = "over")
  PROVE  [Life!Next]_(Life!runtime)
<1>1. life = "running" /\ ended' = ended
  BY DEF life, ended
<1>2. CASE run' \in {"loop", "sending"}
  <2>1. life' = "running"
    BY <1>2 DEF life
  <2> QED
    BY <1>1, <2>1 DEF Life!runtime
<1>3. CASE run' = "over" /\ prod = "over"
  <2>1. life' = "over" /\ ended
    BY <1>3 DEF life, SourceSeen
  <2> QED
    BY <1>1, <2>1 DEF Life!Next, Life!Drain
<1> QED
  BY <1>2, <1>3

LEMMA RestRuns ==
  ASSUME NEW queue, NEW w, Rest(queue, w)
  PROVE  run' = "loop" \/ (run' = "over" /\ prod = "over")
BY DEF Rest, Drained

LEMMA LifeStep ==
  ASSUME PipeInv, SourceSeen, [Next]_vars
  PROVE  [Life!Next]_(Life!runtime)
<1> USE DEF Life!Next, Life!runtime
<1>1. StopInv /\ DrainInv
  BY DEF PipeInv, EndInv
<1>2. ASSUME UNCHANGED <<run, stop, closed, kind>>
      PROVE  [Life!Next]_(Life!runtime)
  BY <1>2 DEF life, ended
<1>3. CASE ProducerBegins \/ Pull \/ Submit
  <2>1. UNCHANGED <<run, stop, closed, kind>>
    BY <1>3, ProduceEffect DEF ProducerBegins, Pull, Submit
  <2> QED
    BY <1>2, <2>1
<1>4. CASE SleepAgain \/ Receive \/ Tick \/ UNCHANGED vars
  BY <1>2, <1>4 DEF SleepAgain, Receive, push, Tick, vars, engine, feeder
<1>5. CASE Step
  <2>1. run = "loop" /\ stop = "no" /\ UNCHANGED <<closed, kind, stop>>
    BY <1>1, <1>5 DEF Step, feeder, StopInv
  <2>2. run' \in {"loop", "sending"} \/ (run' = "over" /\ prod = "over")
    BY <1>5, RestRuns DEF Step
  <2> QED
    BY <2>1, <2>2, RestLives
<1>6. CASE SendFrame
  <2>1. run = "sending" /\ UNCHANGED <<closed, kind, stop>>
    BY <1>6 DEF SendFrame, feeder
  <2>2. run' \in {"loop", "sending"} \/ (run' = "over" /\ prod = "over")
    BY <1>6, <2>1, RestRuns DEF SendFrame
  <2>3. CASE stop = "no"
    BY <2>1, <2>2, <2>3, RestLives
  <2>4. CASE stop # "no"
    BY <1>1, <2>1, <2>2, <2>4 DEF life, ended, StopInv
  <2> QED
    BY <2>3, <2>4
<1>7. CASE Quit
  <2>1. stop # "no" /\ run = "loop" /\ run' = "over" /\ UNCHANGED <<closed, kind, stop>>
    BY <1>1, <1>7 DEF Quit, feeder, DrainInv
  <2> QED
    BY <2>1 DEF life, ended
<1>8. CASE Close
  <2>1. UNCHANGED <<run, stop>> /\ ended'
    BY <1>8 DEF Close, engine, ended
  <2>2. life' = life /\ life # "none" /\ ended' = TRUE
    BY <2>1 DEF life, ended
  <2> QED
    BY <2>2 DEF Life!SourceEnds
<1>9. CASE Start
  <2>1. run = "none" /\ run' = "loop" /\ stop = "no" /\ UNCHANGED <<closed, kind, stop>>
    BY <1>1, <1>9 DEF Start, StopInv
  <2> QED
    BY <2>1 DEF life, ended, Life!Start
<1>10. CASE Stop
  <2>1. /\ run # "none" /\ stop = "no" /\ UNCHANGED <<closed, kind, run>>
        /\ stop' = Await
    BY <1>10 DEF Stop, feeder
  <2>2. CASE run = "over"
    <3>1. stop' = "done"
      BY <1>1, <2>1, <2>2 DEF Await, DrainInv
    <3> QED
      BY <2>1, <2>2, <3>1 DEF life, ended
  <2>3. CASE run # "over"
    <3>1. stop' \in {"producer", "run"}
      BY <2>1, <2>3 DEF Await
    <3>2. life = "running" /\ life' = "stopping" /\ ended' = ended
      BY <2>1, <2>3, <3>1 DEF life, ended
    <3> QED
      BY <3>2 DEF Life!Stop
  <2> QED
    BY <2>2, <2>3
<1>11. CASE ProducerCancelled \/ RunCancelled
  <2>1. /\ stop \in {"producer", "run"} /\ stop' \in {"run", "done"}
        /\ UNCHANGED <<closed, kind>>
        /\ run # "none" /\ run' # "none"
    BY <1>1, <1>11 DEF ProducerCancelled, RunCancelled, engine, feeder, StopInv
  <2>2. life = "stopping" /\ life' \in {"stopping", "over"} /\ ended' = ended
    BY <2>1 DEF life, ended
  <2> QED
    BY <2>2 DEF Life!Stopped
<1> QED
  BY <1>3, <1>4, <1>5, <1>6, <1>7, <1>8, <1>9, <1>10, <1>11 DEF Next, Server

\* Pacing implements RuntimeLife: the producer, the loop and stop(), in any order of
\* their steps, lead the one life that the handlers count on.
THEOREM EngineLives == Spec => EngineLife
<1>1. Init => SourceSeen /\ Life!Init
  BY DEF Init, SourceSeen, Life!Init, life, ended
<1>2. PipeInv /\ SourceSeen /\ [Next]_vars => SourceSeen'
  BY SeenStep
<1>3. PipeInv /\ SourceSeen /\ [Next]_vars => [Life!Next]_(Life!runtime)
  BY LifeStep
<1> QED
  BY <1>1, <1>2, <1>3, PipeInvariant, PTL DEF Spec, EngineLife, Life!Spec
=============================================================================
