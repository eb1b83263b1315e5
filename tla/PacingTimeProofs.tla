-------------------------- MODULE PacingTimeProofs --------------------------
(***************************************************************************)
(* The times at which a file's packets are sent as long as the server is   *)
(* not late: for every frame length, queue size, burst limit and number of *)
(* packets, every packet goes out at its own time, none is dropped, and    *)
(* only the first can be a quarter of a frame late.                        *)
(***************************************************************************)
EXTENDS PacingProofs

\* What the thresholds have to allow: a first packet that is as late as one poll
\* of the empty queue must not be dropped.  (BACKLOG_PRESERVE_MS is 1600 and
\* BACKLOG_DISCARD_MS 2000, so that frames may last 6.4 s.)
Patience == Poll <= PreserveMs /\ Poll <= DiscardMs

Half == FrameMs \div 2

\* When the next frame is sent at the latest.
Latest == IF heard = 0 THEN start_ms + Poll ELSE Expected(heard)

\* What is being sent is the next frame alone, and it is sent in time.
SendingInTime ==
  run = "sending" => Len(hand) = 1 /\ hand[1].frame = heard + 1 /\ now <= Latest

\* No frame has been left out so far; the loop wakes up before the next one is
\* late, and a blocked producer refills an empty queue early enough for that.
LoopInTime ==
  /\ prod \in {"new", "full", "over"}
  /\ prod = "new" => now = start_ms /\ next_idx = 0
  /\ next_idx = heard + Len(hand) + Len(q)
  /\ \A i \in DOMAIN q : q[i].idx = heard + Len(hand) + i - 1
  /\ prod = "full" => now <= retry /\ retry <= now + Half
  /\ run = "loop" =>
       /\ now <= alarm
       /\ q = <<>> => alarm <= now + Poll
       /\ q # <<>> => alarm <= Latest
       /\ q = <<>> /\ prod = "full" =>
            heard > 0 /\ retry <= Expected(heard - 1) + Poll + Half
  /\ run = "sending" => wake \in {None, Expected(heard + 1)}

Runs == stop = "no" /\ run \in {"loop", "sending"}

Punctual ==
  /\ run = "none" => heard = 0 /\ q = <<>> /\ next_idx = 0
  /\ kind = "file" => next_idx <= MaxFrame
  /\ kind = "file" /\ ~lagged => SendingInTime /\ (Runs => LoopInTime)

-----------------------------------------------------------------------------
(* Times *)

LEMMA Periods ==
  /\ FrameMs \in Nat \ {0} /\ Poll \in Nat /\ Half \in Nat
  /\ Poll < FrameMs /\ Poll + Poll + Half <= FrameMs
<1>1. FrameMs \in Nat \ {0}
  BY PacingAssumption
<1>2. FrameMs \div 4 \in Nat /\ FrameMs \div 2 \in Nat /\ FrameMs \div 4 < FrameMs
      /\ FrameMs \div 4 + FrameMs \div 4 + FrameMs \div 2 <= FrameMs
  BY <1>1
<1> QED
  BY <1>1, <1>2 DEF Poll, Half

LEMMA ExpectedNext ==
  ASSUME PacingTypeOK, NEW n \in Nat
  PROVE  /\ Expected(n + 1) = Expected(n) + FrameMs
         /\ Expected(0) = start_ms
         /\ Expected(n) \in Nat /\ Expected(n + 1) \in Nat
<1>1. start_ms \in Nat /\ FrameMs \in Nat
  BY PacingAssumption DEF PacingTypeOK
<1>2. (n + 1) * FrameMs = n * FrameMs + FrameMs /\ n * FrameMs \in Nat /\ 0 * FrameMs = 0
  BY <1>1
<1> QED
  BY <1>1, <1>2 DEF Expected

LEMMA LatestBounds ==
  ASSUME PacingTypeOK
  PROVE  /\ Latest \in Nat /\ Expected(heard) \in Nat
         /\ Expected(heard) <= Latest /\ Latest <= Expected(heard) + Poll
         /\ heard > 0 => Latest = Expected(heard)
<1>1. heard \in Nat /\ start_ms \in Nat /\ Poll \in Nat
  BY Periods, PacingAssumption DEF PacingTypeOK
<1>2. Expected(heard) \in Nat /\ Expected(0) = start_ms
  BY <1>1, ExpectedNext
<1> QED
  BY <1>1, <1>2 DEF Latest

-----------------------------------------------------------------------------
(* A turn of the loop that is in time *)

LEMMA NothingLate ==
  ASSUME NEW s \in Seq(Entry), NEW limit,
         s = <<>> \/ ~(now - Expected(s[1].idx) > limit)
  PROVE  DropLate(s, limit) = s
<1> DEFINE late == {i \in DOMAIN s : \A j \in 1..i : now - Expected(s[j].idx) > limit}
<1>1. Len(s) \in Nat /\ DOMAIN s = 1..Len(s) /\ (s = <<>> => Len(s) = 0)
  BY SeqItems
<1>2. late = {}
  <2> SUFFICES ASSUME NEW i \in late
               PROVE  FALSE
    OBVIOUS
  <2>1. i \in 1..Len(s) /\ 1 \in 1..i
    BY <1>1
  <2> QED
    BY <1>1, <2>1
<1>3. DropLate(s, limit) = SubSeq(s, Cardinality(late) + 1, Len(s))
  BY DEF DropLate
<1> HIDE DEF late
<1>4. Cardinality(late) = 0
  BY <1>2, FS_EmptySet
<1>5. DropLate(s, limit) = SubSeq(s, 1, Len(s))
  BY <1>3, <1>4
<1> QED
  BY <1>1, <1>5, SubSeqFull

LEMMA NothingDropped ==
  ASSUME PacingTypeOK, Patience,
         q # <<>> => now <= Expected(q[1].idx) + Poll
  PROVE  Kept = q
<1>1. q \in Seq(Entry) /\ now \in Nat
  BY PacingAssumption DEF PacingTypeOK
<1>2. q = <<>> \/ (~(now - Expected(q[1].idx) > DiscardMs) /\ ~(now - Expected(q[1].idx) > PreserveMs))
  <2> SUFFICES ASSUME q # <<>>
               PROVE  ~(now - Expected(q[1].idx) > DiscardMs) /\ ~(now - Expected(q[1].idx) > PreserveMs)
    OBVIOUS
  <2>1. q[1].idx \in Nat
    <3>1. q[1] \in Entry
      BY <1>1, SeqTail
    <3> QED
      BY <3>1 DEF Entry
  <2>2. Expected(q[1].idx) \in Nat
    BY <2>1, ExpectedType
  <2> QED
    BY <1>1, <2>2, Periods, PacingAssumption DEF Patience
<1>3. DropLate(q, DiscardMs) = q
  BY <1>1, <1>2, NothingLate
<1>4. DropLate(q, PreserveMs) = q
  BY <1>1, <1>2, NothingLate
<1> QED
  BY <1>3, <1>4 DEF Kept

\* Less than a frame of backlog is sent one by one.
LEMMA OneByOne ==
  ASSUME NEW b \in Nat, b < FrameMs
  PROVE  BurstFrames(b) = 1
<1>1. BurstMs \in Nat /\ FrameMs \in Nat \ {0}
  BY PacingAssumption
<1>2. Least(BurstMs, b) \in Nat /\ Least(BurstMs, b) < FrameMs
  BY <1>1 DEF Least
<1>3. Least(BurstMs, b) \div FrameMs = 0
  BY <1>1, <1>2
<1> QED
  BY <1>3, MaxBurstType DEF BurstFrames, Least, Greatest

\* A turn finds nothing, or a head that is not due yet, or takes the head alone.
LEMMA TurnInTime ==
  ASSUME PipeInv, Patience, Step, heard \in Nat,
         q # <<>> => now <= Latest,
         \A i \in DOMAIN q : q[i].idx = heard + i - 1
  PROVE  \/ q = <<>> /\ q' = <<>> /\ hand' = <<>> /\ Rest(<<>>, None)
         \/ /\ q # <<>> /\ now < Expected(heard)
            /\ q' = q /\ hand' = <<>> /\ Rest(q, Expected(heard))
         \/ /\ q # <<>> /\ Expected(heard) <= now
            /\ Len(hand') = 1 /\ hand'[1] = q[1] /\ run' = "sending"
            /\ q' \in Seq(Entry) /\ Len(q') = Len(q) - 1
            /\ \A i \in 1..Len(q) - 1 : q'[i] = q[i + 1]
            /\ wake' \in {None, Expected(heard + 1)}
<1>1. PacingTypeOK /\ q \in Seq(Entry) /\ now \in Nat
  BY PacingAssumption DEF PipeInv, PacingTypeOK
<1>2. Len(q) \in Nat /\ DOMAIN q = 1..Len(q) /\ (q # <<>> => Len(q) >= 1) /\ Len(<<>>) = 0
  BY <1>1, SeqItems
<1>3. q # <<>> => q[1].idx = heard
  BY <1>2
<1>4. Expected(heard) \in Nat /\ Latest \in Nat /\ Latest <= Expected(heard) + Poll
      /\ Poll \in Nat /\ Poll < FrameMs /\ FrameMs \in Nat
  BY <1>1, LatestBounds, Periods
<1>5. Kept = q
  <2>1. q # <<>> => now <= Expected(q[1].idx) + Poll
    BY <1>1, <1>3, <1>4
  <2> QED
    BY <1>1, <2>1, NothingDropped
<1>6. /\ q' = _step.rest /\ hand' = _step.out /\ wake' = _step.wake
      /\ _step.out = <<>> => Rest(_step.rest, _step.wake)
      /\ _step.out # <<>> => run' = "sending"
  BY DEF Step
<1>7. SubSeq(q, 1, 0) = <<>> /\ SubSeq(q, 1, Len(q)) = q
  <2>1. 0 \in 0..Len(q)
    BY <1>2
  <2>2. SubSeq(q, 1, 0) \in Seq(Entry) /\ Len(SubSeq(q, 1, 0)) = 0
    BY <1>1, <2>1, SeqFront
  <2> QED
    BY <1>1, <1>2, <2>2, EmptySeq, SubSeqFull
<1>8. CASE q = <<>>
  <2>1. _step = Taking(0)
    BY <1>5, <1>8 DEF _step
  <2>2. _step.out = <<>> /\ _step.rest = <<>> /\ _step.wake = None
    BY <1>2, <1>5, <1>7, <1>8, <2>1 DEF Taking
  <2> QED
    BY <1>6, <1>8, <2>2
<1>9. CASE q # <<>> /\ now < Expected(heard)
  <2>1. now - Expected(Kept[1].idx) < 0
    BY <1>1, <1>3, <1>4, <1>5, <1>9
  <2>2. _step = Taking(0)
    BY <2>1 DEF _step
  <2>3. 0 # Len(q) /\ 0 + 1 = 1
    BY <1>2, <1>9
  <2>4. _step.out = <<>> /\ _step.rest = q /\ _step.wake = Expected(heard)
    BY <1>3, <1>5, <1>7, <1>9, <2>2, <2>3 DEF Taking
  <2> QED
    BY <1>6, <1>9, <2>4
<1>10. CASE q # <<>> /\ Expected(heard) <= now
  <2> DEFINE b == now - Expected(Kept[1].idx)
             m == Least(BurstFrames(b), Len(Kept))
             due == {i \in 1..m : Expected(Kept[i].idx) <= now}
  <2>1. b \in Nat /\ b < FrameMs /\ ~(b < 0)
    BY <1>1, <1>3, <1>4, <1>5, <1>10
  <2>2. _step = Taking(Cardinality(due))
    BY <1>5, <1>10, <2>1 DEF _step
  <2>3. m = 1
    BY <1>2, <1>5, <1>10, <2>1, OneByOne DEF Least
  <2> HIDE DEF b, m
  <2>4. due = {1}
    <3>1. 1..m = {1}
      BY <2>3
    <3>2. Expected(Kept[1].idx) <= now
      BY <1>3, <1>5, <1>10
    <3> QED
      BY <3>1, <3>2
  <2> HIDE DEF due
  <2>5. _step = Taking(1)
    BY <2>2, <2>4, FS_Singleton
  <2>6. 1 \in 0..Len(q) /\ 1 + 1 = 2
    BY <1>2, <1>10
  <2>7. /\ _step.out = SubSeq(q, 1, 1) /\ _step.rest = SubSeq(q, 1 + 1, Len(q))
        /\ _step.wake = IF 1 = Len(q) THEN None ELSE Expected(q[1 + 1].idx)
    BY <1>5, <2>5 DEF Taking
  <2>8. /\ Len(SubSeq(q, 1, 1)) = 1 /\ \A i \in 1..1 : SubSeq(q, 1, 1)[i] = q[i]
        /\ SubSeq(q, 1 + 1, Len(q)) \in Seq(Entry)
        /\ Len(SubSeq(q, 1 + 1, Len(q))) = Len(q) - 1
        /\ \A i \in 1..Len(q) - 1 : SubSeq(q, 1 + 1, Len(q))[i] = q[i + 1]
    BY <1>1, <2>6, SeqFront, SeqBack
  <2>9. _step.out # <<>>
    BY <1>2, <2>7, <2>8
  <2>10. _step.wake \in {None, Expected(heard + 1)}
    <3>1. CASE 1 = Len(q)
      BY <2>7, <3>1
    <3>2. CASE 1 # Len(q)
      <4>1. 2 \in DOMAIN q
        BY <1>2, <1>10, <3>2
      <4>2. q[2].idx = heard + 1
        BY <4>1
      <4> QED
        BY <2>6, <2>7, <3>2, <4>2
    <3> QED
      BY <3>1, <3>2
  <2>11. 1 \in 1..1
    OBVIOUS
  <2> QED
    BY <1>6, <1>10, <2>7, <2>8, <2>9, <2>10, <2>11
<1> QED
  BY <1>1, <1>4, <1>8, <1>9, <1>10

-----------------------------------------------------------------------------
(* The producer *)

\* A producer that blocks has filled the queue.
LEMMA BlocksWhenFull ==
  ASSUME PipeInv, ProducerBegins \/ Pull \/ Submit
  PROVE  prod' = "full" => retry' = now + Half /\ q' # <<>>
<1> SUFFICES ASSUME prod' = "full"
             PROVE  retry' = now + Half /\ q' # <<>>
  OBVIOUS
<1>1. PICK batch, rest : Produce(batch, rest) /\ Feeding(batch, rest)
  BY ProducerFeeding
<1> DEFINE frames == Frames(batch)
           fit == Least(Len(frames), QueueMax - Len(q))
<1>2. frames \in Seq(1..MaxFrame)
  BY <1>1, BatchFrames
<1>3. q \in Seq(Entry) /\ Len(q) <= QueueMax /\ next_idx \in Nat
  BY DEF PipeInv, PacingTypeOK
<1>4. Len(frames) \in Nat /\ Len(q) \in Nat /\ QueueMax \in Nat \ {0}
  BY <1>2, <1>3, SeqItems, PacingAssumption
<1>5. /\ q' = q \o [i \in 1..fit |-> [idx |-> next_idx + i - 1, frame |-> frames[i]]]
      /\ fit < Len(frames) /\ retry' = now + FrameMs \div 2
  BY <1>1 DEF Produce
<1>6. fit = QueueMax - Len(q) /\ fit \in 0..Len(frames)
  BY <1>3, <1>4, <1>5 DEF Least
<1> HIDE DEF fit, frames
<1>7. Len(q') = Len(q) + fit
  BY <1>2, <1>3, <1>5, <1>6, QueueGrows
<1>8. Len(q') = QueueMax
  BY <1>4, <1>6, <1>7
<1>9. Len(<<>>) = 0
  OBVIOUS
<1>10. q' # <<>>
  BY <1>4, <1>8, <1>9
<1> QED
  BY <1>5, <1>10 DEF Half

\* A producer that waits for more has nothing pending; a file's never does.
LEMMA WaitsWhenEmpty ==
  ASSUME PipeInv, kind = "file", ProducerBegins \/ Pull \/ Submit
  PROVE  prod' = "get" => Len(Pending') = 0
<1> SUFFICES ASSUME prod' = "get"
             PROVE  Len(Pending') = 0
  OBVIOUS
<1>1. ~closed
  BY DEF PipeInv, EndInv, DrainInv
<1>2. \E batch : Produce(batch, <<>>)
  BY <1>1 DEF ProducerBegins, Pull, Submit
<1>3. held' = 0 /\ buffer' = <<>>
  BY <1>2 DEF Produce
<1>4. <<>> \in Seq(0..MaxFrame) /\ Len(<<>>) = 0 /\ 0 \in 0..MaxFrame
  BY PacingAssumption
<1>5. Ahead(0, <<>>) = <<>>
  BY <1>4, AheadItems
<1> QED
  BY <1>3, <1>4, <1>5 DEF Pending

LEMMA ProducerPunctual ==
  ASSUME PipeInv, PipeInv', Timed, Timed', Punctual, ProducerBegins \/ Pull \/ Submit
  PROVE  Punctual'
<1>1. PacingTypeOK /\ PacingTypeOK'
  BY DEF PipeInv
<1>2. PICK fit \in Nat, d \in Nat : Moved(fit, d)
  BY ProducerMoves
<1>3. /\ UNCHANGED <<now, lagged, kind, start_ms, run, hand, wake, alarm, heard, stop>>
      /\ next_idx' = next_idx + fit /\ Len(q') = Len(q) + fit
      /\ fit \in 0..d /\ d \in 0..Len(Pending)
      /\ \A i \in 1..fit : Pending[i] \in 1..MaxFrame
      /\ prod' \in {"full", "get", "over"}
  BY <1>2 DEF Moved, clock
<1>4. prod # "over" /\ prod # "none" /\ stop = "no"
  BY DEF ProducerBegins, Pull, Submit, Retries
<1>5. run # "none"
  BY <1>4 DEF PipeInv, EndInv, DrainInv
<1>6. /\ now \in Nat /\ next_idx \in Nat /\ heard \in Nat /\ alarm \in Nat /\ retry \in Nat
      /\ MaxFrame \in Nat /\ start_ms \in Nat
  BY <1>1, PacingAssumption DEF PacingTypeOK
<1>7. Len(q) \in Nat /\ Len(hand) \in Nat /\ Len(Pending) \in Nat
      /\ DOMAIN Pending = 1..Len(Pending)
  BY <1>1, QueueNow, PendingNow
<1>8. ASSUME kind = "file"
      PROVE  next_idx' <= MaxFrame
  <2>1. next_idx <= MaxFrame
    BY <1>8 DEF Punctual
  <2>2. CASE fit = 0
    BY <1>3, <1>6, <2>1, <2>2
  <2>3. CASE fit # 0
    <3>1. fit \in 1..fit /\ fit \in DOMAIN Pending
      BY <1>3, <1>7, <2>3
    <3>2. Pending[fit] = IF next_idx + fit = MaxFrame + 1 THEN End ELSE next_idx + fit
      BY <1>4, <1>8, <3>1 DEF Timed, FileInv
    <3>3. Pending[fit] \in 1..MaxFrame
      BY <1>3, <3>1
    <3>4. Pending[fit] = next_idx + fit
      BY <3>2, <3>3 DEF End
    <3> QED
      BY <1>3, <1>6, <3>3, <3>4
  <2> QED
    BY <2>2, <2>3
<1>9. \A n : Expected(n)' = Expected(n)
  BY <1>3 DEF Expected
<1>10. Latest' = Latest
  BY <1>3 DEF Latest, Expected
<1>11. ASSUME kind = "file", ~lagged, SendingInTime, LoopInTime
       PROVE  LoopInTime'
  <2>1. next_idx = heard + Len(hand) + Len(q)
    BY <1>11 DEF LoopInTime
  <2>2. next_idx' = heard' + Len(hand') + Len(q')
    BY <1>3, <1>6, <1>7, <2>1
  <2>3. ASSUME NEW i \in DOMAIN q'
        PROVE  q'[i].idx = heard' + Len(hand') + i - 1
    <3>1. CASE i \in DOMAIN q /\ q'[i] = q[i]
      BY <1>3, <1>11, <3>1 DEF LoopInTime
    <3>2. ASSUME NEW j \in 1..fit, i = Len(q) + j, q'[i].idx = next_idx + j - 1
          PROVE  q'[i].idx = heard' + Len(hand') + i - 1
      BY <1>3, <1>6, <1>7, <2>1, <3>2
    <3> QED
      BY <1>2, <3>1, <3>2, MovedEntries
  <2>4. prod' # "get"
    <3> SUFFICES ASSUME prod' = "get"
                 PROVE  FALSE
      OBVIOUS
    <3>1. Len(Pending') = 0
      BY <1>11, WaitsWhenEmpty
    <3>2. Len(Pending') + next_idx' = MaxFrame + 1
      BY <1>3, <1>11 DEF Timed, FileInv
    <3> QED
      BY <1>3, <1>6, <1>8, <1>11, <3>1, <3>2
  <2>5. prod' = "full" => retry' = now + Half /\ q' # <<>>
    BY BlocksWhenFull
  <2>6. prod' = "full" => now' <= retry' /\ retry' <= now' + Half
    BY <1>3, <1>6, <2>5, Periods
  <2>7. q' = <<>> => q = <<>>
    <3>1. Len(<<>>) = 0 /\ q \in Seq(Entry)
      BY <1>1 DEF PacingTypeOK
    <3>2. q' = <<>> => Len(q) = 0
      BY <1>3, <1>7, <3>1
    <3> QED
      BY <3>1, <3>2, EmptySeq
  <2>8. ASSUME run = "loop", q' # <<>>
        PROVE  alarm <= Latest
    <3>1. CASE q # <<>>
      BY <1>11, <2>8, <3>1 DEF LoopInTime
    <3>2. CASE q = <<>>
      <4>1. alarm <= now + Poll /\ Poll \in Nat
        BY <1>11, <2>8, <3>2, Periods DEF LoopInTime
      <4>2. CASE prod = "new"
        <5>1. now = start_ms /\ next_idx = 0
          BY <1>11, <4>2 DEF LoopInTime
        <5>2. heard = 0
          BY <1>6, <1>7, <2>1, <5>1
        <5> QED
          BY <4>1, <5>1, <5>2 DEF Latest
      <4>3. CASE prod = "full"
        <5>1. /\ heard > 0 /\ retry <= Expected(heard - 1) + Poll + Half
              /\ now <= retry
          BY <1>11, <2>8, <3>2, <4>3 DEF LoopInTime
        <5>2. heard - 1 \in Nat /\ (heard - 1) + 1 = heard
          BY <1>6, <5>1
        <5>3. Expected(heard) = Expected(heard - 1) + FrameMs /\ Expected(heard - 1) \in Nat
          BY <1>1, <5>2, ExpectedNext
        <5>4. Latest = Expected(heard)
          BY <1>1, <5>1, LatestBounds
        <5>5. alarm <= Expected(heard - 1) + Poll + Half + Poll
          BY <1>6, <4>1, <5>1, <5>3, Periods
        <5> QED
          BY <1>6, <5>3, <5>4, <5>5, Periods
      <4> QED
        BY <1>4, <1>11, <4>2, <4>3 DEF LoopInTime
    <3> QED
      BY <3>1, <3>2
  <2>9. run = "loop" => now <= alarm /\ (q = <<>> => alarm <= now + Poll)
    BY <1>11 DEF LoopInTime
  <2>10. run = "sending" => wake \in {None, Expected(heard + 1)}
    BY <1>11 DEF LoopInTime
  <2>11. /\ prod' \in {"new", "full", "over"} /\ prod' # "new"
         /\ Poll' = Poll /\ Half' = Half /\ Expected(heard + 1)' = Expected(heard + 1)
    BY <1>3, <1>9, <2>4 DEF Poll, Half
  <2>12. run' = "loop" =>
           /\ now' <= alarm'
           /\ q' = <<>> => alarm' <= now' + Poll
           /\ q' # <<>> => alarm' <= Latest'
           /\ ~(q' = <<>> /\ prod' = "full")
    BY <1>3, <1>10, <2>5, <2>7, <2>8, <2>9
  <2>13. run' = "sending" => wake' \in {None, Expected(heard + 1)'}
    BY <1>3, <2>10, <2>11
  <2> QED
    BY <1>3, <2>2, <2>3, <2>6, <2>11, <2>12, <2>13 DEF LoopInTime
<1>12. SendingInTime => SendingInTime'
  BY <1>3, <1>10 DEF SendingInTime
<1> QED
  BY <1>3, <1>5, <1>8, <1>11, <1>12 DEF Punctual, Runs

-----------------------------------------------------------------------------
(* The loop *)

\* What Rest sets, when the next frame is due at w at the earliest.
LEMMA RestInTime ==
  ASSUME PacingTypeOK, NEW queue, NEW w, Rest(queue, w), run' = "loop",
         w = None \/ (w \in Nat /\ now <= w)
  PROVE  /\ now <= alarm' /\ alarm' \in Nat
         /\ queue = <<>> => alarm' = now + Poll /\ prod # "over"
         /\ queue # <<>> /\ w # None => alarm' <= w
         /\ queue # <<>> /\ w = None => alarm' = now
<1>1. now \in Nat /\ FrameMs \in Nat /\ Poll \in Nat /\ None \notin Nat
  BY Periods, PacingAssumption DEF PacingTypeOK, None
<1>2. /\ ~Drained(queue)
      /\ alarm' = IF queue = <<>> THEN now + Poll
                  ELSE IF w = None THEN now
                  ELSE now + Greatest(0, Least(w - now, FrameMs))
  BY DEF Rest
<1>3. CASE queue = <<>>
  BY <1>1, <1>2, <1>3 DEF Drained
<1>4. CASE queue # <<>> /\ w = None
  BY <1>1, <1>2, <1>4
<1>5. CASE queue # <<>> /\ w # None
  <2>1. w \in Nat /\ now <= w
    BY <1>5
  <2>2. alarm' = now + Greatest(0, Least(w - now, FrameMs))
    BY <1>2, <1>5
  <2> QED
    BY <1>1, <1>5, <2>1, <2>2 DEF Greatest, Least
<1> QED
  BY <1>3, <1>4, <1>5

LEMMA StepPunctual ==
  ASSUME PipeInv, PipeInv', Timed', Patience, Punctual, Step
  PROVE  Punctual'
<1>1. PacingTypeOK /\ PacingTypeOK'
  BY DEF PipeInv
<1>2. /\ UNCHANGED <<now, lagged, kind, prod, retry, next_idx, start_ms, heard, stop>>
      /\ run = "loop" /\ active
  BY DEF Step, clock, feeder
<1>3. hand = <<>> /\ stop = "no" /\ run' # "none"
  <2>1. run' \in {"sending", "loop", "over"}
    BY DEF Step, Rest
  <2> QED
    BY <1>2, <2>1 DEF PipeInv, EndInv, DrainInv, StopInv
<1>4. /\ now \in Nat /\ heard \in Nat /\ alarm \in Nat /\ Latest \in Nat
      /\ Expected(heard) \in Nat /\ Latest <= Expected(heard) + Poll /\ Poll \in Nat
      /\ Expected(heard) <= Latest
  BY <1>1, LatestBounds, Periods, PacingAssumption DEF PacingTypeOK
<1>5. Len(q) \in Nat /\ DOMAIN q = 1..Len(q) /\ Len(hand) = 0 /\ Len(<<>>) = 0
  BY <1>1, <1>3, QueueNow
<1>6. Latest' = Latest /\ \A n : Expected(n)' = Expected(n)
  BY <1>2 DEF Latest, Expected
<1>7. SUFFICES ASSUME kind = "file", ~lagged, LoopInTime
               PROVE  SendingInTime' /\ (run' \in {"loop", "sending"} => LoopInTime')
  BY <1>2, <1>3 DEF Punctual, Runs
<1>8. /\ prod \in {"new", "full", "over"}
      /\ prod = "new" => now = start_ms /\ next_idx = 0
      /\ next_idx = heard + Len(q)
      /\ \A i \in DOMAIN q : q[i].idx = heard + i - 1
      /\ prod = "full" => now <= retry /\ retry <= now + Half
      /\ now <= alarm
      /\ q # <<>> => now <= Latest
      /\ q = <<>> /\ prod = "full" =>
           heard > 0 /\ retry <= Expected(heard - 1) + Poll + Half
  <2>1. q # <<>> => now <= Latest
    BY <1>2, <1>4, <1>7 DEF LoopInTime
  <2>2. next_idx = heard + Len(q)
    BY <1>4, <1>5, <1>7 DEF LoopInTime
  <2>3. \A i \in DOMAIN q : q[i].idx = heard + i - 1
    <3>1. heard + Len(hand) = heard
      BY <1>4, <1>5
    <3>2. \A i \in DOMAIN q : q[i].idx = heard + Len(hand) + i - 1
      BY <1>7 DEF LoopInTime
    <3> QED
      BY <3>1, <3>2
  <2> QED
    BY <1>2, <1>7, <2>1, <2>2, <2>3 DEF LoopInTime
<1>9. CASE q = <<>> /\ q' = <<>> /\ hand' = <<>> /\ Rest(<<>>, None)
  <2>1. run' \in {"loop", "over"}
    BY <1>9 DEF Rest
  <2>2. run' = "loop" => now <= alarm' /\ alarm' = now + Poll
    BY <1>1, <1>9, RestInTime
  <2>3. run' = "loop" => LoopInTime'
    BY <1>2, <1>4, <1>5, <1>6, <1>8, <1>9, <2>2 DEF LoopInTime, Poll, Half, Expected
  <2> QED
    BY <2>1, <2>3 DEF SendingInTime
<1>10. CASE /\ q # <<>> /\ now < Expected(heard)
            /\ q' = q /\ hand' = <<>> /\ Rest(q, Expected(heard))
  <2>1. run' \in {"loop", "over"}
    BY <1>10 DEF Rest
  <2>2. Expected(heard) # None
    BY <1>4 DEF None
  <2>3. run' = "loop" => now <= alarm' /\ alarm' <= Expected(heard)
    <3>1. now <= Expected(heard)
      BY <1>4, <1>10
    <3> QED
      BY <1>1, <1>4, <1>10, <2>2, <3>1, RestInTime
  <2>4. run' = "loop" => now <= alarm' /\ alarm' <= Latest
    <3>1. alarm' \in Nat
      BY <1>1 DEF PacingTypeOK
    <3> QED
      BY <1>4, <2>3, <3>1
  <2>5. run' = "loop" => LoopInTime'
    BY <1>2, <1>3, <1>4, <1>5, <1>6, <1>7, <1>8, <1>10, <2>4 DEF LoopInTime, Poll, Half, Expected
  <2> QED
    BY <2>1, <2>5 DEF SendingInTime
<1>11. CASE /\ q # <<>> /\ Expected(heard) <= now
            /\ Len(hand') = 1 /\ hand'[1] = q[1] /\ run' = "sending"
            /\ q' \in Seq(Entry) /\ Len(q') = Len(q) - 1
            /\ \A i \in 1..Len(q) - 1 : q'[i] = q[i + 1]
            /\ wake' \in {None, Expected(heard + 1)}
  <2>1. DOMAIN q' = 1..Len(q')
    BY <1>11, SeqItems
  <2>2. next_idx' = heard' + Len(hand') + Len(q')
    BY <1>2, <1>4, <1>5, <1>8, <1>11
  <2>3. ASSUME NEW i \in DOMAIN q'
        PROVE  q'[i].idx = heard' + Len(hand') + i - 1
    <3>1. i \in 1..Len(q) - 1 /\ i + 1 \in DOMAIN q
      BY <1>5, <1>11, <2>1
    <3>2. q'[i] = q[i + 1] /\ q[i + 1].idx = heard + (i + 1) - 1
      BY <1>8, <1>11, <3>1
    <3>3. heard' = heard /\ Len(hand') = 1 /\ i \in Nat
      BY <1>2, <1>11, <2>1
    <3> QED
      BY <1>4, <3>2, <3>3
  <2>4. hand'[1].frame = heard' + 1
    <3>1. 1 \in DOMAIN q
      BY <1>5, <1>11, <1>1, SeqItems DEF PacingTypeOK
    <3>2. q[1].idx = heard /\ q[1].frame \in Nat
      BY <1>1, <1>4, <1>8, <3>1, QueueNow, PacingAssumption
    <3>3. hand'[1].idx = hand'[1].frame - 1
      <4>1. DOMAIN hand' = 1..1
        <5>1. hand' \in Seq(Entry)
          BY <1>1 DEF PacingTypeOK
        <5> QED
          BY <1>11, <5>1, SeqItems
      <4> QED
        BY <1>2, <1>7, <4>1 DEF Timed, InPlace
    <3> QED
      BY <1>2, <1>4, <1>11, <3>2, <3>3
  <2>5. SendingInTime'
    BY <1>2, <1>6, <1>8, <1>11, <2>4 DEF SendingInTime
  <2>6. LoopInTime'
    <3>1. prod' \in {"new", "full", "over"} /\ (prod' = "new" => now' = start_ms' /\ next_idx' = 0)
          /\ (prod' = "full" => now' <= retry' /\ retry' <= now' + Half')
      BY <1>2, <1>8 DEF Half
    <3>2. wake' \in {None, Expected(heard + 1)'} /\ run' = "sending" /\ heard' = heard
      BY <1>2, <1>6, <1>11
    <3>3. run' # "loop"
      BY <3>2
    <3> QED
      BY <2>2, <2>3, <3>1, <3>2, <3>3 DEF LoopInTime
  <2> QED
    BY <2>5, <2>6
<1> QED
  BY <1>4, <1>8, <1>9, <1>10, <1>11, TurnInTime

LEMMA SendPunctual ==
  ASSUME PipeInv, PipeInv', OrderInv, Punctual, SendFrame
  PROVE  Punctual'
<1>1. PacingTypeOK /\ PacingTypeOK'
  BY DEF PipeInv
<1>2. /\ UNCHANGED <<now, lagged, kind, prod, retry, next_idx, start_ms, q, wake, stop>>
      /\ run = "sending"
  BY DEF SendFrame, clock, feeder
<1>3. /\ hand # <<>> /\ heard' = hand[1].frame /\ hand' = Tail(hand)
      /\ Len(hand) \in Nat /\ hand' \in Seq(Entry) /\ Len(hand') = Len(hand) - 1
  BY SendTakes
<1>4. run' # "none"
  BY <1>2 DEF SendFrame, Rest
<1>5. SUFFICES ASSUME kind = "file", ~lagged
               PROVE  SendingInTime' /\ (stop = "no" /\ run' \in {"loop", "sending"} => LoopInTime')
  BY <1>2, <1>4 DEF Punctual, Runs
<1>6. /\ now \in Nat /\ heard \in Nat /\ retry \in Nat /\ Latest \in Nat
      /\ Expected(heard) \in Nat /\ Latest <= Expected(heard) + Poll /\ Poll \in Nat
      /\ Half \in Nat /\ Poll < FrameMs /\ FrameMs \in Nat
      /\ Expected(heard + 1) = Expected(heard) + FrameMs /\ Expected(heard + 1) \in Nat
  BY <1>1, LatestBounds, Periods, ExpectedNext, PacingAssumption DEF PacingTypeOK
<1>7. Len(hand) = 1 /\ hand[1].frame = heard + 1 /\ now <= Latest
  BY <1>2, <1>5 DEF Punctual, SendingInTime
<1>8. hand' = <<>> /\ Len(hand') = 0 /\ heard' = heard + 1
  <2>1. Len(hand') = 0
    BY <1>3, <1>7
  <2> QED
    BY <1>3, <1>7, <2>1, EmptySeq
<1>9. Rest(q, wake)
  BY <1>3, <1>8 DEF SendFrame
<1>10. run' \in {"loop", "over"}
  BY <1>9 DEF Rest
<1>11. ASSUME stop = "no", run' = "loop"
       PROVE  LoopInTime'
  <2>1. LoopInTime
    BY <1>2, <1>5, <1>11 DEF Punctual, Runs
  <2>2. /\ prod \in {"new", "full", "over"}
        /\ prod = "new" => now = start_ms /\ next_idx = 0
        /\ next_idx = heard + Len(hand) + Len(q)
        /\ \A i \in DOMAIN q : q[i].idx = heard + Len(hand) + i - 1
        /\ prod = "full" => now <= retry /\ retry <= now + Half
        /\ wake \in {None, Expected(heard + 1)}
    BY <1>2, <2>1 DEF LoopInTime
  <2>3. now <= Expected(heard + 1)
    BY <1>6, <1>7
  <2>4. heard + Len(hand) = heard' + Len(hand')
    BY <1>6, <1>7, <1>8
  <2>5. None \notin Nat
    BY DEF None
  <2>6. /\ now <= alarm' /\ alarm' \in Nat
        /\ q = <<>> => alarm' = now + Poll
        /\ q # <<>> => alarm' <= Expected(heard + 1)
    <3>1. wake = None \/ (wake \in Nat /\ now <= wake)
      BY <1>6, <2>2, <2>3
    <3>2. /\ now <= alarm' /\ alarm' \in Nat
          /\ q = <<>> => alarm' = now + Poll
          /\ q # <<>> /\ wake # None => alarm' <= wake
          /\ q # <<>> /\ wake = None => alarm' = now
      BY <1>1, <1>9, <1>11, <3>1, RestInTime
    <3> QED
      BY <2>2, <2>3, <3>2
  <2>7. Latest' = Expected(heard + 1)
    <3>1. heard' = heard + 1 /\ heard' # 0 /\ start_ms' = start_ms
      BY <1>2, <1>6, <1>8
    <3> QED
      BY <3>1 DEF Latest, Expected
  <2>8. prod = "full" => heard' > 0 /\ retry <= Expected(heard) + Poll + Half
    BY <1>6, <1>7, <1>8, <2>2
  <2>9. Poll' = Poll /\ Half' = Half
    BY DEF Poll, Half
  <2>10. /\ prod' \in {"new", "full", "over"}
         /\ prod' = "new" => now' = start_ms' /\ next_idx' = 0
         /\ prod' = "full" => now' <= retry' /\ retry' <= now' + Half'
    BY <1>2, <2>2, <2>9
  <2>11. /\ next_idx' = heard' + Len(hand') + Len(q')
         /\ \A i \in DOMAIN q' : q'[i].idx = heard' + Len(hand') + i - 1
    BY <1>2, <2>2, <2>4
  <2>12. Expected(heard - 1)' = Expected(heard)
    <3>1. heard' - 1 = heard /\ start_ms' = start_ms
      BY <1>2, <1>6, <1>8
    <3> QED
      BY <3>1 DEF Expected
  <2>13. /\ now' <= alarm'
         /\ q' = <<>> => alarm' <= now' + Poll'
         /\ q' # <<>> => alarm' <= Latest'
         /\ q' = <<>> /\ prod' = "full" =>
              heard' > 0 /\ retry' <= Expected(heard - 1)' + Poll' + Half'
    BY <1>2, <1>6, <2>6, <2>7, <2>8, <2>9, <2>12
  <2> QED
    BY <1>11, <2>10, <2>11, <2>13 DEF LoopInTime
<1> QED
  BY <1>10, <1>11 DEF SendingInTime

-----------------------------------------------------------------------------
(* The other steps *)

\* A step that leaves the clock and the frames alone keeps what is punctual.
LEMMA IdlePunctual ==
  ASSUME Punctual, UNCHANGED <<now, lagged, kind, start_ms, next_idx, heard, run>>,
         q' = q \/ (q' = <<>> /\ run # "none"), UNCHANGED hand,
         stop' # "no" \/ UNCHANGED <<q, prod, retry, wake, alarm, stop>>
  PROVE  Punctual'
<1>1. run' = "none" => heard' = 0 /\ q' = <<>> /\ next_idx' = 0
  BY DEF Punctual
<1>2. kind' = "file" => next_idx' <= MaxFrame
  BY DEF Punctual
<1>3. SendingInTime => SendingInTime'
  BY DEF SendingInTime, Latest, Expected
<1>4. Runs' /\ (Runs => LoopInTime) => LoopInTime'
  <2> SUFFICES ASSUME Runs', Runs => LoopInTime
               PROVE  LoopInTime'
    OBVIOUS
  <2>1. UNCHANGED <<q, prod, retry, wake, alarm, stop>>
    BY DEF Runs
  <2>2. LoopInTime
    BY <2>1 DEF Runs
  <2> QED
    BY <2>1, <2>2 DEF LoopInTime, Latest, Expected, Poll, Half
<1> QED
  BY <1>1, <1>2, <1>3, <1>4 DEF Punctual

\* submit() sleeps again because the queue is still full, hence not empty.
LEMMA SleepAgainPunctual ==
  ASSUME PipeInv, Punctual, SleepAgain
  PROVE  Punctual'
<1>1. /\ UNCHANGED <<now, lagged, kind, start_ms, next_idx, heard, run, q, hand, prod,
                     wake, alarm, stop>>
      /\ prod = "full" /\ retry' = now + Half /\ Len(q) = QueueMax
  BY DEF SleepAgain, Retries, clock, engine, Half
<1>2. q # <<>> /\ now \in Nat /\ Half \in Nat
  <2>1. Len(<<>>) = 0
    OBVIOUS
  <2> QED
    BY <1>1, <2>1, Periods, PacingAssumption DEF PipeInv, PacingTypeOK
<1>3. SendingInTime => SendingInTime'
  BY <1>1 DEF SendingInTime, Latest, Expected
<1>4. LoopInTime => LoopInTime'
  <2> SUFFICES ASSUME LoopInTime
               PROVE  LoopInTime'
    OBVIOUS
  <2>1. now' <= retry' /\ retry' <= now' + Half'
    BY <1>1, <1>2 DEF Half
  <2>2. q' # <<>> /\ prod' = "full"
    BY <1>1, <1>2
  <2> QED
    BY <1>1, <2>1, <2>2 DEF LoopInTime, Latest, Expected, Poll, Half
<1> QED
  BY <1>1, <1>3, <1>4 DEF Punctual, Runs

\* The timeline begins now, with nothing queued.
LEMMA StartPunctual ==
  ASSUME PipeInv, Punctual, Start
  PROVE  Punctual'
<1>1. /\ UNCHANGED <<now, lagged, kind, next_idx, heard, q, hand>>
      /\ run' = "loop" /\ prod' = "new" /\ alarm' = now /\ start_ms' = now
      /\ run = "none"
  BY DEF Start, clock
<1>2. heard = 0 /\ q = <<>> /\ next_idx = 0 /\ hand = <<>>
  BY <1>1 DEF Punctual, PipeInv, EndInv, DrainInv
<1>3. Len(q) = 0 /\ Len(hand) = 0 /\ DOMAIN q = {}
  BY <1>2
<1>4. now \in Nat /\ Poll \in Nat
  BY Periods, PacingAssumption DEF PipeInv, PacingTypeOK
<1>5. LoopInTime'
  <2>1. next_idx' = heard' + Len(hand') + Len(q') /\ DOMAIN q' = {}
    BY <1>1, <1>2, <1>3
  <2>2. now' <= alarm' /\ alarm' <= now' + Poll'
    BY <1>1, <1>4 DEF Poll
  <2> QED
    BY <1>1, <1>2, <2>1, <2>2 DEF LoopInTime
<1> QED
  BY <1>1, <1>5 DEF Punctual, SendingInTime

\* A clock that goes on while nobody is due passes no alarm.
LEMMA TickPunctual ==
  ASSUME PipeInv, Punctual, Tick
  PROVE  Punctual'
<1>1. /\ UNCHANGED <<kind, start_ms, next_idx, heard, run, q, hand, prod, retry, wake,
                     alarm, stop>>
      /\ now' = now + 1 /\ lagged' = (lagged \/ Due)
  BY DEF Tick, feeder, engine
<1>2. SUFFICES ASSUME ~lagged, ~Due, kind = "file"
               PROVE  SendingInTime' /\ (Runs' => LoopInTime')
  <2>1. ~lagged' => ~lagged /\ ~Due
    BY <1>1
  <2> QED
    BY <1>1, <1>2, <2>1 DEF Punctual
<1>3. /\ run # "sending" /\ prod # "new"
      /\ run = "loop" => ~(now >= alarm)
      /\ prod = "full" => ~(now >= retry)
  BY <1>2 DEF Due, Rings
<1>4. now \in Nat /\ alarm \in Nat /\ retry \in Nat /\ Poll \in Nat /\ Half \in Nat
  BY Periods, PacingAssumption DEF PipeInv, PacingTypeOK
<1>5. Runs' => LoopInTime'
  <2> SUFFICES ASSUME Runs'
               PROVE  LoopInTime'
    OBVIOUS
  <2>1. LoopInTime /\ run = "loop"
    BY <1>1, <1>2, <1>3 DEF Runs, Punctual
  <2>2. now' <= alarm' /\ (q' = <<>> => alarm' <= now' + Poll')
    <3>1. now + 1 <= alarm /\ (q = <<>> => alarm <= now + Poll)
      BY <1>3, <1>4, <2>1 DEF LoopInTime
    <3> QED
      BY <1>1, <1>4, <3>1 DEF Poll
  <2>3. prod' = "full" => now' <= retry' /\ retry' <= now' + Half'
    <3>1. prod = "full" => now + 1 <= retry /\ retry <= now + Half
      BY <1>3, <1>4, <2>1 DEF LoopInTime
    <3> QED
      BY <1>1, <1>4, <3>1 DEF Half
  <2>4. prod' # "new" /\ run' # "sending" /\ Latest' = Latest
    BY <1>1, <1>3 DEF Latest, Expected, Poll
  <2>5. Expected(heard - 1)' = Expected(heard - 1) /\ Poll' = Poll /\ Half' = Half
    BY <1>1 DEF Expected, Poll, Half
  <2> QED
    BY <1>1, <2>1, <2>2, <2>3, <2>4, <2>5 DEF LoopInTime
<1> QED
  BY <1>1, <1>3, <1>5 DEF SendingInTime

LEMMA PunctualStep ==
  ASSUME PipeInv, Timed, OrderInv, Patience, Punctual, [Next]_vars
  PROVE  Punctual'
<1>1. PipeInv' /\ Timed'
  BY PipeStep, TimedStep
<1>2. CASE ProducerBegins \/ Pull \/ Submit
  BY <1>1, <1>2, ProducerPunctual
<1>3. CASE Step
  BY <1>1, <1>3, StepPunctual
<1>4. CASE SendFrame
  BY <1>1, <1>4, SendPunctual
<1>5. CASE SleepAgain
  BY <1>5, SleepAgainPunctual
<1>6. CASE Start
  BY <1>6, StartPunctual
<1>7. CASE Tick
  BY <1>7, TickPunctual
<1>8. CASE Receive \/ Close
  <2>1. /\ UNCHANGED <<kind, run, heard, q, next_idx>>
        /\ kind = "studio"
    BY <1>8 DEF Receive, Close, engine
  <2> QED
    BY <2>1 DEF Punctual
<1>9. CASE Quit
  <2>1. /\ UNCHANGED <<now, lagged, kind, next_idx, start_ms, heard, stop>>
        /\ run = "loop" /\ ~active /\ run' = "over"
    BY <1>9 DEF Quit, clock, feeder
  <2> QED
    BY <2>1 DEF Punctual, SendingInTime, Runs
<1>10. CASE Stop
  <2>1. /\ UNCHANGED <<now, lagged, kind, next_idx, start_ms, heard, run, hand>>
        /\ q' = <<>> /\ run # "none" /\ stop' # "no"
    BY <1>10 DEF Stop, Await, clock, feeder
  <2> QED
    BY <2>1, IdlePunctual
<1>11. CASE ProducerCancelled
  <2>1. /\ UNCHANGED <<now, lagged, kind, next_idx, start_ms, heard, run, hand, q>>
        /\ stop' # "no"
    BY <1>11 DEF ProducerCancelled, clock, engine
  <2> QED
    BY <2>1, IdlePunctual
<1>12. CASE RunCancelled
  <2>1. UNCHANGED <<kind, next_idx>> /\ run' = "over"
    BY <1>12 DEF RunCancelled, feeder
  <2> QED
    BY <2>1 DEF Punctual, SendingInTime, Runs
<1>13. CASE UNCHANGED vars
  <2>1. UNCHANGED <<now, lagged, kind, next_idx, start_ms, heard, run, hand, q, prod,
                    retry, wake, alarm, stop>>
    BY <1>13 DEF vars, clock, feeder, engine
  <2> QED
    BY <2>1, IdlePunctual
<1> QED
  BY <1>2, <1>3, <1>4, <1>5, <1>6, <1>7, <1>8, <1>9, <1>10, <1>11, <1>12, <1>13
  DEF Next, Server

LEMMA PunctualInit == Init => Punctual
<1> SUFFICES ASSUME Init
             PROVE  Punctual
  OBVIOUS
<1>1. run = "none" /\ heard = 0 /\ q = <<>> /\ next_idx = 0 /\ 0 <= MaxFrame
  BY PacingAssumption DEF Init
<1> QED
  BY <1>1 DEF Punctual, SendingInTime, Runs

\* As long as the server is not late, a file's packets are all sent, each at its
\* own time and the first at most a quarter of a frame later: neither the polling
\* of an empty queue nor a producer that sleeps for half a frame while the queue
\* is full ever makes the loop miss a packet's time.
THEOREM FileOnTime ==
  ASSUME Patience
  PROVE  Spec => OnTime
<1>1. PipeInv /\ Timed /\ OrderInv /\ Punctual /\ [Next]_vars
      => [kind = "file" /\ ~lagged /\ heard' # heard
            => /\ heard' = heard + 1
               /\ now - (start_ms + heard * FrameMs) \in 0..FrameMs \div 4]_vars
  <2> SUFFICES ASSUME PipeInv, Timed, OrderInv, Punctual, [Next]_vars,
                      kind = "file", ~lagged, heard' # heard
               PROVE  /\ heard' = heard + 1
                      /\ now - (start_ms + heard * FrameMs) \in 0..FrameMs \div 4
    OBVIOUS
  <2>1. SendFrame
    <3>1. Step \/ Receive \/ Close \/ ProducerCancelled \/ Quiet => heard' = heard
      BY DEF Step, Receive, Close, ProducerCancelled, Quiet, engine
    <3>2. (\E fit, d \in Nat : Moved(fit, d)) => heard' = heard
      BY DEF Moved
    <3> QED
      BY <3>1, <3>2, Effects
  <2>2. heard' = hand[1].frame /\ hand[1].frame = heard + 1 /\ now <= Latest
    BY <2>1, SendTakes DEF Punctual, SendingInTime, SendFrame
  <2>3. 1 \in DOMAIN hand /\ PacingTypeOK
    BY <2>1, SendTakes, QueueNow DEF PipeInv
  <2>4. heard \in Nat /\ now \in Nat
    BY <2>3, PacingAssumption DEF PacingTypeOK
  <2>5. hand[1].idx = heard
    <3>1. hand[1].idx = hand[1].frame - 1
      BY <2>3 DEF Timed, InPlace
    <3> QED
      BY <2>2, <2>4, <3>1
  <2>6. Expected(heard) <= now
    BY <2>3, <2>5 DEF OrderInv, HandOrder
  <2>7. /\ Expected(heard) \in Nat /\ Latest <= Expected(heard) + Poll
        /\ Latest \in Nat /\ Poll \in Nat
    BY <2>3, LatestBounds, Periods
  <2>8. now - Expected(heard) \in 0..Poll
    BY <2>2, <2>4, <2>6, <2>7
  <2> QED
    BY <2>2, <2>8 DEF Expected, Poll
<1>2. PipeInv /\ Timed /\ [Next]_vars => Timed'
  BY TimedStep
<1>3. PipeInv /\ Timed /\ OrderInv /\ Punctual /\ [Next]_vars => Punctual'
  BY PunctualStep
<1> QED
  BY <1>1, <1>2, <1>3, TimedInit, PunctualInit, PipeInvariant, OrderInvariant,
     PTL DEF Spec, OnTime

=============================================================================
