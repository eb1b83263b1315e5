------------------------ MODULE LiveAgreementProofs ------------------------
(***************************************************************************)
(* Theorems about what the server, its session and its devices believe of  *)
(* one another (module LiveControl).  They hold under assumptions that     *)
(* their statements name: sends that do not suspend, connections that do   *)
(* not break (the run stuck_live shows what a broken one does).            *)
(***************************************************************************)
EXTENDS LiveControlProofs

-----------------------------------------------------------------------------
(* The steps that matter to beliefs *)

\* What stop() does at once: it goes on as after a wait, or it waits.
LEMMA StopKinds ==
  ASSUME NEW t, Stop(t)
  PROVE  AfterStop(t) \/ UNCHANGED <<session, live, told, cmd>>
BY DEF Stop

\* t starts a new session and announces it to the devices T.
Opens(t, label, T, frame, src) ==
  /\ can_start_live /\ session_id < MaxSessions /\ start_live
  /\ LiveStart(t, label, T, session_id + 1, frame, src)

DeviceMoves(d) == Connect(d) \/ Heartbeat(d) \/ Lose(d) \/ Cleanup(d) \/ Leave(d)

LEMMA StepKinds ==
  ASSUME LiveTypeOK, [Next]_vars
  PROVE  \/ UNCHANGED <<session, live, told, cmd>>
         \/ \E t \in Task : AfterStop(t)
         \/ \E t \in Task, label \in {"endSend", "abortSend"} :
              LiveStop(t, label, Registered, live)
         \/ \E t \in Task : task[t].at \in Starting \cup Ending
         \/ \E q \in Request, src \in Plays : Opens(q, "startSend", Registered, Idle, src)
         \/ \E c \in Caster, frame \in Frame :
              \/ Opens(c, "castSend", Registered, frame, "feed")
              \/ \E T \in Lists : Opens(c, "castTarget", T, frame, "feed")
         \/ \E d \in Device : DeviceMoves(d)
         \/ FileStep /\ UNCHANGED <<live, told, cmd>>
<1>1. ASSUME NEW t \in Task, Stopped(t) \/ ResumeStop(t)
      PROVE  AfterStop(t) \/ task[t].at \in Starting \cup Ending
  BY <1>1 DEF Stopped, ResumeStop
<1>2. ASSUME NEW q \in Request, RequestStep(q)
      PROVE  \/ UNCHANGED <<session, live, told, cmd>>
             \/ AfterStop(q)
             \/ task[q].at \in Starting \cup Ending
             \/ \E src \in Plays : Opens(q, "startSend", Registered, Idle, src)
  BY <1>2, StopKinds
  DEF RequestStep, StartRequest, ResumeStart, StopRequest, Opens, Starting
<1>3. ASSUME NEW c \in Caster, CasterStep(c)
      PROVE  \/ UNCHANGED <<session, live, told, cmd>>
             \/ AfterStop(c)
             \/ task[c].at \in Starting \cup Ending
             \/ \E frame \in Frame :
                  \/ Opens(c, "castSend", Registered, frame, "feed")
                  \/ \E T \in Lists : Opens(c, "castTarget", T, frame, "feed")
  <2>1. CASE Admit(c)
    <3>1. session_id < MaxSessions /\ start_live /\ can_start_live
      BY <2>1 DEF Admit, MayCast
    <3>2. At("casting", session_id + 1) \in Frame
      BY <3>1, StartLiveTypes, FrameTypes DEF Label
    <3>3. \/ Opens(c, "castSend", Registered, At("casting", session_id + 1), "feed")
          \/ \E T \in Lists :
               Opens(c, "castTarget", T, At("casting", session_id + 1), "feed")
      BY <2>1, <3>1 DEF Admit, Opens
    <3> QED
      BY <3>2, <3>3
  <2>2. CASE ResumeAdmit(c) \/ HangUp(c) \/ CastEnd(c)
    BY <2>2, StopKinds DEF ResumeAdmit, HangUp, CastEnd, Starting
  <2> QED
    BY <1>3, <2>1, <2>2 DEF CasterStep
<1>4. ASSUME NEW d \in Device, DeviceStep(d)
      PROVE  \/ UNCHANGED <<session, live, told, cmd>>
             \/ AfterStop(d)
             \/ DeviceMoves(d)
  BY <1>4, StopKinds
  DEF DeviceStep, DeviceMoves, OpenAudio, ReportFailure, HandleFailure, CloseAudio
<1>5. ASSUME NEW r \in Runtime, RuntimeStep(r)
      PROVE  \/ UNCHANGED <<session, live, told, cmd>>
             \/ \E label \in {"endSend", "abortSend"} :
                  LiveStop(r, label, Registered, live)
  BY <1>5 DEF RuntimeStep, StartPacing, Abort, Drain, Cancelled, RunEnd
<1>6. FileStep => UNCHANGED <<live, told, cmd>>
  BY DEF FileStep, StartFile, EndFile, ExpireFile, others
<1>7. Request \subseteq Task /\ Caster \subseteq Task /\ Device \subseteq Task
      /\ Runtime \subseteq Task
  BY TaskSorts
<1>8. UNCHANGED vars => UNCHANGED <<session, live, told, cmd>>
  BY DEF vars
<1> QED
  BY <1>1, <1>2, <1>3, <1>4, <1>5, <1>6, <1>7, <1>8 DEF Next, FileStep

-----------------------------------------------------------------------------
(* While sends do not suspend *)

NoSuspension == SendMaySuspend = FALSE

\* Nobody is in the middle of a broadcast.
Unparked == \A t \in Task : task[t].at \notin Starting \cup Ending

\* A coroutine that moves, but not into a broadcast.
Stays(t) ==
  /\ \A u \in Task \ {t} : task'[u].at = task[u].at
  /\ task'[t].at \notin Starting \cup Ending

LEMMA SteadyLabels ==
  /\ Idle.at = "idle"
  /\ \A n : /\ At("casting", n).at = "casting" /\ At("leaked", n).at = "leaked"
            /\ At("pacing", n).at = "pacing" /\ At("report", n).at = "report"
            /\ At("stopWait", n).at = "stopWait"
  /\ \A t : Finished(t).at \in {"idle", "done"}
  /\ \A label \in {"idle", "done", "casting", "leaked", "pacing", "report", "stopWait"} :
       label \notin Starting \cup Ending
BY DEF Idle, At, Finished, Starting, Ending

LEMMA StopsStay ==
  ASSUME NoSuspension, NEW t, Stops(t)
  PROVE  Stays(t)
BY DEF NoSuspension, Stops, Sends, Stays, Starting, Ending

LEMMA StartsStay ==
  ASSUME NoSuspension, NEW t, NEW label, NEW sid, NEW frame, NEW src,
         Starts(t, label, sid, frame, src), frame.at \in {"idle", "casting"}
  PROVE  Stays(t)
<1>1. /\ \A u \in Task \ {t} : task'[u].at = task[u].at
      /\ task'[t] = frame \/ task'[t] = Finished(t)
  BY DEF NoSuspension, Starts, Sends
<1> QED
  BY <1>1, SteadyLabels DEF Stays

LEMMA GotoStays ==
  ASSUME LiveTypeOK, NEW t \in Task, NEW frame, Goto(t, frame),
         frame.at \in {"idle", "done", "casting", "leaked", "pacing", "report", "stopWait"}
  PROVE  Stays(t)
BY SteadyLabels DEF Goto, Stays, LiveTypeOK

\* Who moves where, in a step of a server none of whose sends suspend.
LEMMA MovesStay ==
  ASSUME NoSuspension, LiveTypeOK, Unparked, [Next]_vars
  PROVE  \/ \A u \in Task : task'[u].at = task[u].at
         \/ \E t \in Task : Stays(t)
<1> DEFINE Done == \/ \A u \in Task : task'[u].at = task[u].at
                   \/ \E t \in Task : Stays(t)
<1>1. /\ Registered \in SUBSET Device
      /\ \A T \in Lists : T \in SUBSET Device
      /\ {"endSend", "abortSend"} \subseteq Ending
      /\ {"startSend", "castSend", "castTarget"} \subseteq Starting
  BY DataAssumption DEF Registered, Ending, Starting
<1>2. ASSUME NEW t \in Task, Stopped(t) \/ ResumeStop(t) PROVE Done
  <2>1. AfterStop(t)
    BY <1>2 DEF Stopped, ResumeStop, Unparked
  <2> QED
    BY <2>1, AfterStopEffect, StopsStay
<1>3. ASSUME NEW t \in Task, Stop(t) PROVE Done
  BY <1>3, StopEffect, StopsStay
<1>4. ASSUME NEW t \in Task, NEW frame, Goto(t, frame),
             frame.at \in {"idle", "done", "casting", "leaked", "pacing", "report"}
      PROVE  Done
  BY <1>4, GotoStays
<1>5. ASSUME NEW q \in Request, RequestStep(q) PROVE Done
  <2>1. q \in Task /\ Idle \in Frame
    BY TaskSorts, FrameTypes
  <2>2. CASE StartRequest(q)
    <3>1. PICK src \in {"once", "loop", "bad"} :
            LiveStart(q, "startSend", Registered, session_id + 1, Idle, src)
      BY <2>2, DataAssumption DEF StartRequest
    <3>2. session_id + 1 \in 0..MaxSessions
      BY <2>2, StartLiveTypes DEF StartRequest
    <3>3. Starts(q, "startSend", session_id + 1, Idle, src)
      BY <1>1, <2>1, <3>1, <3>2, LiveStartEffect
    <3> QED
      BY <2>1, <3>3, StartsStay, SteadyLabels
  <2>3. ~ResumeStart(q)
    BY <2>1 DEF ResumeStart, Unparked, Starting
  <2> QED
    BY <1>3, <1>5, <2>1, <2>2, <2>3 DEF RequestStep, StopRequest
<1>6. ASSUME NEW c \in Caster, CasterStep(c) PROVE Done
  <2>1. c \in Task
    BY TaskSorts
  <2>2. CASE Admit(c)
    <3> DEFINE sid == session_id + 1
    <3>1. PICK label \in Starting, T \in SUBSET Device :
            LiveStart(c, label, T, sid, At("casting", sid), "feed")
      BY <1>1, <2>2 DEF Admit
    <3>2. sid \in 0..MaxSessions
      BY <2>2, StartLiveTypes DEF Admit
    <3> HIDE DEF sid
    <3>3. At("casting", sid) \in Frame
      BY <3>2, FrameTypes DEF Label
    <3>4. Starts(c, label, sid, At("casting", sid), "feed")
      BY <2>1, <3>1, <3>2, <3>3, LiveStartEffect
    <3> QED
      BY <2>1, <3>4, StartsStay, SteadyLabels
  <2>3. ~ResumeAdmit(c)
    BY <2>1 DEF ResumeAdmit, Unparked, Starting
  <2>4. CASE HangUp(c) \/ CastEnd(c)
    BY <1>3, <1>4, <2>1, <2>4, SteadyLabels DEF HangUp, CastEnd
  <2> QED
    BY <1>6, <2>2, <2>3, <2>4 DEF CasterStep
<1>7. ASSUME NEW d \in Device, DeviceStep(d) PROVE Done
  <2>1. d \in Task /\ Idle \in Frame /\ At("leaked", 0) \in Frame
    BY TaskSorts, FrameTypes, DataAssumption DEF Label
  <2>2. ASSUME NEW frame \in {Idle, At("leaked", 0)}, Forget(d, frame) PROVE Done
    BY <2>1, <2>2, ForgetEffect, SteadyLabels DEF Stays
  <2>3. CASE Connect(d) \/ Cleanup(d) \/ Leave(d)
    BY <2>2, <2>3, ConnectEffect DEF Cleanup, Leave, Deregister
  <2>4. CASE Heartbeat(d) \/ Lose(d) \/ OpenAudio(d) \/ CloseAudio(d)
    BY <2>4 DEF Heartbeat, Lose, OpenAudio, CloseAudio
  <2>5. CASE ReportFailure(d) \/ HandleFailure(d)
    BY <1>3, <1>4, <2>1, <2>5, SteadyLabels DEF ReportFailure, HandleFailure
  <2> QED
    BY <1>7, <2>3, <2>4, <2>5 DEF DeviceStep
<1>8. ASSUME NEW r \in Runtime, RuntimeStep(r) PROVE Done
  <2>1. r \in Task
    BY TaskSorts
  <2>2. ASSUME NEW label \in Ending, LiveStop(r, label, Registered, live) PROVE Done
    BY <1>1, <2>1, <2>2, LiveStopEffect, StopsStay
  <2>3. CASE Abort(r) \/ RunEnd(r)
    BY <1>1, <1>4, <2>1, <2>2, <2>3, SteadyLabels DEF Abort, RunEnd
  <2>4. CASE StartPacing(r) \/ Cancelled(r) \/ Drain(r)
    BY <1>4, <2>1, <2>4, SteadyLabels DEF StartPacing, Cancelled, Drain
  <2> QED
    BY <1>8, <2>3, <2>4 DEF RuntimeStep
<1>9. CASE FileStep \/ UNCHANGED vars
  BY <1>9 DEF FileStep, StartFile, EndFile, ExpireFile, others, vars
<1>10. CASE Next
  <2>1. CASE \E t \in Task : Stopped(t) \/ ResumeStop(t)
    BY <1>2, <2>1
  <2>2. CASE \/ \E q \in Request : RequestStep(q)
            \/ \E c \in Caster : CasterStep(c)
    BY <1>5, <1>6, <2>2
  <2>3. CASE \/ \E d \in Device : DeviceStep(d)
            \/ \E r \in Runtime : RuntimeStep(r)
    BY <1>7, <1>8, <2>3
  <2> QED
    BY <1>9, <1>10, <2>1, <2>2, <2>3 DEF Next, FileStep
<1> QED
  BY <1>9, <1>10

LEMMA UnparkedKept ==
  ASSUME NoSuspension, LiveTypeOK, Unparked, [Next]_vars
  PROVE  Unparked'
BY MovesStay DEF Unparked, Stays

\* Nobody is told anything but what is being announced, and those a complete
\* broadcast is for are told.
LEMMA BroadcastTells ==
  ASSUME NoSuspension, LiveTypeOK, NEW t \in Task, NEW label \in Label,
         NEW T \in SUBSET Device, NEW sid \in 0..MaxSessions,
         NEW frame \in Frame, NEW how \in Outcome,
         Broadcast(t, label, T, sid, frame, how)
  PROVE  /\ how \in {"sent", "raised"}
         /\ \A d \in Device : told'[d] \in {told[d], sid}
         /\ \A d \in Device : cmd'[d] = "open" => cmd[d] = "open"
         /\ how = "sent" => \A d \in T : cmd[d] = "open" => told'[d] = sid
<1>1. ASSUME NEW S, Tell(S, sid)
      PROVE  \A d \in Device : told'[d] = IF d \in S THEN sid ELSE told[d]
  BY <1>1 DEF Tell
<1>2. CASE how = "sent"
  <2>1. Tell({d \in T : cmd[d] = "open"}, sid) /\ UNCHANGED cmd
    BY <1>2 DEF Broadcast
  <2> QED
    BY <1>1, <1>2, <2>1
<1>3. CASE how = "raised"
  <2>1. (\E S : Tell(S, sid)) /\ Raise(t)
    BY <1>3 DEF Broadcast
  <2>2. UNCHANGED cmd \/ cmd' = [cmd EXCEPT ![t] = "off"]
    BY <2>1 DEF Raise, Deregister
  <2>3. \A d \in Device : cmd'[d] = "open" => cmd[d] = "open"
    BY <2>2 DEF LiveTypeOK
  <2> QED
    BY <1>1, <1>3, <2>1, <2>3
<1>4. how # "parked"
  BY DEF Broadcast, NoSuspension
<1> QED
  BY <1>2, <1>3, <1>4 DEF Outcome

\* What the server, its session and its devices believe.
Believed == LiveIsCurrent /\ ToldOnlyCurrent

\* A LIVE_STOP broadcast, with app["live"] cleared before or by it.
LEMMA StopBelieved ==
  ASSUME NoSuspension, LiveTypeOK, Believed, NEW t \in Task, NEW label \in Ending,
         NEW now \in {0, live}, now = 0 \/ label \in {"endSend", "abortSend"},
         LiveStop(t, label, Registered, now)
  PROVE  Believed'
<1>1. PICK how \in Outcome :
        /\ Broadcast(t, label, Registered, 0, Finished(t), how)
        /\ EndSession(how)
        /\ live' = LiveAfter(how, label, now)
  BY DEF LiveStop
<1>2. /\ label \in Label /\ 0 \in 0..MaxSessions /\ Finished(t) \in Frame
      /\ Registered \in SUBSET Device
  BY DataAssumption, FrameTypes DEF Label, Registered
<1>3. how \in {"sent", "raised"}
  BY <1>1, <1>2, BroadcastTells
<1>4. \A d \in Device : told'[d] \in {told[d], 0}
  BY <1>1, <1>2, BroadcastTells
<1>5. \A d \in Device : cmd'[d] = "open" => cmd[d] = "open"
  BY <1>1, <1>2, BroadcastTells
<1>6. how = "sent" => \A d \in Registered : cmd[d] = "open" => told'[d] = 0
  BY <1>1, <1>2, BroadcastTells
<1>7. CASE how = "sent"
  <2>1. live' = 0
    BY <1>1, <1>7 DEF LiveAfter
  <2>2. \A d \in Device : cmd'[d] = "open" => told'[d] = 0
    BY <1>5, <1>6, <1>7 DEF Registered
  <2> QED
    BY <2>1, <2>2 DEF Believed, LiveIsCurrent, ToldOnlyCurrent
<1>8. CASE how = "raised"
  <2>1. UNCHANGED session /\ live' \in {0, live}
    BY <1>1, <1>8 DEF EndSession, LiveAfter
  <2> QED
    BY <1>4, <1>5, <2>1 DEF Believed, LiveIsCurrent, ToldOnlyCurrent, session
<1> QED
  BY <1>3, <1>7, <1>8

LEMMA AfterStopBelieved ==
  ASSUME NoSuspension, LiveTypeOK, Believed, NEW t \in Task, AfterStop(t)
  PROVE  Believed'
<1>1. CASE t \in Device /\ state # "LIVE"
  <2>1. live' = 0 /\ UNCHANGED <<session, cmd, told>>
    BY <1>1 DEF AfterStop
  <2> QED
    BY <2>1 DEF Believed, LiveIsCurrent, ToldOnlyCurrent, session
<1>2. CASE ~(t \in Device /\ state # "LIVE")
  <2>1. \E label \in Ending : LiveStop(t, label, Registered, 0)
    BY <1>2 DEF AfterStop, Ending
  <2> QED
    BY <2>1, StopBelieved
<1> QED
  BY <1>1, <1>2

\* LIVE starts from a state in which no device believes in one, so that it does
\* not matter how far a broadcast got that raised.
LEMMA OpensBelieved ==
  ASSUME NoSuspension, LiveTypeOK, Believed, NEW t \in Task, NEW label \in Starting,
         NEW T \in SUBSET Device, NEW frame \in Frame, NEW src,
         Opens(t, label, T, frame, src)
  PROVE  Believed'
<1> DEFINE sid == session_id + 1
<1>1. /\ state # "LIVE" /\ state' = "LIVE" /\ session_id' = sid
      /\ sid \in 0..MaxSessions
  BY StartLiveTypes DEF Opens, start_live, can_start_live
<1>2. PICK how \in Outcome :
        /\ Broadcast(t, label, T, sid, frame, how)
        /\ live' = sid \/ live' = live
  BY DEF Opens, LiveStart
<1>3. label \in Label
  BY DEF Label
<1> HIDE DEF sid
<1>4. \A d \in Device : told'[d] \in {told[d], sid}
  BY <1>1, <1>2, <1>3, BroadcastTells
<1>5. \A d \in Device : cmd'[d] = "open" => cmd[d] = "open"
  BY <1>1, <1>2, <1>3, BroadcastTells
<1>6. live = 0 /\ \A d \in Device : cmd[d] = "open" => told[d] = 0
  BY <1>1 DEF Believed, LiveIsCurrent, ToldOnlyCurrent
<1> QED
  BY <1>1, <1>2, <1>4, <1>5, <1>6 DEF Believed, LiveIsCurrent, ToldOnlyCurrent

\* A device that connects is told what is going on; one that leaves is told
\* nothing.
LEMMA DeviceTold ==
  ASSUME LiveTypeOK, NEW d \in Device, DeviceMoves(d)
  PROVE  /\ UNCHANGED <<session, live>>
         /\ \A e \in Device \ {d} : told'[e] = told[e] /\ cmd'[e] = cmd[e]
         /\ \/ told'[d] = IF state = "LIVE" /\ live # 0 THEN session_id ELSE 0
            \/ cmd'[d] # "open"
<1>1. UNCHANGED <<session, live>>
  BY DEF DeviceMoves, Connect, Heartbeat, Lose, Cleanup, Leave
<1>2. CASE Connect(d)
  <2>1. \/ told' = [told EXCEPT ![d] = session_id] /\ state = "LIVE" /\ live # 0
        \/ told' = [told EXCEPT ![d] = 0] /\ ~(state = "LIVE" /\ live # 0)
    BY <1>2 DEF Connect, _resync_live
  <2>2. \E status : cmd' = [cmd EXCEPT ![d] = status]
    BY <1>2, ConnectEffect
  <2> QED
    BY <1>1, <2>1, <2>2 DEF LiveTypeOK
<1>3. CASE Heartbeat(d) \/ Lose(d)
  BY <1>1, <1>3 DEF Heartbeat, Lose, LiveTypeOK
<1>4. CASE Cleanup(d) \/ Leave(d)
  BY <1>1, <1>4 DEF Cleanup, Leave, Deregister, LiveTypeOK
<1> QED
  BY <1>2, <1>3, <1>4 DEF DeviceMoves

LEMMA DeviceBelieved ==
  ASSUME LiveTypeOK, Believed, NEW d \in Device, DeviceMoves(d)
  PROVE  Believed'
BY DeviceTold DEF Believed, LiveIsCurrent, ToldOnlyCurrent, session

LEMMA FileBelieved ==
  ASSUME Believed, FileStep, UNCHANGED <<live, told, cmd>>
  PROVE  Believed'
<1>1. state # "LIVE" /\ state' # "LIVE"
  BY DEF FileStep, StartFile, can_start_file, start_file, EndFile, stop_file, ExpireFile,
         FileExpires
<1> QED
  BY <1>1 DEF Believed, LiveIsCurrent, ToldOnlyCurrent

LEMMA BelievedKept ==
  ASSUME NoSuspension, LiveTypeOK, Unparked, Believed, [Next]_vars
  PROVE  Believed'
<1>1. /\ Request \subseteq Task /\ Caster \subseteq Task
      /\ Registered \in SUBSET Device /\ Idle \in Frame
      /\ \A T \in Lists : T \in SUBSET Device
      /\ {"endSend", "abortSend"} \subseteq Ending
      /\ {"startSend", "castSend", "castTarget"} \subseteq Starting
  BY TaskSorts, FrameTypes, DataAssumption DEF Registered, Ending, Starting
<1>2. CASE UNCHANGED <<session, live, told, cmd>>
  BY <1>2 DEF Believed, LiveIsCurrent, ToldOnlyCurrent, session
<1>3. CASE \E t \in Task, label \in {"endSend", "abortSend"} :
             LiveStop(t, label, Registered, live)
  BY <1>1, <1>3, StopBelieved
<1>4. ASSUME NEW q \in Request, NEW src \in Plays,
             Opens(q, "startSend", Registered, Idle, src)
      PROVE  Believed'
  BY <1>1, <1>4, OpensBelieved
<1>5. ASSUME NEW c \in Caster, NEW frame \in Frame,
             \/ Opens(c, "castSend", Registered, frame, "feed")
             \/ \E T \in Lists : Opens(c, "castTarget", T, frame, "feed")
      PROVE  Believed'
  BY <1>1, <1>5, OpensBelieved
<1>6. ~ \E t \in Task : task[t].at \in Starting \cup Ending
  BY DEF Unparked
<1> QED
  BY <1>2, <1>3, <1>4, <1>5, <1>6, StepKinds, AfterStopBelieved, DeviceBelieved,
     FileBelieved

LEMMA BelievedInvariant ==
  ASSUME NoSuspension
  PROVE  Spec => [](Unparked /\ Believed)
<1>1. Init => Unparked /\ Believed
  BY SteadyLabels
  DEF Init, Unparked, Believed, LiveIsCurrent, ToldOnlyCurrent
<1>2. LiveTypeOK /\ (Unparked /\ Believed) /\ [Next]_vars => (Unparked /\ Believed)'
  BY UnparkedKept, BelievedKept
<1> QED
  BY <1>1, <1>2, TypeCorrect, PTL DEF Spec

\* While sends do not suspend, app["live"] is the runtime of the LIVE in progress
\* and never of an earlier one, although broadcasts break off, devices come and
\* go, and sources fail to open.
THEOREM LiveAlwaysCurrent ==
  ASSUME NoSuspension
  PROVE  Spec => []LiveIsCurrent
<1>1. Believed => LiveIsCurrent
  BY DEF Believed
<1> QED
  BY <1>1, BelievedInvariant, PTL

\* While sends do not suspend, no connected device is left believing in a LIVE
\* that the server has ended or replaced.
THEOREM DevicesToldCurrent ==
  ASSUME NoSuspension
  PROVE  Spec => []ToldOnlyCurrent
<1>1. Believed => ToldOnlyCurrent
  BY DEF Believed
<1> QED
  BY <1>1, BelievedInvariant, PTL

-----------------------------------------------------------------------------
(* While connections do not break *)

NoLoss == Flaky = {}

\* A device whose handler is at work is connected, and no transport is closing.
Sound ==
  \A d \in Device : /\ cmd[d] \in {"off", "open"}
                    /\ task[d].at # "idle" => cmd[d] = "open"

\* Somebody who will go on and change app["live"] or the session.
Busy(t) == task[t].at \notin {"idle", "casting", "pacing", "leaked", "done"}

\* No broadcast raises: it is sent to all, or it suspends.
LEMMA SoundBroadcast ==
  ASSUME NoLoss, LiveTypeOK, Sound, NEW t \in Task, NEW label \in Label,
         NEW T \in SUBSET Device, NEW sid \in 0..MaxSessions,
         NEW frame \in Frame, NEW how \in Outcome,
         Broadcast(t, label, T, sid, frame, how)
  PROVE  /\ how \in {"sent", "parked"}
         /\ cmd' = cmd
         /\ Sends(t)
         /\ how = "sent" => task'[t] = frame
         /\ how = "parked" => task'[t].at = label
<1>1. {d \in T : cmd[d] = "lost"} = {} /\ task[t].drain \notin Flaky
  BY DEF NoLoss, Sound
<1>2. how # "raised" /\ cmd' = cmd
  BY <1>1 DEF Broadcast, Outcome
<1>3. Sends(t) /\ Goes(t, label, sid, frame, how)
  BY BroadcastEffect
<1> QED
  BY <1>2, <1>3 DEF Outcome, Goes

\* A step of t's broadcast, of what precedes it or of what it leads to.
Acts(t) ==
  /\ \A u \in Task \ {t} : task'[u].at = task[u].at
  /\ cmd' = cmd

LEMMA SoundStart ==
  ASSUME NoLoss, LiveTypeOK, Sound, NEW t \in Task, NEW label \in Starting,
         NEW T \in SUBSET Device, NEW sid \in 1..MaxSessions,
         NEW frame \in Frame, NEW src,
         LiveStart(t, label, T, sid, frame, src)
  PROVE  /\ Acts(t)
         /\ task'[t] = frame \/ task'[t].at = label
         /\ src # "bad" => live' # 0 \/ task'[t].at = label
<1>1. PICK how \in Outcome :
        /\ Broadcast(t, label, T, sid, frame, how)
        /\ how = "sent" /\ src # "bad" => live' = sid
  BY DEF LiveStart
<1>2. label \in Label /\ sid \in 0..MaxSessions /\ sid # 0
  BY DEF Label
<1>3. /\ how \in {"sent", "parked"} /\ cmd' = cmd /\ Sends(t)
      /\ how = "sent" => task'[t] = frame
      /\ how = "parked" => task'[t].at = label
  BY <1>1, <1>2, SoundBroadcast
<1> QED
  BY <1>1, <1>2, <1>3 DEF Acts, Sends

LEMMA SoundStop ==
  ASSUME NoLoss, LiveTypeOK, Sound, NEW t \in Task, NEW label \in Ending,
         NEW T \in SUBSET Device, NEW now, LiveStop(t, label, T, now)
  PROVE  /\ Acts(t)
         /\ state' # "LIVE" \/ task'[t].at \in Ending
<1>1. PICK how \in Outcome :
        /\ Broadcast(t, label, T, 0, Finished(t), how)
        /\ EndSession(how)
  BY DEF LiveStop
<1>2. label \in Label /\ 0 \in 0..MaxSessions /\ Finished(t) \in Frame
  BY DataAssumption, FrameTypes DEF Label
<1>3. /\ how \in {"sent", "parked"} /\ cmd' = cmd /\ Sends(t)
      /\ how = "parked" => task'[t].at = label
  BY <1>1, <1>2, SoundBroadcast
<1> QED
  BY <1>1, <1>3 DEF EndSession, stop_live, Acts, Sends

LEMMA SoundAfterStop ==
  ASSUME NoLoss, LiveTypeOK, Sound, NEW t \in Task, AfterStop(t)
  PROVE  /\ Acts(t)
         /\ state' # "LIVE" \/ task'[t].at \in Ending
<1>1. CASE t \in Device /\ state # "LIVE"
  <2>1. Goto(t, Idle) /\ UNCHANGED <<session, cmd>>
    BY <1>1 DEF AfterStop
  <2> QED
    BY <1>1, <2>1 DEF Goto, Acts, LiveTypeOK, session
<1>2. CASE ~(t \in Device /\ state # "LIVE")
  <2>1. \E label \in Ending : LiveStop(t, label, Registered, 0)
    BY <1>2 DEF AfterStop, Ending
  <2>2. Registered \in SUBSET Device
    BY DEF Registered
  <2> QED
    BY <2>1, <2>2, SoundStop
<1> QED
  BY <1>1, <1>2

LEMMA SoundStopping ==
  ASSUME NoLoss, LiveTypeOK, Sound, NEW t \in Task, Stop(t)
  PROVE  /\ Acts(t)
         /\ state' # "LIVE" \/ task'[t].at \in Ending \cup {"stopWait"}
<1>1. CASE live # 0 /\ rt[live] \in {"running", "stopping"}
  <2>1. Goto(t, At("stopWait", live)) /\ UNCHANGED cmd
    BY <1>1 DEF Stop
  <2> QED
    BY <2>1, SteadyLabels DEF Goto, Acts, LiveTypeOK
<1>2. CASE ~(live # 0 /\ rt[live] \in {"running", "stopping"})
  BY <1>2, SoundAfterStop DEF Stop
<1> QED
  BY <1>1, <1>2

\* What a step of t does to connections, to the slot, and to the session.
Moves(t) ==
  /\ \A u \in Task \ {t} : task'[u].at = task[u].at
  /\ \A d \in Device \ {t} : cmd'[d] = cmd[d]
  /\ t \in Device => \/ cmd'[t] = "open"
                     \/ cmd'[t] = "off" /\ task'[t].at = "idle"
  /\ \/ ingest' = None
     \/ ingest' = ingest /\ (Casting(t) => Casting(t)')
     \/ ingest' = t /\ Casting(t)'
  /\ \/ state' # "LIVE"
     \/ Busy(t)'
     \/ "bad" \notin Plays => live' # 0 \/ (~Busy(t) /\ UNCHANGED <<state, live>>)

Unmoved ==
  /\ \A u \in Task : task'[u].at = task[u].at
  /\ UNCHANGED <<cmd, ingest>>
  /\ state' # "LIVE" \/ UNCHANGED <<state, live>>

LEMMA StopMoves ==
  ASSUME LiveTypeOK, Sound, NEW t \in Task, Acts(t), Casting(t) => ingest' = None,
         state' # "LIVE" \/ task'[t].at \in Ending \cup {"stopWait"},
         ingest' \in {ingest, None},
         t \in Device => cmd[t] = "open"
  PROVE  Moves(t)
BY DEF Acts, Moves, Busy, Ending

\* A coroutine at rest that moves and changes nothing else of this.
LEMMA RestMoves ==
  ASSUME LiveTypeOK, Sound, NEW t \in Task, NEW frame, Goto(t, frame),
         ~Busy(t), UNCHANGED <<state, live, cmd>>,
         ingest' \in {ingest, None}, Casting(t) => ingest' = None,
         t \in Device => cmd[t] = "open"
  PROVE  Moves(t)
BY DEF Goto, Moves, Busy, LiveTypeOK

\* The tasks of an engine that runs or is being stopped are awaited by _run_live.
Paced == \A r \in Runtime : rt[r] \in {"running", "stopping"} => task[r].at = "pacing"

\* Whom a step moves, while no connection breaks: nobody, or one coroutine.
StepMoves == Unmoved \/ \E t \in Task : Moves(t)

LEMMA WaiterMoves ==
  ASSUME NoLoss, LiveTypeOK, Sound, NEW t \in Task, Stopped(t) \/ ResumeStop(t)
  PROVE  StepMoves
<1>1. /\ task[t].at \in Ending \cup {"stopWait"} /\ ingest' = ingest
      /\ t \in Device => cmd[t] = "open"
  BY DEF Stopped, ResumeStop, Sound, Ending
<1>2. ~Casting(t)
  BY <1>1 DEF Casting, Ending
<1>3. Acts(t) /\ (state' # "LIVE" \/ task'[t].at \in Ending \cup {"stopWait"})
  <2>1. CASE Stopped(t)
    BY <2>1, SoundAfterStop DEF Stopped
  <2>2. CASE ResumeStop(t)
    <3>1. /\ task[t].at \in Ending /\ task[t].todo \in SUBSET Device
          /\ LiveStop(t, task[t].at, task[t].todo, live)
      BY <2>2 DEF ResumeStop, LiveTypeOK, Frame
    <3> QED
      BY <3>1, SoundStop
  <2> QED
    BY <2>1, <2>2
<1> QED
  BY <1>1, <1>2, <1>3, StopMoves DEF StepMoves

LEMMA StopperMoves ==
  ASSUME NoLoss, LiveTypeOK, Sound, NEW t \in Task, Stop(t),
         Casting(t) => ingest' = None, ingest' \in {ingest, None},
         t \in Device => cmd[t] = "open"
  PROVE  StepMoves
<1>1. Acts(t) /\ (state' # "LIVE" \/ task'[t].at \in Ending \cup {"stopWait"})
  BY SoundStopping
<1> QED
  BY <1>1, StopMoves DEF StepMoves

LEMMA RequestMoves ==
  ASSUME NoLoss, LiveTypeOK, Sound, Owned, NEW q \in Request, RequestStep(q)
  PROVE  StepMoves
<1>1. /\ q \in Task /\ q \notin Device /\ Idle \in Frame
      /\ Registered \in SUBSET Device /\ "startSend" \in Starting
  BY TaskSorts, FrameTypes DEF Registered, Starting
<1>2. ASSUME NEW sid \in 1..MaxSessions, NEW T \in SUBSET Device, NEW src \in Plays,
             LiveStart(q, "startSend", T, sid, Idle, src),
             task[q].at \in {"idle", "startSend"}, ingest' = ingest
      PROVE  Moves(q)
  <2>1. /\ Acts(q)
        /\ task'[q] = Idle \/ task'[q].at = "startSend"
        /\ src # "bad" => live' # 0 \/ task'[q].at = "startSend"
    BY <1>1, <1>2, SoundStart
  <2> QED
    BY <1>1, <1>2, <2>1 DEF Acts, Moves, Busy, Casting
<1>3. CASE StartRequest(q)
  <2> DEFINE sid == session_id + 1
  <2>1. sid \in 1..MaxSessions
    BY <1>3, DataAssumption DEF StartRequest, LiveTypeOK, SessionTypeOK
  <2>2. PICK src \in Plays : LiveStart(q, "startSend", Registered, sid, Idle, src)
    BY <1>3 DEF StartRequest
  <2> HIDE DEF sid
  <2> QED
    BY <1>1, <1>2, <1>3, <2>1, <2>2 DEF StartRequest, StepMoves
<1>4. CASE ResumeStart(q)
  <2>1. task[q].arg \in 1..MaxSessions /\ task[q].todo \in SUBSET Device
    BY <1>1, <1>4, DataAssumption DEF ResumeStart, Owned, Starting, LiveTypeOK, SessionTypeOK, Frame
  <2> QED
    BY <1>1, <1>2, <1>4, <2>1 DEF ResumeStart, StepMoves
<1>5. CASE StopRequest(q)
  BY <1>1, <1>5, StopperMoves DEF StopRequest, Casting
<1> QED
  BY <1>3, <1>4, <1>5 DEF RequestStep

LEMMA CasterMoves ==
  ASSUME NoLoss, LiveTypeOK, Sound, Owned, NEW c \in Caster, CasterStep(c)
  PROVE  StepMoves
<1>1. /\ c \in Task /\ c \notin Device /\ Registered \in SUBSET Device
      /\ \A T \in Lists : T \in SUBSET Device
      /\ {"castSend", "castTarget"} \subseteq Starting
  BY TaskSorts, DataAssumption DEF Registered, Starting
<1>2. ASSUME NEW sid \in 1..MaxSessions, NEW label \in {"castSend", "castTarget"},
             NEW T \in SUBSET Device,
             LiveStart(c, label, T, sid, At("casting", sid), "feed"),
             ingest' \in {ingest, c}
      PROVE  Moves(c)
  <2>1. At("casting", sid) \in Frame
    BY FrameTypes, DataAssumption DEF Label
  <2>2. /\ Acts(c)
        /\ task'[c] = At("casting", sid) \/ task'[c].at = label
        /\ live' # 0 \/ task'[c].at = label
    BY <1>1, <1>2, <2>1, SoundStart
  <2>3. Casting(c)'
    BY <2>2, SteadyLabels DEF Casting
  <2> QED
    BY <1>1, <1>2, <2>2, <2>3 DEF Acts, Moves, Busy
<1>3. CASE Admit(c)
  <2> DEFINE sid == session_id + 1
  <2>1. sid \in 1..MaxSessions /\ ingest' = c
    BY <1>3, DataAssumption DEF Admit, LiveTypeOK, SessionTypeOK
  <2>2. PICK label \in {"castSend", "castTarget"}, T \in SUBSET Device :
          LiveStart(c, label, T, sid, At("casting", sid), "feed")
    BY <1>1, <1>3 DEF Admit
  <2> HIDE DEF sid
  <2> QED
    BY <1>1, <1>2, <2>1, <2>2 DEF StepMoves
<1>4. CASE ResumeAdmit(c)
  <2>1. task[c].arg \in 1..MaxSessions /\ task[c].todo \in SUBSET Device
    BY <1>1, <1>4, DataAssumption DEF ResumeAdmit, Owned, Starting, LiveTypeOK, SessionTypeOK, Frame
  <2> QED
    BY <1>1, <1>2, <1>4, <2>1 DEF ResumeAdmit, StepMoves
<1>5. CASE HangUp(c)
  BY <1>5 DEF HangUp, StepMoves, Unmoved, session
<1>6. CASE CastEnd(c)
  <2>1. ingest' = None /\ task[c].at = "casting"
    BY <1>1, <1>6 DEF CastEnd, clear_ingest, Owned, OneBroadcaster, Casting
  <2>2. CASE live = task[c].arg
    BY <1>1, <1>6, <2>1, <2>2, StopperMoves DEF CastEnd
  <2>3. CASE live # task[c].arg
    <3>1. Goto(c, Idle) /\ UNCHANGED <<session, live, cmd>>
      BY <1>6, <2>3 DEF CastEnd
    <3>2. Moves(c)
      BY <1>1, <2>1, <3>1, RestMoves DEF Busy, session
    <3> QED
      BY <1>1, <3>2 DEF StepMoves
  <2> QED
    BY <2>2, <2>3
<1> QED
  BY <1>3, <1>4, <1>5, <1>6 DEF CasterStep

LEMMA DeviceStepMoves ==
  ASSUME NoLoss, LiveTypeOK, Sound, NEW d \in Device, DeviceStep(d)
  PROVE  StepMoves
<1>1. d \in Task /\ Idle \in Frame
  BY TaskSorts, FrameTypes
<1>2. cmd[d] \in {"off", "open"} /\ (task[d].at # "idle" => cmd[d] = "open")
  BY DEF Sound
<1>3. CASE Connect(d) \/ Leave(d)
  <2>1. Forget(d, Idle) /\ UNCHANGED <<session, live, ingest>>
    BY <1>3 DEF Connect, Leave, Deregister, NoLoss
  <2>2. task'[d] = Idle /\ \A u \in Task \ {d} : task'[u].at = task[u].at
    BY <1>1, <2>1, ForgetEffect
  <2>3. task[d].at \in {"idle", "leaked"}
    BY <1>2, <1>3 DEF Connect, Leave
  <2>4. \E status \in {"off", "open"} : cmd' = [cmd EXCEPT ![d] = status]
    BY <1>3 DEF Connect, Leave, Deregister, NoLoss
  <2>5. /\ \A e \in Device \ {d} : cmd'[e] = cmd[e]
        /\ cmd'[d] \in {"off", "open"}
    BY <2>4 DEF LiveTypeOK
  <2>6. Moves(d)
    BY <2>1, <2>2, <2>3, <2>5, SteadyLabels DEF Moves, Busy, Casting, session
  <2> QED
    BY <1>1, <2>6 DEF StepMoves
<1>4. ~Heartbeat(d) /\ ~Lose(d) /\ ~Cleanup(d)
  BY <1>2 DEF NoLoss, Heartbeat, Lose, Cleanup
<1>5. CASE OpenAudio(d) \/ CloseAudio(d)
  BY <1>5 DEF OpenAudio, CloseAudio, StepMoves, Unmoved, session
<1>6. CASE ReportFailure(d)
  BY <1>1, <1>6, RestMoves DEF ReportFailure, Busy, Casting, StepMoves, session
<1>7. CASE HandleFailure(d)
  BY <1>1, <1>2, <1>7, StopperMoves DEF HandleFailure, Casting
<1> QED
  BY <1>3, <1>4, <1>5, <1>6, <1>7 DEF DeviceStep

LEMMA RuntimeMoves ==
  ASSUME NoLoss, LiveTypeOK, Sound, Paced, NEW r \in Runtime, RuntimeStep(r)
  PROVE  StepMoves
<1>1. r \in Task /\ r \notin Device /\ Registered \in SUBSET Device
  BY TaskSorts DEF Registered
<1>2. ASSUME NEW frame, Goto(r, frame), task[r].at \in {"idle", "pacing"},
             UNCHANGED <<session, live, cmd, ingest>>
      PROVE  StepMoves
  BY <1>1, <1>2, RestMoves DEF Busy, Casting, StepMoves, session
<1>3. ASSUME NEW label \in Ending, LiveStop(r, label, Registered, live),
             task[r].at \in {"idle", "pacing"}, ingest' = ingest
      PROVE  StepMoves
  <2>1. Acts(r) /\ (state' # "LIVE" \/ task'[r].at \in Ending \cup {"stopWait"})
    BY <1>1, <1>3, SoundStop
  <2> QED
    BY <1>1, <1>3, <2>1, StopMoves DEF Casting, StepMoves
<1>4. CASE Abort(r) \/ RunEnd(r)
  BY <1>2, <1>3, <1>4 DEF Abort, RunEnd, Ending
<1>5. CASE StartPacing(r)
  BY <1>2, <1>5 DEF StartPacing
<1>6. CASE Drain(r)
  BY <1>6 DEF Drain, StepMoves, Unmoved, session
<1>7. CASE Cancelled(r)
  <2>1. task[r].at = "pacing"
    BY <1>7 DEF Cancelled, Paced
  <2>2. CASE UNCHANGED task
    BY <1>7, <2>2 DEF Cancelled, StepMoves, Unmoved, session
  <2>3. CASE Goto(r, Finished(r))
    BY <1>2, <1>7, <2>1, <2>3 DEF Cancelled
  <2> QED
    BY <1>7, <2>2, <2>3 DEF Cancelled
<1> QED
  BY <1>4, <1>5, <1>6, <1>7 DEF RuntimeStep

LEMMA AnyStepMoves ==
  ASSUME NoLoss, LiveTypeOK, Sound, Paced, Owned, [Next]_vars
  PROVE  StepMoves
<1>1. CASE FileStep \/ UNCHANGED vars
  BY <1>1
  DEF FileStep, StartFile, EndFile, ExpireFile, start_file, stop_file, FileExpires,
      others, vars, session, StepMoves, Unmoved
<1> QED
  BY <1>1, WaiterMoves, RequestMoves, CasterMoves, DeviceStepMoves, RuntimeMoves
  DEF Next, FileStep

\* No engine is started, and the only coroutine that moves has none running.
Winds(t) ==
  /\ \A u \in Task \ {t} : task'[u].at = task[u].at
  /\ \A r \in Runtime : rt'[r] \in {"running", "stopping"}
                          => rt[r] \in {"running", "stopping"}
  /\ t \in Runtime => rt'[t] \notin {"running", "stopping"}

LEMMA WindsPaced ==
  ASSUME Paced, NEW t, Winds(t)
  PROVE  Paced'
BY TaskSorts DEF Paced, Winds

LEMMA StoppingWinds ==
  ASSUME LiveTypeOK, NEW t \in Task, t \notin Runtime, Stop(t)
  PROVE  Winds(t)
<1>1. /\ \A u \in Task \ {t} : task'[u].at = task[u].at
      /\ rt' = rt \/ (live # 0 /\ rt[live] \in {"running", "stopping"}
                      /\ rt' = [rt EXCEPT ![live] = "stopping"])
  <2>1. Stops(t)
    BY StopEffect
  <2>2. rt' = rt \/ (live # 0 /\ rt[live] \in {"running", "stopping"}
                     /\ rt' = [rt EXCEPT ![live] = "stopping"])
    BY DEF Stop, AfterStop
  <2> QED
    BY <2>1, <2>2 DEF Stops, Sends
<1> QED
  BY <1>1 DEF Winds, LiveTypeOK

LEMMA StartingWinds ==
  ASSUME LiveTypeOK, NEW t \in Task, t \notin Runtime, NEW label, NEW sid,
         NEW frame, NEW src, Starts(t, label, sid, frame, src)
  PROVE  Winds(t)
<1>1. rt' = rt \/ rt' = [rt EXCEPT ![sid] = "ready"]
  BY DEF Starts
<1> QED
  BY <1>1 DEF Starts, Sends, Winds, LiveTypeOK

LEMMA PacedKept ==
  ASSUME LiveTypeOK, Paced, [Next]_vars
  PROVE  Paced'
<1>1. /\ Registered \in SUBSET Device /\ Idle \in Frame
      /\ \A T \in Lists : T \in SUBSET Device
      /\ {"startSend", "castSend", "castTarget"} \subseteq Starting
      /\ {"endSend", "abortSend"} \subseteq Ending
  BY DataAssumption, FrameTypes DEF Registered, Starting, Ending
<1>2. ASSUME NEW t \in Task, NEW frame, Goto(t, frame), rt' = rt,
             t \in Runtime => rt[t] \notin {"running", "stopping"}
      PROVE  Paced'
  BY <1>2, WindsPaced DEF Winds, Goto, LiveTypeOK
<1>3. ASSUME NEW t \in Task, Stops(t), rt' = rt,
             t \in Runtime => rt[t] \notin {"running", "stopping"}
      PROVE  Paced'
  BY <1>3, WindsPaced DEF Winds, Stops, Sends
<1>4. ASSUME NEW t \in Task, Stopped(t) \/ ResumeStop(t)
      PROVE  Paced'
  <2>1. Stops(t) /\ rt' = rt
    <3>1. CASE Stopped(t)
      BY <3>1, AfterStopEffect DEF Stopped
    <3>2. CASE ResumeStop(t)
      <4>1. /\ task[t].at \in Ending /\ task[t].todo \in SUBSET Device
            /\ LiveStop(t, task[t].at, task[t].todo, live) /\ rt' = rt
        BY <3>2 DEF ResumeStop, LiveTypeOK, Frame
      <4> QED
        BY <4>1, LiveStopEffect
    <3> QED
      BY <1>4, <3>1, <3>2
  <2>2. t \in Runtime => rt[t] \notin {"running", "stopping"}
    BY <1>4 DEF Stopped, ResumeStop, Ending, Paced
  <2> QED
    BY <1>3, <2>1, <2>2
<1>5. ASSUME NEW q \in Request, RequestStep(q) PROVE Paced'
  <2>1. q \in Task /\ q \notin Runtime
    BY TaskSorts
  <2>2. ASSUME NEW sid \in 0..MaxSessions, NEW T \in SUBSET Device, NEW src \in Plays,
               LiveStart(q, "startSend", T, sid, Idle, src)
        PROVE  Paced'
    <3>1. src \in {"once", "loop", "bad", "feed"}
      BY DataAssumption
    <3>2. Starts(q, "startSend", sid, Idle, src)
      BY <1>1, <2>1, <2>2, <3>1, LiveStartEffect
    <3> QED
      BY <2>1, <3>2, StartingWinds, WindsPaced
  <2>3. CASE StartRequest(q)
    <3> DEFINE sid == session_id + 1
    <3>1. sid \in 0..MaxSessions
      BY <2>3, StartLiveTypes DEF StartRequest
    <3>2. PICK src \in Plays : LiveStart(q, "startSend", Registered, sid, Idle, src)
      BY <2>3 DEF StartRequest
    <3> HIDE DEF sid
    <3> QED
      BY <1>1, <2>2, <3>1, <3>2
  <2>4. CASE ResumeStart(q)
    BY <2>1, <2>2, <2>4 DEF ResumeStart, LiveTypeOK, Frame
  <2>5. CASE StopRequest(q)
    BY <2>1, <2>5, StoppingWinds, WindsPaced DEF StopRequest
  <2> QED
    BY <1>5, <2>3, <2>4, <2>5 DEF RequestStep
<1>6. ASSUME NEW c \in Caster, CasterStep(c) PROVE Paced'
  <2>1. c \in Task /\ c \notin Runtime
    BY TaskSorts
  <2>2. ASSUME NEW sid \in 0..MaxSessions, NEW T \in SUBSET Device,
               NEW label \in {"castSend", "castTarget"},
               LiveStart(c, label, T, sid, At("casting", sid), "feed")
        PROVE  Paced'
    <3>1. At("casting", sid) \in Frame
      BY FrameTypes DEF Label
    <3>2. Starts(c, label, sid, At("casting", sid), "feed")
      BY <1>1, <2>1, <2>2, <3>1, LiveStartEffect
    <3> QED
      BY <2>1, <3>2, StartingWinds, WindsPaced
  <2>3. CASE Admit(c)
    <3> DEFINE sid == session_id + 1
    <3>1. sid \in 0..MaxSessions
      BY <2>3, StartLiveTypes DEF Admit
    <3>2. PICK label \in {"castSend", "castTarget"}, T \in SUBSET Device :
            LiveStart(c, label, T, sid, At("casting", sid), "feed")
      BY <1>1, <2>3 DEF Admit
    <3> HIDE DEF sid
    <3> QED
      BY <2>2, <3>1, <3>2
  <2>4. CASE ResumeAdmit(c)
    BY <2>1, <2>2, <2>4 DEF ResumeAdmit, LiveTypeOK, Frame
  <2>5. CASE HangUp(c)
    BY <2>5 DEF HangUp, Paced
  <2>6. CASE CastEnd(c)
    <3>1. Stop(c) \/ (Goto(c, Idle) /\ rt' = rt)
      BY <2>6 DEF CastEnd
    <3> QED
      BY <1>2, <2>1, <3>1, StoppingWinds, WindsPaced
  <2> QED
    BY <1>6, <2>3, <2>4, <2>5, <2>6 DEF CasterStep
<1>7. ASSUME NEW d \in Device, DeviceStep(d) PROVE Paced'
  <2>1. d \in Task /\ d \notin Runtime
    BY TaskSorts
  <2>2. CASE Connect(d) \/ Cleanup(d) \/ Leave(d)
    <3>1. rt' = rt /\ \E frame \in Frame : Forget(d, frame)
      BY <2>2, ConnectEffect, FrameTypes, DataAssumption
      DEF Cleanup, Leave, Deregister, Label
    <3>2. \A u \in Task \ {d} : task'[u].at = task[u].at
      BY <3>1, ForgetEffect
    <3> QED
      BY <2>1, <3>1, <3>2, TaskSorts DEF Paced
  <2>3. CASE Heartbeat(d) \/ Lose(d) \/ OpenAudio(d) \/ CloseAudio(d)
    BY <2>3 DEF Heartbeat, Lose, OpenAudio, CloseAudio, Paced
  <2>4. CASE ReportFailure(d)
    BY <1>2, <2>1, <2>4 DEF ReportFailure
  <2>5. CASE HandleFailure(d)
    BY <2>1, <2>5, StoppingWinds, WindsPaced DEF HandleFailure
  <2> QED
    BY <1>7, <2>2, <2>3, <2>4, <2>5 DEF DeviceStep
<1>8. ASSUME NEW r \in Runtime, RuntimeStep(r) PROVE Paced'
  <2>1. r \in Task
    BY TaskSorts
  <2>2. CASE Abort(r) \/ RunEnd(r)
    <3>1. rt' = rt /\ rt[r] \in {"ready", "over"}
      BY <2>2 DEF Abort, RunEnd
    <3>2. \/ \E label \in Ending : LiveStop(r, label, Registered, live)
          \/ Goto(r, Finished(r))
      BY <2>2 DEF Abort, RunEnd, Ending
    <3> QED
      BY <1>1, <1>2, <1>3, <2>1, <3>1, <3>2, LiveStopEffect
  <2>3. CASE StartPacing(r)
    <3>1. /\ rt' = [rt EXCEPT ![r] = "running"]
          /\ task' = [task EXCEPT ![r] = At("pacing", 0)]
      BY <2>3 DEF StartPacing, Goto
    <3>2. \A u \in Runtime : u \in Task
      BY TaskSorts
    <3> QED
      BY <2>1, <3>1, <3>2, SteadyLabels DEF Paced, LiveTypeOK
  <2>4. CASE Drain(r) \/ Cancelled(r)
    <3>1. /\ rt' = [rt EXCEPT ![r] = "over"]
          /\ task' = task \/ Goto(r, Finished(r))
      BY <2>4 DEF Drain, Cancelled
    <3> QED
      BY <2>1, <3>1, WindsPaced DEF Winds, Goto, LiveTypeOK
  <2> QED
    BY <1>8, <2>2, <2>3, <2>4 DEF RuntimeStep
<1>9. CASE FileStep \/ UNCHANGED vars
  BY <1>9 DEF FileStep, StartFile, EndFile, ExpireFile, others, vars, Paced
<1> QED
  BY <1>4, <1>5, <1>6, <1>7, <1>8, <1>9 DEF Next, FileStep

LEMMA SoundKept ==
  ASSUME LiveTypeOK, Sound, StepMoves
  PROVE  Sound'
BY TaskSorts DEF Sound, StepMoves, Unmoved, Moves

LEMMA SoundInvariant ==
  ASSUME NoLoss
  PROVE  Spec => [](Sound /\ Paced)
<1>1. Init => Sound /\ Paced
  <2> SUFFICES ASSUME Init PROVE Sound /\ Paced
    OBVIOUS
  <2>1. \A d \in Device : cmd[d] = "off" /\ task[d].at = "idle"
    BY TaskSorts, SteadyLabels DEF Init
  <2> QED
    BY <2>1 DEF Init, Sound, Paced
<1>2. LiveTypeOK /\ Owned /\ (Sound /\ Paced) /\ [Next]_vars => (Sound /\ Paced)'
  BY AnyStepMoves, SoundKept, PacedKept
<1> QED
  BY <1>1, <1>2, TypeCorrect, OwnedInvariant, PTL DEF Spec

\* While connections do not break, the broadcaster's slot is never left taken by
\* a studio whose handler has ended: not by the handler's own end, nor because
\* its session was stopped by others or its sends took long.
THEOREM SlotAlwaysReleased ==
  ASSUME NoLoss
  PROVE  Spec => []SlotReleased
<1>1. Init => SlotReleased
  BY DEF Init, SlotReleased
<1>2. LiveTypeOK /\ SlotReleased /\ StepMoves => SlotReleased'
  BY TaskSorts DEF LiveTypeOK, SlotReleased, StepMoves, Unmoved, Moves, Casting
<1>3. LiveTypeOK /\ Sound /\ Paced /\ Owned /\ [Next]_vars => StepMoves
  BY AnyStepMoves
<1> QED
  BY <1>1, <1>2, <1>3, SoundInvariant, TypeCorrect, OwnedInvariant, PTL DEF Spec

\* While connections do not break and every source opens, a LIVE whose runtime is
\* gone is always in somebody's hands: a broadcast of its start or end is under
\* way, or somebody waits for its engine and will end it.
THEOREM LiveNeverStuck ==
  ASSUME NoLoss, "bad" \notin Plays
  PROVE  Spec => []NoStuckLive
<1> DEFINE Handled == state = "LIVE" /\ live = 0 => \E t \in Task : Busy(t)
<1>1. Init => Handled
  BY DEF Init, SessionInit
<1>2. Handled /\ StepMoves => Handled'
  BY DEF StepMoves, Unmoved, Moves, Busy
<1>3. LiveTypeOK /\ Sound /\ Paced /\ Owned /\ [Next]_vars => StepMoves
  BY AnyStepMoves
<1>4. Handled => NoStuckLive
  BY DEF NoStuckLive, Busy
<1> HIDE DEF Handled
<1> QED
  BY <1>1, <1>2, <1>3, <1>4, SoundInvariant, TypeCorrect, OwnedInvariant, PTL DEF Spec

-----------------------------------------------------------------------------
(* When neither happens: agreement *)

\* A session in progress has been counted, which is what _resync_live relies on:
\* app["live"] is not 0 then.
Agreed == Agreement /\ (state = "LIVE" => session_id # 0)

\* Every broadcast reaches all devices connected, at once.
LEMMA BroadcastReaches ==
  ASSUME NoSuspension, NoLoss, LiveTypeOK, Sound, NEW t \in Task, NEW label \in Label,
         NEW T \in SUBSET Device, NEW sid \in 0..MaxSessions,
         NEW frame \in Frame, NEW how \in Outcome,
         Broadcast(t, label, T, sid, frame, how)
  PROVE  /\ how = "sent"
         /\ cmd' = cmd
         /\ \A d \in T : cmd[d] = "open" => told'[d] = sid
<1>1. how \in {"sent", "parked"} /\ cmd' = cmd
  BY SoundBroadcast
<1>2. how \in {"sent", "raised"}
  BY BroadcastTells
<1>3. how = "sent" => \A d \in T : cmd[d] = "open" => told'[d] = sid
  BY BroadcastTells
<1> QED
  BY <1>1, <1>2, <1>3

LEMMA StopAgreed ==
  ASSUME NoSuspension, NoLoss, LiveTypeOK, Sound, NEW t \in Task,
         NEW label \in Ending, NEW now, LiveStop(t, label, Registered, now)
  PROVE  Agreed'
<1>1. PICK how \in Outcome :
        Broadcast(t, label, Registered, 0, Finished(t), how) /\ EndSession(how)
  BY DEF LiveStop
<1>2. /\ label \in Label /\ 0 \in 0..MaxSessions /\ Finished(t) \in Frame
      /\ Registered \in SUBSET Device
  BY DataAssumption, FrameTypes DEF Label, Registered
<1>3. /\ how = "sent" /\ cmd' = cmd
      /\ \A d \in Registered : cmd[d] = "open" => told'[d] = 0
  BY <1>1, <1>2, BroadcastReaches
<1>4. state' # "LIVE"
  BY <1>1, <1>3 DEF EndSession, stop_live
<1> QED
  BY <1>3, <1>4 DEF Agreed, Agreement, Registered

LEMMA AfterStopAgreed ==
  ASSUME NoSuspension, NoLoss, LiveTypeOK, Sound, Agreed, NEW t \in Task, AfterStop(t)
  PROVE  Agreed'
<1>1. CASE t \in Device /\ state # "LIVE"
  <2>1. UNCHANGED <<session, cmd, told>>
    BY <1>1 DEF AfterStop
  <2> QED
    BY <1>1, <2>1 DEF Agreed, Agreement, session
<1>2. CASE ~(t \in Device /\ state # "LIVE")
  <2>1. \E label \in Ending : LiveStop(t, label, Registered, 0)
    BY <1>2 DEF AfterStop, Ending
  <2> QED
    BY <2>1, StopAgreed
<1> QED
  BY <1>1, <1>2

LEMMA OpensAgreed ==
  ASSUME NoSuspension, NoLoss, LiveTypeOK, Sound, NEW t \in Task,
         NEW label \in Starting, NEW frame \in Frame, NEW src, src # "bad",
         Opens(t, label, Registered, frame, src)
  PROVE  Agreed'
<1> DEFINE sid == session_id + 1
<1>1. state' = "LIVE" /\ session_id' = sid /\ sid \in 0..MaxSessions /\ sid # 0
  BY StartLiveTypes DEF Opens, start_live, LiveTypeOK, SessionTypeOK
<1>2. PICK how \in Outcome :
        /\ Broadcast(t, label, Registered, sid, frame, how)
        /\ how = "sent" => live' = sid
  BY DEF Opens, LiveStart
<1>3. label \in Label /\ Registered \in SUBSET Device
  BY DEF Label, Registered
<1> HIDE DEF sid
<1>4. /\ how = "sent" /\ cmd' = cmd
      /\ \A d \in Registered : cmd[d] = "open" => told'[d] = sid
  BY <1>1, <1>2, <1>3, BroadcastReaches
<1> QED
  BY <1>1, <1>2, <1>4 DEF Agreed, Agreement, Registered

LEMMA DeviceAgreed ==
  ASSUME LiveTypeOK, Agreed, NEW d \in Device, DeviceMoves(d)
  PROVE  Agreed'
BY DeviceTold DEF Agreed, Agreement, session

LEMMA AgreedKept ==
  ASSUME NoSuspension, NoLoss, Lists = {}, "bad" \notin Plays,
         LiveTypeOK, Unparked, Sound, Agreed, [Next]_vars
  PROVE  Agreed'
<1>1. /\ Request \subseteq Task /\ Caster \subseteq Task /\ Idle \in Frame
      /\ {"endSend", "abortSend"} \subseteq Ending
      /\ {"startSend", "castSend"} \subseteq Starting
  BY TaskSorts, FrameTypes DEF Ending, Starting
<1>2. CASE UNCHANGED <<session, live, told, cmd>>
  BY <1>2 DEF Agreed, Agreement, session
<1>3. CASE \E t \in Task, label \in {"endSend", "abortSend"} :
             LiveStop(t, label, Registered, live)
  BY <1>1, <1>3, StopAgreed
<1>4. ASSUME NEW q \in Request, NEW src \in Plays,
             Opens(q, "startSend", Registered, Idle, src)
      PROVE  Agreed'
  BY <1>1, <1>4, OpensAgreed
<1>5. ASSUME NEW c \in Caster, NEW frame \in Frame,
             Opens(c, "castSend", Registered, frame, "feed")
      PROVE  Agreed'
  BY <1>1, <1>5, OpensAgreed
<1>6. CASE FileStep /\ UNCHANGED <<live, told, cmd>>
  <2>1. state # "LIVE" /\ state' # "LIVE"
    BY <1>6 DEF FileStep, StartFile, can_start_file, start_file, EndFile, stop_file,
                ExpireFile, FileExpires
  <2> QED
    BY <1>6, <2>1 DEF Agreed, Agreement
<1>7. ~ \E t \in Task : task[t].at \in Starting \cup Ending
  BY DEF Unparked
<1> QED
  BY <1>2, <1>3, <1>4, <1>5, <1>6, <1>7, StepKinds, AfterStopAgreed, DeviceAgreed

\* While sends do not suspend and connections do not break, every LIVE is for
\* all devices and every source opens, the server, its session and its devices
\* agree at every moment on whether there is a LIVE, and which.
THEOREM AlwaysAgreed ==
  ASSUME NoSuspension, NoLoss, Lists = {}, "bad" \notin Plays
  PROVE  Spec => []Agreement
<1>1. Init => Agreed
  BY DEF Init, SessionInit, Agreed, Agreement
<1>2. LiveTypeOK /\ (Unparked /\ Believed) /\ (Sound /\ Paced) /\ Agreed /\ [Next]_vars
        => Agreed'
  BY AgreedKept
<1>3. Agreed => Agreement
  BY DEF Agreed
<1> QED
  BY <1>1, <1>2, <1>3, TypeCorrect, BelievedInvariant, SoundInvariant, PTL DEF Spec
=============================================================================
