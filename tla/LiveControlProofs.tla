------------------------- MODULE LiveControlProofs -------------------------
(***************************************************************************)
(* Theorems about LiveControl, for all sets of requests, casters and       *)
(* devices and all values of its other constants.                          *)
(***************************************************************************)
EXTENDS LiveControl, TLAPS

-----------------------------------------------------------------------------
(* What the building blocks do *)

LEMMA FrameTypes ==
  /\ Idle \in Frame
  /\ \A t : Finished(t) \in Frame
  /\ \A label \in Label, arg \in 0..MaxSessions : At(label, arg) \in Frame
BY DataAssumption DEF Idle, Finished, At, Frame, Label

LEMMA TaskSorts ==
  /\ Request \subseteq Task /\ Caster \subseteq Task
  /\ Device \subseteq Task /\ Runtime \subseteq Task
  /\ \A t \in Request : t \notin Caster /\ t \notin Device /\ t \notin Runtime
  /\ \A t \in Caster : t \notin Device /\ t \notin Runtime
  /\ \A t \in Device : t \notin Runtime
  /\ None \notin Caster /\ None \notin Device
BY TaskAssumption, DataAssumption DEF Task

\* A device whose socket is closed leaves all other coroutines where they are.
LEMMA ForgetEffect ==
  ASSUME LiveTypeOK, NEW d \in Device, NEW frame \in Frame, Forget(d, frame)
  PROVE  /\ task' \in [Task -> Frame]
         /\ task'[d] = frame
         /\ \A u \in Task \ {d} :
              task'[u].at = task[u].at /\ task'[u].arg = task[u].arg
<1>1. d \in Task
  BY TaskSorts
<1>2. ASSUME NEW u \in Task
      PROVE  /\ task'[u] \in Frame
             /\ u = d => task'[u] = frame
             /\ u # d => task'[u].at = task[u].at /\ task'[u].arg = task[u].arg
  BY DEF Forget, LiveTypeOK, Frame
<1>3. task' \in [Task -> Frame]
  BY <1>2 DEF Forget
<1> QED
  BY <1>1, <1>2, <1>3

LEMMA DeregisterEffect ==
  ASSUME LiveTypeOK, NEW d \in Device, NEW frame \in Frame, Deregister(d, frame)
  PROVE  /\ cmd' \in [Device -> {"off", "open", "lost", "closed"}]
         /\ cmd' = [cmd EXCEPT ![d] = "off"]
         /\ task' \in [Task -> Frame]
         /\ task'[d] = frame
         /\ \A u \in Task \ {d} :
              task'[u].at = task[u].at /\ task'[u].arg = task[u].arg
BY ForgetEffect DEF Deregister, LiveTypeOK

LEMMA ConnectEffect ==
  ASSUME NEW d \in Device, Connect(d)
  PROVE  /\ UNCHANGED <<session, live, ingest, audio, rt, source, gone>>
         /\ \E status \in {"open", "lost"}, frame \in {Idle, At("leaked", 0)} :
              cmd' = [cmd EXCEPT ![d] = status] /\ Forget(d, frame)
BY DEF Connect

\* What every step of t's broadcasts leaves well-typed or untouched.
Sends(t) ==
  /\ told' \in [Device -> 0..MaxSessions]
  /\ owes' \subseteq Device
  /\ cmd' \in [Device -> {"off", "open", "lost", "closed"}]
  /\ task' \in [Task -> Frame]
  /\ \A u \in Task \ {t} :
       task'[u].at = task[u].at /\ task'[u].arg = task[u].arg

\* A broadcast moves only its own coroutine, to one of three places.
Goes(t, label, sid, frame, how) ==
  /\ how = "sent" => task'[t] = frame
  /\ how = "raised" => task'[t] = Finished(t)
  /\ how = "parked" => /\ task'[t].at = label
                       /\ task'[t].arg = sid
                       /\ SendMaySuspend = TRUE

LEMMA BroadcastEffect ==
  ASSUME LiveTypeOK, NEW t \in Task, NEW label \in Label,
         NEW T \in SUBSET Device, NEW sid \in 0..MaxSessions,
         NEW frame \in Frame, NEW how \in Outcome,
         Broadcast(t, label, T, sid, frame, how)
  PROVE  Sends(t) /\ Goes(t, label, sid, frame, how)
<1> USE DEF LiveTypeOK
<1>1. ASSUME NEW S \in SUBSET Device, Tell(S, sid)
      PROVE  told' \in [Device -> 0..MaxSessions] /\ owes' \subseteq Device
  BY <1>1 DEF Tell
<1>2. ASSUME NEW f \in Frame, Goto(t, f)
      PROVE  /\ task' \in [Task -> Frame]
             /\ task'[t] = f
             /\ \A u \in Task \ {t} : task'[u] = task[u]
  BY <1>2 DEF Goto
<1>3. CASE how = "sent"
  <2>1. Tell({d \in T : cmd[d] = "open"}, sid) /\ Goto(t, frame) /\ UNCHANGED cmd
    BY <1>3 DEF Broadcast
  <2> QED
    BY <1>1, <1>2, <1>3, <2>1 DEF Sends, Goes
<1>4. CASE how = "raised"
  <2>1. PICK S \in SUBSET {d \in T : cmd[d] = "open"} : Tell(S, sid)
    BY <1>4 DEF Broadcast
  <2>2. Raise(t)
    BY <1>4 DEF Broadcast
  <2>3. CASE t \in Device
    <3>1. Deregister(t, Idle) /\ Finished(t) = Idle
      BY <2>2, <2>3, TaskSorts DEF Raise, Finished
    <3> QED
      BY <1>1, <1>4, <2>1, <2>3, <3>1, DeregisterEffect, FrameTypes DEF Sends, Goes
  <2>4. CASE t \notin Device
    <3>1. Goto(t, Finished(t)) /\ UNCHANGED cmd
      BY <2>2, <2>4 DEF Raise
    <3> QED
      BY <1>1, <1>2, <1>4, <2>1, <3>1, FrameTypes DEF Sends, Goes
  <2> QED
    BY <2>3, <2>4
<1>5. CASE how = "parked"
  <2>1. PICK d \in {e \in T : cmd[e] = "open"},
             S \in SUBSET {e \in T : cmd[e] = "open"}, rest \in SUBSET T :
          /\ Tell(S, sid)
          /\ Goto(t, [at |-> label, arg |-> sid, todo |-> rest, drain |-> d])
    BY <1>5 DEF Broadcast
  <2>2. SendMaySuspend = TRUE /\ UNCHANGED cmd
    BY <1>5, DataAssumption DEF Broadcast
  <2>3. [at |-> label, arg |-> sid, todo |-> rest, drain |-> d] \in Frame
    BY DEF Frame
  <2> QED
    BY <1>1, <1>2, <1>5, <2>1, <2>2, <2>3 DEF Sends, Goes
<1> QED
  BY <1>3, <1>4, <1>5 DEF Outcome

\* LIVE_START: the session's runtime is installed if the broadcast completes and
\* its source is sound.
Starts(t, label, sid, frame, src) ==
  /\ Sends(t)
  /\ audio' = audio
  /\ \/ /\ src # "bad"
        /\ task'[t] = frame
        /\ live' = sid
        /\ rt' = [rt EXCEPT ![sid] = "ready"]
        /\ source' = [source EXCEPT ![sid] = src]
     \/ /\ task'[t] = Finished(t) \/ (src = "bad" /\ task'[t] = frame)
        /\ UNCHANGED <<live, rt, source>>
     \/ /\ task'[t].at = label /\ task'[t].arg = sid
        /\ SendMaySuspend = TRUE
        /\ UNCHANGED <<live, rt, source>>

LEMMA LiveStartEffect ==
  ASSUME LiveTypeOK, NEW t \in Task, NEW label \in Starting,
         NEW T \in SUBSET Device, NEW sid \in 0..MaxSessions,
         NEW frame \in Frame, NEW src \in {"once", "loop", "bad", "feed"},
         LiveStart(t, label, T, sid, frame, src)
  PROVE  Starts(t, label, sid, frame, src)
<1>1. PICK how \in Outcome :
        /\ Broadcast(t, label, T, sid, frame, how)
        /\ IF how = "sent" /\ src # "bad"
           THEN /\ live' = sid
                /\ rt' = [rt EXCEPT ![sid] = "ready"]
                /\ source' = [source EXCEPT ![sid] = src]
           ELSE UNCHANGED <<live, rt, source>>
        /\ audio' = audio
  BY DEF LiveStart
<1>2. label \in Label
  BY DEF Label
<1>3. Sends(t) /\ Goes(t, label, sid, frame, how)
  BY <1>1, <1>2, BroadcastEffect
<1> QED
  BY <1>1, <1>3 DEF Outcome, Goes, Starts

\* LIVE_STOP: the session ends if the broadcast completes.
Stops(t) ==
  /\ Sends(t)
  /\ live' \in {0, live}
  /\ gone' \subseteq Caster
  /\ stop_live \/ UNCHANGED session
  /\ UNCHANGED audio
  /\ task'[t].at \in Ending \cup {"stopWait", "idle", "done"}
  /\ task'[t].at \in Ending => SendMaySuspend = TRUE

LEMMA LiveStopEffect ==
  ASSUME LiveTypeOK, NEW t \in Task, NEW label \in Ending,
         NEW T \in SUBSET Device, NEW now \in {0, live},
         LiveStop(t, label, T, now)
  PROVE  Stops(t)
<1>1. PICK how \in Outcome :
        /\ Broadcast(t, label, T, 0, Finished(t), how)
        /\ EndSession(how)
        /\ live' = LiveAfter(how, label, now)
        /\ gone' = IF how = "sent" /\ label \in {"failSend", "abortSend"}
                   THEN gone \cup ({ingest} \cap Caster) ELSE gone \ {t}
        /\ UNCHANGED audio
  BY DEF LiveStop
<1>2. label \in Label /\ 0 \in 0..MaxSessions /\ Finished(t) \in Frame
  BY DataAssumption, FrameTypes DEF Label
<1>3. Sends(t) /\ Goes(t, label, 0, Finished(t), how)
  BY <1>1, <1>2, BroadcastEffect
<1>4. Finished(t).at \in {"idle", "done"}
  BY DEF Finished, Idle, At
<1>5. live' \in {0, live} /\ gone' \subseteq Caster
  BY <1>1 DEF LiveAfter, LiveTypeOK
<1>6. stop_live \/ UNCHANGED session
  BY <1>1 DEF EndSession
<1>7. /\ task'[t].at \in Ending \cup {"stopWait", "idle", "done"}
      /\ task'[t].at \in Ending => SendMaySuspend = TRUE
  BY <1>3, <1>4 DEF Goes, Outcome, Ending
<1> QED
  BY <1>1, <1>3, <1>5, <1>6, <1>7 DEF Stops

\* What follows `await runtime.stop()`.
LEMMA AfterStopEffect ==
  ASSUME LiveTypeOK, NEW t \in Task, AfterStop(t)
  PROVE  Stops(t) /\ rt' = rt
<1>1. CASE t \in Device /\ state # "LIVE"
  <2>1. /\ Goto(t, Idle) /\ live' = 0
        /\ gone' = gone \cup ({ingest} \cap Caster)
        /\ UNCHANGED <<session, cmd, audio, told, owes, rt>>
    BY <1>1 DEF AfterStop
  <2> QED
    BY <2>1, FrameTypes DEF Goto, LiveTypeOK, Idle, At, Ending, Stops, Sends
<1>2. CASE ~(t \in Device /\ state # "LIVE")
  <2> DEFINE label == IF t \in Device THEN "failSend" ELSE "stopSend"
  <2>1. LiveStop(t, label, Registered, 0) /\ rt' = rt
    BY <1>2 DEF AfterStop
  <2>2. label \in Ending /\ Registered \in SUBSET Device
    BY DEF Ending, Registered
  <2> HIDE DEF label
  <2> QED
    BY <2>1, <2>2, LiveStopEffect
<1> QED
  BY <1>1, <1>2

\* Stopping the runtime in app["live"], up to the first suspension.
LEMMA StopEffect ==
  ASSUME LiveTypeOK, NEW t \in Task, Stop(t)
  PROVE  /\ Stops(t)
         /\ rt' = rt \/ (live # 0 /\ rt[live] # "none"
                         /\ rt' = [rt EXCEPT ![live] = "stopping"])
<1>1. CASE live # 0 /\ rt[live] \in {"running", "stopping"}
  <2>1. /\ rt' = [rt EXCEPT ![live] = "stopping"]
        /\ Goto(t, At("stopWait", live))
        /\ gone' = gone \ {t}
        /\ UNCHANGED <<session, live, cmd, audio, told, owes>>
    BY <1>1 DEF Stop
  <2>2. At("stopWait", live) \in Frame
    BY FrameTypes DEF LiveTypeOK, Label
  <2> QED
    BY <1>1, <2>1, <2>2 DEF Goto, LiveTypeOK, At, Ending, Stops, Sends
<1>2. CASE ~(live # 0 /\ rt[live] \in {"running", "stopping"})
  <2>1. AfterStop(t)
    BY <1>2 DEF Stop
  <2> QED
    BY <2>1, AfterStopEffect
<1> QED
  BY <1>1, <1>2

-----------------------------------------------------------------------------
(* Type correctness *)

LEMMA StartType ==
  ASSUME LiveTypeOK, NEW t \in Task, NEW label, NEW sid \in 0..MaxSessions,
         NEW frame, NEW src \in {"once", "loop", "bad", "feed"},
         Starts(t, label, sid, frame, src),
         SessionTypeOK', (session_id <= MaxSessions)',
         ingest' \in Caster \cup {None},
         gone' \subseteq Caster, woken' \subseteq Task
  PROVE  LiveTypeOK'
<1>1. /\ live' \in 0..MaxSessions
      /\ rt' \in [Runtime -> {"none", "ready", "running", "stopping", "over"}]
      /\ source' \in [Runtime -> {"none", "once", "loop", "feed", "closed"}]
  BY DEF Starts, LiveTypeOK
<1>2. Sends(t) /\ audio' = audio
  BY DEF Starts
<1> QED
  BY <1>1, <1>2 DEF LiveTypeOK, Sends

LEMMA SessionTypes ==
  ASSUME LiveTypeOK, stop_live \/ UNCHANGED session
  PROVE  SessionTypeOK' /\ (session_id <= MaxSessions)'
BY DEF LiveTypeOK, SessionTypeOK, stop_live, session, State

LEMMA StopType ==
  ASSUME LiveTypeOK, NEW t, Stops(t),
         rt' \in [Runtime -> {"none", "ready", "running", "stopping", "over"}],
         source' \in [Runtime -> {"none", "once", "loop", "feed", "closed"}],
         ingest' \in Caster \cup {None}, woken' \subseteq Task
  PROVE  LiveTypeOK'
<1>1. SessionTypeOK' /\ (session_id <= MaxSessions)'
  BY SessionTypes DEF Stops
<1>2. /\ Sends(t) /\ live' \in {0, live} /\ gone' \subseteq Caster
      /\ UNCHANGED audio
  BY DEF Stops
<1> QED
  BY <1>1, <1>2, DataAssumption DEF LiveTypeOK, Sends

LEMMA StartLiveTypes ==
  ASSUME LiveTypeOK, session_id < MaxSessions, start_live
  PROVE  /\ SessionTypeOK' /\ (session_id <= MaxSessions)'
         /\ session_id + 1 \in 0..MaxSessions
BY DataAssumption DEF LiveTypeOK, SessionTypeOK, start_live, State

LEMMA RequestType ==
  ASSUME LiveTypeOK, NEW q \in Request, RequestStep(q), UNCHANGED woken
  PROVE  LiveTypeOK'
<1>1. q \in Task /\ Idle \in Frame /\ Registered \in SUBSET Device
  BY TaskSorts, FrameTypes DEF Registered
<1>2. CASE StartRequest(q)
  <2>1. PICK src \in {"once", "loop", "bad"} :
          LiveStart(q, "startSend", Registered, session_id + 1, Idle, src)
    BY <1>2, DataAssumption DEF StartRequest
  <2>2. /\ session_id < MaxSessions /\ start_live
        /\ UNCHANGED <<ingest, gone>>
    BY <1>2 DEF StartRequest
  <2>3. Starts(q, "startSend", session_id + 1, Idle, src)
    BY <1>1, <2>1, <2>2, StartLiveTypes, LiveStartEffect DEF Starting
  <2>4. /\ SessionTypeOK' /\ (session_id <= MaxSessions)'
        /\ session_id + 1 \in 0..MaxSessions
    BY <2>2, StartLiveTypes
  <2>5. /\ ingest' \in Caster \cup {None}
        /\ gone' \subseteq Caster /\ woken' \subseteq Task
    BY <2>2 DEF LiveTypeOK
  <2> QED
    BY <1>1, <2>3, <2>4, <2>5, StartType
<1>3. CASE ResumeStart(q)
  <2>1. /\ task[q].todo \in SUBSET Device /\ task[q].arg \in 0..MaxSessions
        /\ UNCHANGED <<session, ingest, gone>>
    BY <1>1, <1>3 DEF LiveTypeOK, Frame, ResumeStart
  <2>2. PICK src \in {"once", "loop", "bad"} :
          LiveStart(q, "startSend", task[q].todo, task[q].arg, Idle, src)
    BY <1>3, DataAssumption DEF ResumeStart
  <2>3. Starts(q, "startSend", task[q].arg, Idle, src)
    BY <1>1, <2>1, <2>2, LiveStartEffect DEF Starting
  <2>4. SessionTypeOK' /\ (session_id <= MaxSessions)'
    BY <2>1, SessionTypes
  <2>5. /\ ingest' \in Caster \cup {None}
        /\ gone' \subseteq Caster /\ woken' \subseteq Task
    BY <2>1 DEF LiveTypeOK
  <2> QED
    BY <1>1, <2>1, <2>3, <2>4, <2>5, StartType
<1>4. CASE StopRequest(q)
  <2>1. Stop(q) /\ UNCHANGED <<ingest, source>>
    BY <1>4 DEF StopRequest
  <2> QED
    BY <1>1, <2>1, StopEffect, StopType DEF LiveTypeOK
<1> QED
  BY <1>2, <1>3, <1>4 DEF RequestStep

LEMMA CasterType ==
  ASSUME LiveTypeOK, NEW c \in Caster, CasterStep(c), UNCHANGED woken
  PROVE  LiveTypeOK'
<1>1. /\ c \in Task /\ Registered \in SUBSET Device
      /\ woken' \subseteq Task
  BY TaskSorts DEF Registered, LiveTypeOK
<1>2. ASSUME NEW sid \in 0..MaxSessions
      PROVE  At("casting", sid) \in Frame
  BY FrameTypes DEF Label
<1>3. CASE Admit(c)
  <2> DEFINE sid == session_id + 1
  <2>1. /\ session_id < MaxSessions /\ start_live
        /\ ingest' = c /\ gone' = gone \ {c}
    BY <1>3 DEF Admit
  <2>2. SessionTypeOK' /\ (session_id <= MaxSessions)' /\ sid \in 0..MaxSessions
    BY <2>1, StartLiveTypes
  <2>3. PICK label \in Starting, T \in SUBSET Device :
          /\ LiveStart(c, label, T, sid, At("casting", sid), "feed")
    BY <1>1, <1>3, DataAssumption DEF Admit, Starting
  <2>4. /\ ingest' \in Caster \cup {None}
        /\ gone' \subseteq Caster
    BY <2>1 DEF LiveTypeOK
  <2> HIDE DEF sid
  <2>5. Starts(c, label, sid, At("casting", sid), "feed")
    BY <1>1, <1>2, <2>2, <2>3, LiveStartEffect
  <2> QED
    BY <1>1, <2>2, <2>3, <2>4, <2>5, StartType
<1>4. CASE ResumeAdmit(c)
  <2>1. /\ task[c].todo \in SUBSET Device /\ task[c].arg \in 0..MaxSessions
        /\ task[c].at \in Starting
        /\ UNCHANGED <<session, ingest, gone>>
    BY <1>1, <1>4 DEF LiveTypeOK, Frame, ResumeAdmit, Starting
  <2>2. LiveStart(c, task[c].at, task[c].todo, task[c].arg,
                  At("casting", task[c].arg), "feed")
    BY <1>4 DEF ResumeAdmit
  <2>3. Starts(c, task[c].at, task[c].arg, At("casting", task[c].arg), "feed")
    BY <1>1, <1>2, <2>1, <2>2, LiveStartEffect
  <2>4. SessionTypeOK' /\ (session_id <= MaxSessions)'
    BY <2>1, SessionTypes
  <2>5. /\ ingest' \in Caster \cup {None}
        /\ gone' \subseteq Caster
    BY <2>1 DEF LiveTypeOK
  <2> QED
    BY <1>1, <2>1, <2>3, <2>4, <2>5, StartType
<1>5. CASE HangUp(c)
  BY <1>5 DEF HangUp, LiveTypeOK, SessionTypeOK, session
<1>6. CASE CastEnd(c)
  <2>1. /\ source' \in [Runtime -> {"none", "once", "loop", "feed", "closed"}]
        /\ ingest' \in Caster \cup {None}
    BY <1>6 DEF CastEnd, close, clear_ingest, LiveTypeOK
  <2>2. CASE live = task[c].arg
    <3>1. Stop(c)
      BY <1>6, <2>2 DEF CastEnd
    <3>2. rt' \in [Runtime -> {"none", "ready", "running", "stopping", "over"}]
      BY <1>1, <3>1, StopEffect DEF LiveTypeOK
    <3> QED
      BY <1>1, <2>1, <3>1, <3>2, StopEffect, StopType
  <2>3. CASE live # task[c].arg
    <3>1. /\ Goto(c, Idle) /\ gone' = gone \ {c}
          /\ UNCHANGED <<session, live, cmd, audio, told, owes, rt>>
      BY <1>6, <2>3 DEF CastEnd
    <3> QED
      BY <1>1, <2>1, <3>1, FrameTypes
      DEF LiveTypeOK, SessionTypeOK, session, Goto
  <2> QED
    BY <2>2, <2>3
<1> QED
  BY <1>3, <1>4, <1>5, <1>6 DEF CasterStep

LEMMA DeviceType ==
  ASSUME LiveTypeOK, NEW d \in Device, DeviceStep(d), UNCHANGED woken
  PROVE  LiveTypeOK'
<1>1. d \in Task /\ woken' \subseteq Task /\ Idle \in Frame
  BY TaskSorts, FrameTypes DEF LiveTypeOK
<1>2. CASE Connect(d)
  <2>1. told' \in [Device -> 0..MaxSessions] /\ owes' \subseteq Device
    BY <1>2, DataAssumption DEF Connect, _resync_live, LiveTypeOK, SessionTypeOK
  <2>2. At("leaked", 0) \in Frame
    BY FrameTypes, DataAssumption DEF Label
  <2>3. PICK status \in {"open", "lost"}, frame \in {Idle, At("leaked", 0)} :
          cmd' = [cmd EXCEPT ![d] = status] /\ Forget(d, frame)
    BY <1>2, ConnectEffect
  <2>4. task' \in [Task -> Frame]
    BY <1>1, <2>2, <2>3, ForgetEffect
  <2> QED
    BY <1>1, <1>2, <2>1, <2>3, <2>4, ConnectEffect DEF LiveTypeOK, SessionTypeOK, session
<1>3. CASE Lose(d) \/ Heartbeat(d)
  BY <1>1, <1>3 DEF Lose, Heartbeat, LiveTypeOK, SessionTypeOK, session
<1>4. CASE Cleanup(d) \/ Leave(d)
  <2>1. /\ Deregister(d, Idle)
        /\ told' = [told EXCEPT ![d] = 0]
        /\ UNCHANGED <<session, live, ingest, audio, owes, rt, source, gone>>
    BY <1>4 DEF Cleanup, Leave
  <2>2. told' \in [Device -> 0..MaxSessions]
    BY <2>1, DataAssumption DEF LiveTypeOK
  <2>3. /\ cmd' \in [Device -> {"off", "open", "lost", "closed"}]
        /\ task' \in [Task -> Frame]
    BY <1>1, <2>1, DeregisterEffect
  <2> QED
    BY <1>1, <2>1, <2>2, <2>3 DEF LiveTypeOK, SessionTypeOK, session
<1>5. CASE OpenAudio(d)
  BY <1>1, <1>5 DEF OpenAudio, LiveTypeOK, SessionTypeOK, session
<1>6. CASE ReportFailure(d)
  <2>1. At("report", 0) \in Frame
    BY FrameTypes, DataAssumption DEF Label
  <2> QED
    BY <1>1, <1>6, <2>1 DEF ReportFailure, Goto, LiveTypeOK, SessionTypeOK, session
<1>7. CASE HandleFailure(d)
  <2>1. Stop(d) /\ UNCHANGED <<ingest, source>>
    BY <1>7 DEF HandleFailure
  <2>2. rt' \in [Runtime -> {"none", "ready", "running", "stopping", "over"}]
    BY <1>1, <2>1, StopEffect DEF LiveTypeOK
  <2> QED
    BY <1>1, <2>1, <2>2, StopEffect, StopType DEF LiveTypeOK
<1>8. CASE CloseAudio(d)
  BY <1>1, <1>8 DEF CloseAudio, LiveTypeOK, SessionTypeOK, session
<1> QED
  BY <1>2, <1>3, <1>4, <1>5, <1>6, <1>7, <1>8 DEF DeviceStep

LEMMA RuntimeType ==
  ASSUME LiveTypeOK, NEW r \in Runtime, RuntimeStep(r), UNCHANGED woken
  PROVE  LiveTypeOK'
<1>1. /\ r \in Task /\ woken' \subseteq Task
      /\ Finished(r) \in Frame /\ At("pacing", 0) \in Frame
      /\ Registered \in SUBSET Device
  BY TaskSorts, FrameTypes, DataAssumption DEF Label, Registered, LiveTypeOK
<1>2. CASE StartPacing(r)
  BY <1>1, <1>2 DEF StartPacing, Goto, LiveTypeOK, SessionTypeOK, session
<1>3. ASSUME NEW label \in Ending, LiveStop(r, label, Registered, live),
             UNCHANGED <<ingest, rt, source>>
      PROVE  LiveTypeOK'
  <2>1. Stops(r)
    BY <1>1, <1>3, LiveStopEffect
  <2>2. /\ rt' \in [Runtime -> {"none", "ready", "running", "stopping", "over"}]
        /\ source' \in [Runtime -> {"none", "once", "loop", "feed", "closed"}]
        /\ ingest' \in Caster \cup {None}
    BY <1>3 DEF LiveTypeOK
  <2> QED
    BY <1>1, <2>1, <2>2, StopType
<1>4. ASSUME Goto(r, Finished(r)),
             UNCHANGED <<session, live, cmd, audio, told, owes, gone>>,
             UNCHANGED <<ingest, rt, source>>
      PROVE  LiveTypeOK'
  BY <1>1, <1>4 DEF Goto, LiveTypeOK, SessionTypeOK, session
<1>5. CASE Abort(r)
  BY <1>3, <1>4, <1>5 DEF Abort, Ending
<1>6. CASE RunEnd(r)
  BY <1>3, <1>4, <1>6 DEF RunEnd, Ending
<1>7. CASE Drain(r)
  BY <1>1, <1>7 DEF Drain, LiveTypeOK, SessionTypeOK, session
<1>8. CASE Cancelled(r)
  BY <1>1, <1>8 DEF Cancelled, Goto, LiveTypeOK, SessionTypeOK, session
<1> QED
  BY <1>2, <1>5, <1>6, <1>7, <1>8 DEF RuntimeStep

\* FILE touches the session only.
FileStep == StartFile \/ EndFile \/ ExpireFile

LEMMA FileType ==
  ASSUME LiveTypeOK, FileStep, UNCHANGED woken
  PROVE  LiveTypeOK'
<1>1. SessionTypeOK' /\ session_id' = session_id
  <2>1. CASE StartFile
    <3>1. /\ state' = "FILE" /\ file_id' = file_id + 1
          /\ file_stale' = FALSE /\ session_id' = session_id
      BY <2>1 DEF StartFile, start_file
    <3>2. file_stale' \in BOOLEAN
      BY <3>1, Zenon
    <3>3. state' \in State /\ session_id' \in Nat /\ file_id' \in Nat
      BY <3>1 DEF LiveTypeOK, SessionTypeOK, State
    <3> QED
      BY <3>1, <3>2, <3>3, Zenon DEF SessionTypeOK
  <2>2. CASE EndFile
    <3>1. /\ state' = "IDLE" /\ file_stale' = FALSE
          /\ UNCHANGED <<session_id, file_id>>
      BY <2>2 DEF EndFile, stop_file
    <3>2. file_stale' \in BOOLEAN
      BY <3>1, Zenon
    <3>3. state' \in State /\ session_id' \in Nat /\ file_id' \in Nat
      BY <3>1 DEF LiveTypeOK, SessionTypeOK, State
    <3> QED
      BY <3>1, <3>2, <3>3, Zenon DEF SessionTypeOK
  <2>3. CASE ExpireFile
    <3>1. file_stale' = TRUE /\ UNCHANGED <<state, session_id, file_id>>
      BY <2>3 DEF ExpireFile, FileExpires
    <3>2. file_stale' \in BOOLEAN
      BY <3>1, Zenon
    <3>3. state' \in State /\ session_id' \in Nat /\ file_id' \in Nat
      BY <3>1 DEF LiveTypeOK, SessionTypeOK
    <3> QED
      BY <3>1, <3>2, <3>3, Zenon DEF SessionTypeOK
  <2> QED
    BY <2>1, <2>2, <2>3 DEF FileStep
<1>2. UNCHANGED others
  BY DEF FileStep, StartFile, EndFile, ExpireFile
<1> QED
  BY <1>1, <1>2 DEF others, LiveTypeOK

LEMMA StopsTypes ==
  ASSUME LiveTypeOK, NEW t \in Task, Stopped(t) \/ (ResumeStop(t) /\ UNCHANGED woken)
  PROVE  LiveTypeOK' /\ Stops(t) /\ UNCHANGED <<ingest, rt, source>>
<1>1. CASE Stopped(t)
  <2>1. /\ AfterStop(t) /\ UNCHANGED <<ingest, source>>
        /\ woken' \subseteq Task
    BY <1>1 DEF Stopped, Waiting
  <2>2. Stops(t) /\ rt' = rt
    BY <2>1, AfterStopEffect
  <2> QED
    BY <2>1, <2>2, StopType DEF LiveTypeOK
<1>2. CASE ResumeStop(t) /\ UNCHANGED woken
  <2>1. /\ task[t].at \in Ending /\ task[t].todo \in SUBSET Device
        /\ LiveStop(t, task[t].at, task[t].todo, live)
        /\ UNCHANGED <<ingest, rt, source>>
    BY <1>2 DEF ResumeStop, LiveTypeOK, Frame
  <2>2. Stops(t)
    BY <2>1, LiveStopEffect
  <2> QED
    BY <1>2, <2>1, <2>2, StopType DEF LiveTypeOK
<1> QED
  BY <1>1, <1>2

LEMMA InitType == Init => LiveTypeOK
<1> SUFFICES ASSUME Init PROVE LiveTypeOK
  OBVIOUS
<1>1. SessionTypeOK /\ session_id <= MaxSessions
  <2>1. /\ state \in State /\ session_id \in Nat /\ file_id \in Nat
        /\ session_id <= MaxSessions
    BY DataAssumption DEF Init, SessionInit, State
  <2>2. file_stale \in BOOLEAN
    BY Zenon DEF Init, SessionInit
  <2> QED
    BY <2>1, <2>2, Zenon DEF SessionTypeOK
<1> QED
  BY <1>1, DataAssumption, FrameTypes DEF Init, LiveTypeOK

\* Every value the coroutines share or keep in their locals is of its kind; in
\* particular no session id or counter is out of range.
THEOREM TypeCorrect == Spec => []LiveTypeOK
<1>1. Init => LiveTypeOK
  BY InitType
<1>2. LiveTypeOK /\ [Next]_vars => LiveTypeOK'
  <2> SUFFICES ASSUME LiveTypeOK, [Next]_vars
               PROVE  LiveTypeOK'
    OBVIOUS
  <2>1. CASE \E t \in Task : Stopped(t) \/ (ResumeStop(t) /\ UNCHANGED woken)
    BY <2>1, StopsTypes
  <2>2. CASE \E q \in Request : RequestStep(q) /\ UNCHANGED woken
    BY <2>2, RequestType
  <2>3. CASE \E c \in Caster : CasterStep(c) /\ UNCHANGED woken
    BY <2>3, CasterType
  <2>4. CASE \E d \in Device : DeviceStep(d) /\ UNCHANGED woken
    BY <2>4, DeviceType
  <2>5. CASE \E r \in Runtime : RuntimeStep(r) /\ UNCHANGED woken
    BY <2>5, RuntimeType
  <2>6. CASE FileStep /\ UNCHANGED woken
    BY <2>6, FileType
  <2>7. CASE UNCHANGED vars
    BY <2>7 DEF vars, session, LiveTypeOK, SessionTypeOK
  <2> QED
    BY <2>1, <2>2, <2>3, <2>4, <2>5, <2>6, <2>7 DEF Next, FileStep
<1> QED
  BY <1>1, <1>2, PTL DEF Spec

-----------------------------------------------------------------------------
(* The contract of SessionManager *)

LEMMA SessionSteps ==
  ASSUME LiveTypeOK, [Next]_vars
  PROVE  [SessionNext]_session
<1>1. ASSUME NEW t \in Task, Stopped(t) \/ (ResumeStop(t) /\ UNCHANGED woken)
      PROVE  [SessionNext]_session
  BY <1>1, StopsTypes DEF Stops, SessionNext
<1>2. ASSUME NEW q \in Request, RequestStep(q)
      PROVE  [SessionNext]_session
  <2>1. q \in Task
    BY TaskSorts
  <2> QED
    BY <1>2, <2>1, StopEffect
    DEF RequestStep, StartRequest, ResumeStart, StopRequest, Stops, SessionNext
<1>3. ASSUME NEW c \in Caster, CasterStep(c)
      PROVE  [SessionNext]_session
  <2>1. c \in Task
    BY TaskSorts
  <2> QED
    BY <1>3, <2>1, StopEffect
    DEF CasterStep, Admit, MayCast, ResumeAdmit, HangUp, CastEnd, Stops, SessionNext
<1>4. ASSUME NEW d \in Device, DeviceStep(d)
      PROVE  [SessionNext]_session
  <2>1. d \in Task
    BY TaskSorts
  <2> QED
    BY <1>4, <2>1, StopEffect
    DEF DeviceStep, Connect, Heartbeat, Lose, Cleanup, Leave, OpenAudio, ReportFailure,
        HandleFailure, CloseAudio, Stops, SessionNext
<1>5. ASSUME NEW r \in Runtime, RuntimeStep(r)
      PROVE  [SessionNext]_session
  <2>1. r \in Task /\ Registered \in SUBSET Device
    BY TaskSorts DEF Registered
  <2>2. ASSUME NEW label \in Ending, LiveStop(r, label, Registered, live)
        PROVE  [SessionNext]_session
    BY <2>1, <2>2, LiveStopEffect DEF Stops, SessionNext
  <2> QED
    BY <1>5, <2>2
    DEF RuntimeStep, StartPacing, Abort, Drain, Cancelled, RunEnd, Ending
<1>6. CASE FileStep
  BY <1>6 DEF FileStep, StartFile, EndFile, ExpireFile, SessionNext
<1>7. CASE UNCHANGED vars
  BY <1>7 DEF vars
<1> QED
  BY <1>1, <1>2, <1>3, <1>4, <1>5, <1>6, <1>7 DEF Next, FileStep

\* No handler can make the session do what SessionManager does not allow: every
\* start comes straight after its check, however the handlers interleave.
THEOREM RefinesSession == Spec => SessionSpec
<1>1. Init => SessionInit
  BY DEF Init
<1>2. LiveTypeOK /\ [Next]_vars => [SessionNext]_session
  BY SessionSteps
<1> QED
  BY <1>1, <1>2, TypeCorrect, PTL DEF Spec, SessionSpec

-----------------------------------------------------------------------------
(* Broadcasters and the sessions they own *)

\* A step that neither starts a session nor ends a studio's stream.
Calm ==
  /\ UNCHANGED <<session_id, ingest, source>>
  /\ \A r \in Runtime : rt'[r] = "none" <=> rt[r] = "none"

\* t moves, out of any start or stream it was in.
Quits(t) ==
  /\ \A u \in Task \ {t} :
       task'[u].at = task[u].at /\ task'[u].arg = task[u].arg
  /\ task'[t].at \notin Starting \cup {"casting"}

LEMMA StopsQuit ==
  ASSUME NEW t, Stops(t)
  PROVE  Quits(t) /\ session_id' = session_id
BY DEF Stops, Sends, Quits, Ending, Starting, stop_live, session

LEMMA StopCalm ==
  ASSUME LiveTypeOK, NEW t \in Task, Stop(t)
  PROVE  /\ Quits(t) /\ session_id' = session_id
         /\ \A r \in Runtime : rt'[r] = "none" <=> rt[r] = "none"
<1>1. Quits(t) /\ session_id' = session_id
  BY StopEffect, StopsQuit
<1>2. rt' = rt \/ (live # 0 /\ rt[live] # "none"
                   /\ rt' = [rt EXCEPT ![live] = "stopping"])
  BY StopEffect
<1> QED
  BY <1>1, <1>2 DEF LiveTypeOK

LEMMA GotoQuits ==
  ASSUME LiveTypeOK, NEW t \in Task, NEW frame, Goto(t, frame),
         frame.at \notin Starting \cup {"casting"}
  PROVE  Quits(t)
BY DEF Goto, Quits, LiveTypeOK

LEMMA QuietFrames ==
  /\ Idle.at \notin Starting \cup {"casting"}
  /\ \A t : Finished(t).at \notin Starting \cup {"casting"}
  /\ \A n : /\ At("pacing", n).at \notin Starting \cup {"casting"}
            /\ At("report", n).at \notin Starting \cup {"casting"}
            /\ At("leaked", n).at \notin Starting \cup {"casting"}
BY DEF Idle, Finished, At, Starting

\* A calm step moves at most one coroutine, and never into a start or a stream.
Rest == \/ \A u \in Task : task'[u].at = task[u].at /\ task'[u].arg = task[u].arg
        \/ \E t \in Task : Quits(t)

LEMMA CalmDevice ==
  ASSUME LiveTypeOK, NEW d \in Device, DeviceStep(d)
  PROVE  Calm /\ Rest
<1>1. d \in Task /\ Idle \in Frame
  BY TaskSorts, FrameTypes
<1>2. CASE Heartbeat(d) \/ Lose(d) \/ OpenAudio(d) \/ CloseAudio(d)
  BY <1>2 DEF Heartbeat, Lose, OpenAudio, CloseAudio, Calm, Rest, session
<1>3. CASE Cleanup(d) \/ Leave(d)
  <2>1. Deregister(d, Idle) /\ UNCHANGED <<session, ingest, rt, source>>
    BY <1>3 DEF Cleanup, Leave
  <2>2. Quits(d)
    BY <1>1, <2>1, DeregisterEffect, QuietFrames DEF Quits
  <2> QED
    BY <1>1, <2>1, <2>2 DEF Calm, Rest, session
<1>4. CASE ReportFailure(d)
  <2>1. Goto(d, At("report", 0)) /\ UNCHANGED <<session, ingest, rt, source>>
    BY <1>4 DEF ReportFailure
  <2>2. Quits(d)
    BY <1>1, <2>1, GotoQuits, QuietFrames
  <2> QED
    BY <1>1, <2>1, <2>2 DEF Calm, Rest, session
<1>5. CASE HandleFailure(d)
  <2>1. Stop(d) /\ UNCHANGED <<ingest, source>>
    BY <1>5 DEF HandleFailure
  <2> QED
    BY <1>1, <2>1, StopCalm DEF Calm, Rest
<1>6. CASE Connect(d)
  <2>1. At("leaked", 0) \in Frame
    BY FrameTypes, DataAssumption DEF Label
  <2>2. PICK frame \in {Idle, At("leaked", 0)} : Forget(d, frame)
    BY <1>6, ConnectEffect
  <2>3. Quits(d)
    BY <1>1, <2>1, <2>2, ForgetEffect, QuietFrames DEF Quits
  <2> QED
    BY <1>1, <1>6, <2>3, ConnectEffect DEF Calm, Rest, session
<1> QED
  BY <1>2, <1>3, <1>4, <1>5, <1>6 DEF DeviceStep

LEMMA CalmRuntime ==
  ASSUME LiveTypeOK, NEW r \in Runtime, RuntimeStep(r)
  PROVE  Calm /\ Rest
<1>1. r \in Task /\ Registered \in SUBSET Device
  BY TaskSorts DEF Registered
<1>2. ASSUME NEW frame, Goto(r, frame), frame.at \notin Starting \cup {"casting"}
      PROVE  Rest
  BY <1>1, <1>2, GotoQuits DEF Rest
<1>3. ASSUME NEW label \in Ending, LiveStop(r, label, Registered, live)
      PROVE  Rest /\ session_id' = session_id
  BY <1>1, <1>3, LiveStopEffect, StopsQuit DEF Rest
<1>4. CASE StartPacing(r)
  <2>1. /\ Goto(r, At("pacing", 0)) /\ UNCHANGED <<session, ingest, source>>
        /\ rt[r] = "ready" /\ rt' = [rt EXCEPT ![r] = "running"]
    BY <1>4 DEF StartPacing
  <2> QED
    BY <1>2, <2>1, QuietFrames DEF Calm, LiveTypeOK, session
<1>5. ASSUME Goto(r, Finished(r)), UNCHANGED session
      PROVE  Rest /\ session_id' = session_id
  BY <1>2, <1>5, QuietFrames DEF session
<1>6. CASE Abort(r)
  BY <1>3, <1>5, <1>6 DEF Abort, Calm, Ending
<1>7. CASE RunEnd(r)
  BY <1>3, <1>5, <1>7 DEF RunEnd, Calm, Ending
<1>8. CASE Drain(r)
  BY <1>8 DEF Drain, Calm, Rest, LiveTypeOK, session
<1>9. CASE Cancelled(r)
  <2>1. /\ Goto(r, Finished(r)) \/ UNCHANGED task
        /\ rt[r] = "stopping" /\ rt' = [rt EXCEPT ![r] = "over"]
        /\ UNCHANGED <<session, ingest, source>>
    BY <1>9 DEF Cancelled
  <2>2. Rest
    BY <1>5, <2>1 DEF Rest
  <2> QED
    BY <2>1, <2>2 DEF Calm, LiveTypeOK, session
<1> QED
  BY <1>4, <1>6, <1>7, <1>8, <1>9 DEF RuntimeStep

\* All steps but five are calm.
LEMMA CalmSteps ==
  ASSUME LiveTypeOK, [Next]_vars
  PROVE  \/ Calm /\ Rest
         \/ \E q \in Request : StartRequest(q) \/ ResumeStart(q)
         \/ \E c \in Caster : Admit(c) \/ ResumeAdmit(c) \/ CastEnd(c)
<1>1. ASSUME NEW t \in Task, Stopped(t) \/ (ResumeStop(t) /\ UNCHANGED woken)
      PROVE  Calm /\ Rest
  <2>1. Stops(t) /\ UNCHANGED <<ingest, rt, source>>
    BY <1>1, StopsTypes
  <2> QED
    BY <2>1, StopsQuit DEF Calm, Rest
<1>2. ASSUME NEW q \in Request, StopRequest(q)
      PROVE  Calm /\ Rest
  <2>1. q \in Task /\ Stop(q) /\ UNCHANGED <<ingest, source>>
    BY <1>2, TaskSorts DEF StopRequest
  <2> QED
    BY <2>1, StopCalm DEF Calm, Rest
<1>3. ASSUME NEW c \in Caster, HangUp(c)
      PROVE  Calm /\ Rest
  BY <1>3 DEF HangUp, Calm, Rest, session
<1>4. ASSUME FileStep
      PROVE  Calm /\ Rest
  BY <1>4 DEF FileStep, StartFile, EndFile, ExpireFile, start_file, stop_file,
              FileExpires, others, Calm, Rest
<1>5. ASSUME UNCHANGED vars
      PROVE  Calm /\ Rest
  BY <1>5 DEF vars, session, Calm, Rest
<1> QED
  BY <1>1, <1>2, <1>3, <1>4, <1>5, CalmDevice, CalmRuntime
  DEF Next, RequestStep, CasterStep, FileStep

\* OneBroadcaster and OwnSession are not inductive by themselves: a start must
\* be known to work on a session that was counted and has no runtime yet.
Owned ==
  /\ LiveTypeOK
  /\ OneBroadcaster
  /\ OwnSession
  /\ \A r \in Runtime : r > session_id => rt[r] = "none"
  /\ \A t \in Task : task[t].at \in Starting => task[t].arg \in 1..session_id
  /\ \A c \in Caster : task[c].at = "casting"
                         => task[c].arg \in Runtime /\ rt[task[c].arg] # "none"

LEMMA CalmOwned ==
  ASSUME Owned, LiveTypeOK', Calm, Rest
  PROVE  Owned'
<1> USE DEF Owned, Calm, LiveTypeOK
<1>1. \A u \in Task : \/ task'[u].at = task[u].at /\ task'[u].arg = task[u].arg
                      \/ task'[u].at \notin Starting \cup {"casting"}
  BY DEF Rest, Quits
<1>2. Caster \subseteq Task
  BY TaskSorts
<1>3. OneBroadcaster'
  BY <1>1, <1>2 DEF OneBroadcaster, Casting, Starting
<1>4. \A t \in Task : task[t].at \in Starting => task[t].arg \in Runtime
  BY DataAssumption DEF Runtime, SessionTypeOK
<1>5. OwnSession'
  BY <1>1, <1>2, <1>4 DEF OwnSession
<1>6. /\ \A r \in Runtime : r > session_id' => rt'[r] = "none"
      /\ \A t \in Task : task'[t].at \in Starting => task'[t].arg \in 1..session_id'
      /\ \A c \in Caster : task'[c].at = "casting"
                             => task'[c].arg \in Runtime /\ rt'[task'[c].arg] # "none"
  BY <1>1, <1>2
<1> QED
  BY <1>3, <1>5, <1>6

\* t starts session sid, which nobody else starts and which has no runtime.
Installs(t, sid, frame, src) ==
  /\ sid \in Runtime
  /\ rt[sid] = "none"
  /\ \A u \in Task \ {t} : task[u].at \in Starting => task[u].arg # sid
  /\ session_id <= session_id' /\ sid <= session_id'
  /\ \/ frame = Idle
     \/ frame = At("casting", sid) /\ src = "feed" /\ ingest' = t
  /\ \/ ingest' = ingest
     \/ ingest' = t /\ ingest = None
  /\ task[t].at # "casting"

LEMMA InstallOwned ==
  ASSUME Owned, LiveTypeOK', NEW t \in Task, NEW label \in Starting, NEW sid,
         NEW frame, NEW src, Starts(t, label, sid, frame, src),
         Installs(t, sid, frame, src),
         t \in Caster => ingest' = t,
         frame.at = "casting" => t \in Caster
  PROVE  Owned'
<1> USE DEF Owned, LiveTypeOK
<1>1. Caster \subseteq Task /\ None \notin Caster
  BY TaskSorts
<1>2. \A u \in Task \ {t} : task'[u].at = task[u].at /\ task'[u].arg = task[u].arg
  BY DEF Starts, Sends
<1>3. \/ /\ task'[t] = frame
         /\ rt' = [rt EXCEPT ![sid] = "ready"]
         /\ source' = [source EXCEPT ![sid] = src]
      \/ task'[t] \in {Finished(t), Idle} /\ UNCHANGED <<rt, source>>
      \/ /\ task'[t].at = label /\ task'[t].arg = sid
         /\ UNCHANGED <<rt, source>>
  BY DEF Starts, Installs
<1>4. /\ Finished(t).at \notin Starting \cup {"casting"}
      /\ Idle.at \notin Starting \cup {"casting"}
      /\ At("casting", sid).at = "casting" /\ At("casting", sid).arg = sid
      /\ "casting" \notin Starting
  BY QuietFrames DEF At, Starting
<1>5. /\ sid \in Runtime /\ rt[sid] = "none" /\ task[t].at # "casting"
      /\ \A u \in Task \ {t} : task[u].at \in Starting => task[u].arg # sid
      /\ session_id <= session_id' /\ sid <= session_id'
      /\ \/ frame = Idle
         \/ frame = At("casting", sid) /\ src = "feed"
      /\ \/ ingest' = ingest
         \/ ingest' = t /\ ingest = None
  BY DEF Installs
<1>6. session_id \in Nat /\ session_id' \in Nat /\ sid \in Nat /\ 1 <= sid
  BY <1>5, DataAssumption DEF SessionTypeOK, Runtime
<1>7. OneBroadcaster'
  <2>1. \A c \in Caster \ {t} : Casting(c)' => Casting(c)
    BY <1>1, <1>2 DEF Casting
  <2> QED
    BY <1>1, <1>5, <2>1 DEF OneBroadcaster
<1>8. \A r \in Runtime : r > session_id' => rt'[r] = "none"
  BY <1>3, <1>5, <1>6, DataAssumption DEF Runtime
<1>9. \A u \in Task : task'[u].at \in Starting => task'[u].arg \in 1..session_id'
  BY <1>2, <1>3, <1>4, <1>5, <1>6
<1>10. \A c \in Caster : task'[c].at = "casting"
                          => task'[c].arg \in Runtime /\ rt'[task'[c].arg] # "none"
  <2> TAKE c \in Caster
  <2>1. CASE c = t
    BY <1>3, <1>4, <1>5, <2>1 DEF Starting
  <2>2. CASE c # t
    BY <1>1, <1>2, <1>3, <1>5, <2>2
  <2> QED
    BY <2>1, <2>2
<1>11. OwnSession'
  <2>1. \A u, v \in Task : task'[u].at \in Starting /\ task'[v].at \in Starting /\ u # v
                             => task'[u].arg # task'[v].arg
    BY <1>2, <1>3, <1>4, <1>5 DEF OwnSession
  <2>2. \A u \in Task : task'[u].at \in Starting => rt'[task'[u].arg] = "none"
    <3> SUFFICES ASSUME NEW u \in Task, task'[u].at \in Starting
                 PROVE  rt'[task'[u].arg] = "none"
      OBVIOUS
    <3>1. CASE u = t
      <4>1. task'[t].at \in Starting /\ rt[sid] = "none"
        BY <1>5, <3>1
      <4>2. task'[t] # frame /\ task'[t] \notin {Finished(t), Idle}
        BY <1>4, <1>5, <4>1
      <4>3. task'[t].arg = sid /\ rt' = rt
        BY <1>3, <4>2
      <4> QED
        BY <3>1, <4>1, <4>3
    <3>2. CASE u # t
      <4>1. task[u].arg # sid /\ rt[task[u].arg] = "none" /\ task'[u].arg = task[u].arg
        BY <1>2, <1>5, <3>2 DEF OwnSession
      <4>2. task[u].arg \in 1..session_id
        BY <1>2, <3>2
      <4>3. task[u].arg \in Runtime
        BY <1>6, <4>2, DataAssumption DEF Runtime
      <4> QED
        BY <1>3, <4>1, <4>3
    <3> QED
      BY <3>1, <3>2
  <2>3. \A c \in Caster : task'[c].at = "casting" => source'[task'[c].arg] = "feed"
    <3> TAKE c \in Caster
    <3>1. CASE c = t
      BY <1>3, <1>4, <1>5, <3>1 DEF Starting
    <3>2. CASE c # t
      BY <1>1, <1>2, <1>3, <1>5, <3>2 DEF OwnSession
    <3> QED
      BY <3>1, <3>2
  <2> QED
    BY <2>1, <2>2, <2>3 DEF OwnSession
<1> QED
  BY <1>7, <1>8, <1>9, <1>10, <1>11

LEMMA RequestOwned ==
  ASSUME Owned, LiveTypeOK', NEW q \in Request, StartRequest(q) \/ ResumeStart(q)
  PROVE  Owned'
<1> USE DEF Owned
<1>1. /\ q \in Task /\ q \notin Caster /\ Idle \in Frame
      /\ Registered \in SUBSET Device /\ Idle.at # "casting"
  BY TaskSorts, FrameTypes, QuietFrames DEF Registered
<1>2. CASE StartRequest(q)
  <2>1. PICK src \in {"once", "loop", "bad"} :
          LiveStart(q, "startSend", Registered, session_id + 1, Idle, src)
    BY <1>2, DataAssumption DEF StartRequest
  <2>2. /\ task[q].at = "idle" /\ session_id < MaxSessions /\ start_live
        /\ ingest' = ingest
    BY <1>2 DEF StartRequest
  <2>3. Starts(q, "startSend", session_id + 1, Idle, src)
    BY <1>1, <2>1, <2>2, StartLiveTypes, LiveStartEffect DEF Starting
  <2>4. Installs(q, session_id + 1, Idle, src)
    BY <2>2, DataAssumption
    DEF Installs, start_live, Runtime, LiveTypeOK, SessionTypeOK
  <2> QED
    BY <1>1, <2>3, <2>4, InstallOwned DEF Starting
<1>3. CASE ResumeStart(q)
  <2>1. PICK src \in {"once", "loop", "bad"} :
          LiveStart(q, "startSend", task[q].todo, task[q].arg, Idle, src)
    BY <1>3, DataAssumption DEF ResumeStart
  <2>2. /\ task[q].at = "startSend" /\ ingest' = ingest
        /\ session_id' = session_id
    BY <1>3 DEF ResumeStart, session
  <2>3. /\ task[q].todo \in SUBSET Device /\ task[q].arg \in 0..MaxSessions
        /\ task[q].arg \in 1..session_id
    BY <1>1, <2>2 DEF LiveTypeOK, Frame, Starting
  <2>4. Starts(q, "startSend", task[q].arg, Idle, src)
    BY <1>1, <2>1, <2>3, LiveStartEffect DEF Starting
  <2>5. Installs(q, task[q].arg, Idle, src)
    BY <1>1, <2>2, <2>3, DataAssumption
    DEF Installs, OwnSession, Starting, Runtime, LiveTypeOK, SessionTypeOK
  <2> QED
    BY <1>1, <2>4, <2>5, InstallOwned DEF Starting
<1> QED
  BY <1>2, <1>3

LEMMA AdmitOwned ==
  ASSUME Owned, LiveTypeOK', NEW c \in Caster, Admit(c) \/ ResumeAdmit(c)
  PROVE  Owned'
<1> USE DEF Owned
<1>1. /\ c \in Task /\ c \in Caster
      /\ Registered \in SUBSET Device
  BY TaskSorts DEF Registered
<1>2. CASE Admit(c)
  <2> DEFINE sid == session_id + 1
  <2>1. PICK label \in Starting, T \in SUBSET Device :
          LiveStart(c, label, T, sid, At("casting", sid), "feed")
    BY <1>1, <1>2, DataAssumption DEF Admit, Starting
  <2>2. /\ task[c].at = "idle" /\ session_id < MaxSessions /\ start_live
        /\ ingest = None /\ ingest' = c
    BY <1>2 DEF Admit, MayCast
  <2>3. At("casting", sid) \in Frame /\ sid \in 0..MaxSessions
    BY <2>2, StartLiveTypes, FrameTypes DEF Label
  <2>4. Installs(c, sid, At("casting", sid), "feed")
    BY <2>2, DataAssumption
    DEF Installs, start_live, Runtime, LiveTypeOK, SessionTypeOK
  <2> HIDE DEF sid
  <2>5. Starts(c, label, sid, At("casting", sid), "feed")
    BY <1>1, <2>1, <2>3, LiveStartEffect
  <2> QED
    BY <1>1, <2>2, <2>4, <2>5, InstallOwned
<1>3. CASE ResumeAdmit(c)
  <2>1. /\ task[c].at \in {"castSend", "castTarget"}
        /\ LiveStart(c, task[c].at, task[c].todo, task[c].arg,
                     At("casting", task[c].arg), "feed")
        /\ ingest' = ingest /\ session_id' = session_id
    BY <1>3 DEF ResumeAdmit, session
  <2>2. /\ task[c].todo \in SUBSET Device /\ task[c].arg \in 0..MaxSessions
        /\ task[c].arg \in 1..session_id /\ task[c].at \in Starting
    BY <1>1, <2>1 DEF LiveTypeOK, Frame, Starting
  <2>3. ingest = c
    BY <2>1 DEF OneBroadcaster, Casting
  <2>4. At("casting", task[c].arg) \in Frame
    BY <2>2, FrameTypes DEF Label
  <2>5. Starts(c, task[c].at, task[c].arg, At("casting", task[c].arg), "feed")
    BY <1>1, <2>1, <2>2, <2>4, LiveStartEffect
  <2>6. Installs(c, task[c].arg, At("casting", task[c].arg), "feed")
    BY <1>1, <2>1, <2>2, <2>3, DataAssumption
    DEF Installs, OwnSession, Runtime, LiveTypeOK, SessionTypeOK
  <2> QED
    BY <1>1, <2>1, <2>2, <2>3, <2>5, <2>6, InstallOwned
<1> QED
  BY <1>2, <1>3

\* The only other way out of a stream: its handler ends, and with it its hold on
\* the slot.  No other studio is streaming.
LEMMA CastEndOwned ==
  ASSUME Owned, LiveTypeOK', NEW c \in Caster, CastEnd(c)
  PROVE  Owned'
<1> USE DEF Owned
<1>1. c \in Task /\ Caster \subseteq Task /\ None \notin Caster
  BY TaskSorts
<1>2. /\ task[c].at = "casting" /\ ingest = c
      /\ source' = [source EXCEPT ![task[c].arg] = "closed"]
      /\ ingest' = None
  BY DEF CastEnd, close, clear_ingest, OneBroadcaster, Casting
<1>3. /\ Quits(c) /\ session_id' = session_id
      /\ \A r \in Runtime : rt'[r] = "none" <=> rt[r] = "none"
  <2>1. CASE live = task[c].arg
    BY <1>1, <2>1, StopCalm DEF CastEnd
  <2>2. CASE live # task[c].arg
    <3>1. Goto(c, Idle) /\ UNCHANGED <<session, rt>>
      BY <2>2 DEF CastEnd
    <3> QED
      BY <1>1, <3>1, GotoQuits, QuietFrames DEF session
  <2> QED
    BY <2>1, <2>2
<1>4. \A u \in Caster : ~Casting(u)'
  BY <1>1, <1>2, <1>3 DEF OneBroadcaster, Casting, Quits, Starting
<1>5. \A u \in Task : task'[u].at \in Starting
                       => /\ task[u].at \in Starting
                          /\ task'[u].arg = task[u].arg
  BY <1>3 DEF Quits
<1>6. \A t \in Task : task[t].at \in Starting => task[t].arg \in Runtime
  BY DataAssumption DEF Runtime, LiveTypeOK, SessionTypeOK
<1>7. OneBroadcaster' /\ OwnSession'
  BY <1>3, <1>4, <1>5, <1>6 DEF OneBroadcaster, OwnSession, Casting
<1> QED
  BY <1>1, <1>3, <1>4, <1>5, <1>7 DEF Casting

LEMMA OwnedInvariant == Spec => []Owned
<1>1. Init => Owned
  <2> SUFFICES ASSUME Init PROVE Owned
    OBVIOUS
  <2>1. \A t \in Task : task[t].at \notin Starting \cup {"casting", "castSend", "castTarget"}
    BY DEF Init, Idle, At, Starting
  <2>2. \A r \in Runtime : rt[r] = "none"
    BY DEF Init
  <2>3. Caster \subseteq Task
    BY TaskSorts
  <2>4. OneBroadcaster /\ OwnSession
    BY <2>1, <2>3 DEF OneBroadcaster, Casting, OwnSession
  <2> QED
    BY <2>1, <2>2, <2>3, <2>4, InitType DEF Owned
<1>2. Owned /\ LiveTypeOK' /\ [Next]_vars => Owned'
  <2> SUFFICES ASSUME Owned, LiveTypeOK', [Next]_vars
               PROVE  Owned'
    OBVIOUS
  <2>1. LiveTypeOK
    BY DEF Owned
  <2> QED
    BY <2>1, CalmSteps, CalmOwned, RequestOwned, AdmitOwned, CastEndOwned
<1> QED
  BY <1>1, <1>2, TypeCorrect, PTL DEF Spec

\* Two studios never broadcast at once, whatever suspends, breaks or is stopped
\* by others meanwhile: the slot is held from the check to the finally block.
THEOREM SingleBroadcaster == Spec => []OneBroadcaster
<1>1. Owned => OneBroadcaster
  BY DEF Owned
<1> QED
  BY <1>1, OwnedInvariant, PTL

\* Each session has one starter and one runtime, and a studio's frames go to the
\* runtime of its own session, however many sessions start during its sends.
THEOREM SessionsOwned == Spec => []OwnSession
<1>1. Owned => OwnSession
  BY DEF Owned
<1> QED
  BY <1>1, OwnedInvariant, PTL

-----------------------------------------------------------------------------
(* The life of a runtime *)

Ends(r) == source[r] \in {"once", "closed"}

\* One step of r's life, or none.
Lives(r) ==
  \/ rt'[r] = rt[r] /\ source'[r] = source[r]
  \/ rt[r] = "none" /\ rt'[r] = "ready"
  \/ rt[r] = "ready" /\ rt'[r] = "running" /\ source'[r] = source[r]
  \/ rt[r] # "none" /\ rt'[r] = rt[r] /\ source'[r] = "closed"
  \/ rt[r] = "running" /\ Ends(r) /\ rt'[r] = "over" /\ source'[r] = source[r]
  \/ rt[r] = "running" /\ rt'[r] = "stopping" /\ source'[r] \in {source[r], "closed"}
  \/ rt[r] = "stopping" /\ rt'[r] = "over" /\ source'[r] = source[r]

LEMMA LivesOne ==
  ASSUME NEW r, Lives(r)
  PROVE  [Life(r)!Next]_(Life(r)!runtime)
<1>1. CASE rt'[r] = rt[r] /\ source'[r] = source[r]
  BY <1>1 DEF Life!runtime
<1>2. CASE rt[r] = "none" /\ rt'[r] = "ready"
  <2>1. \/ (source'[r] \in {"once", "closed"}) = TRUE
        \/ (source'[r] \in {"once", "closed"}) = FALSE
    OBVIOUS
  <2>2. (source'[r] \in {"once", "closed"}) \in BOOLEAN
    BY <2>1
  <2> QED
    BY <1>2, <2>2 DEF Life!Next, Life!Create
<1>3. CASE rt[r] = "ready" /\ rt'[r] = "running" /\ source'[r] = source[r]
  BY <1>3 DEF Life!Next, Life!Start
<1>4. CASE rt[r] # "none" /\ rt'[r] = rt[r] /\ source'[r] = "closed"
  <2>1. (source'[r] \in {"once", "closed"}) = TRUE
    BY <1>4
  <2> QED
    BY <1>4, <2>1 DEF Life!Next, Life!SourceEnds
<1>5. CASE rt[r] = "running" /\ Ends(r) /\ rt'[r] = "over" /\ source'[r] = source[r]
  BY <1>5 DEF Ends, Life!Next, Life!Drain
<1>6. CASE rt[r] = "running" /\ rt'[r] = "stopping" /\ source'[r] \in {source[r], "closed"}
  <2>1. \/ (source'[r] \in {"once", "closed"}) = (source[r] \in {"once", "closed"})
        \/ (source'[r] \in {"once", "closed"}) = TRUE
    BY <1>6
  <2>2. (source'[r] \in {"once", "closed"}) \in {source[r] \in {"once", "closed"}, TRUE}
    BY <2>1, Zenon
  <2> QED
    BY <1>6, <2>2 DEF Life!Next, Life!Stop
<1>7. CASE rt[r] = "stopping" /\ rt'[r] = "over" /\ source'[r] = source[r]
  BY <1>7 DEF Life!Next, Life!Stopped
<1> QED
  BY <1>1, <1>2, <1>3, <1>4, <1>5, <1>6, <1>7 DEF Lives

\* Stopping the runtime in app["live"] stops it if it runs, and no other.
LEMMA StopLives ==
  ASSUME LiveTypeOK, NEW t \in Task, Stop(t)
  PROVE  \A r \in Runtime :
           \/ rt'[r] = rt[r]
           \/ r = live /\ rt[r] = "running" /\ rt'[r] = "stopping"
<1>1. CASE live # 0 /\ rt[live] \in {"running", "stopping"}
  <2>1. rt' = [rt EXCEPT ![live] = "stopping"]
    BY <1>1 DEF Stop
  <2> QED
    BY <1>1, <2>1 DEF LiveTypeOK
<1>2. CASE ~(live # 0 /\ rt[live] \in {"running", "stopping"})
  <2>1. AfterStop(t)
    BY <1>2 DEF Stop
  <2> QED
    BY <2>1, AfterStopEffect
<1> QED
  BY <1>1, <1>2

\* A LIVE_START that completes gives its session a runtime.
LEMMA StartLives ==
  ASSUME LiveTypeOK, NEW t, NEW label, NEW sid \in Runtime, rt[sid] = "none",
         NEW frame, NEW src, Starts(t, label, sid, frame, src)
  PROVE  \A r \in Runtime : Lives(r)
<1>1. \/ UNCHANGED <<rt, source>>
      \/ rt' = [rt EXCEPT ![sid] = "ready"] /\ source' = [source EXCEPT ![sid] = src]
  BY DEF Starts
<1> QED
  BY <1>1 DEF LiveTypeOK, Lives

LEMMA RequestLives ==
  ASSUME Owned, NEW q \in Request, RequestStep(q)
  PROVE  \A r \in Runtime : Lives(r)
<1>1. /\ q \in Task /\ Idle \in Frame /\ Registered \in SUBSET Device
      /\ LiveTypeOK /\ OwnSession
  BY TaskSorts, FrameTypes DEF Registered, Owned
<1>2. CASE StartRequest(q)
  <2>1. PICK src \in {"once", "loop", "bad"} :
          LiveStart(q, "startSend", Registered, session_id + 1, Idle, src)
    BY <1>2, DataAssumption DEF StartRequest
  <2>2. session_id < MaxSessions /\ start_live
    BY <1>2 DEF StartRequest
  <2>3. Starts(q, "startSend", session_id + 1, Idle, src)
    BY <1>1, <2>1, <2>2, StartLiveTypes, LiveStartEffect DEF Starting
  <2>4. session_id + 1 \in Runtime /\ rt[session_id + 1] = "none"
    BY <1>1, <2>2, DataAssumption DEF Owned, Runtime, LiveTypeOK, SessionTypeOK
  <2> QED
    BY <1>1, <2>3, <2>4, StartLives
<1>3. CASE ResumeStart(q)
  <2>1. PICK src \in {"once", "loop", "bad"} :
          LiveStart(q, "startSend", task[q].todo, task[q].arg, Idle, src)
    BY <1>3, DataAssumption DEF ResumeStart
  <2>2. task[q].at \in Starting
    BY <1>3 DEF ResumeStart, Starting
  <2>3. task[q].todo \in SUBSET Device /\ task[q].arg \in 0..MaxSessions
    BY <1>1 DEF LiveTypeOK, Frame
  <2>4. Starts(q, "startSend", task[q].arg, Idle, src)
    BY <1>1, <2>1, <2>3, LiveStartEffect DEF Starting
  <2>5. task[q].arg \in Runtime /\ rt[task[q].arg] = "none"
    BY <1>1, <2>2, DataAssumption
    DEF Owned, OwnSession, Runtime, LiveTypeOK, SessionTypeOK
  <2> QED
    BY <1>1, <2>4, <2>5, StartLives
<1>4. CASE StopRequest(q)
  <2>1. Stop(q) /\ source' = source
    BY <1>4 DEF StopRequest
  <2> QED
    BY <1>1, <2>1, StopLives DEF Lives
<1> QED
  BY <1>2, <1>3, <1>4 DEF RequestStep

LEMMA CasterLives ==
  ASSUME Owned, NEW c \in Caster, CasterStep(c)
  PROVE  \A r \in Runtime : Lives(r)
<1>1. /\ c \in Task /\ Registered \in SUBSET Device
      /\ LiveTypeOK /\ OwnSession
  BY TaskSorts DEF Registered, Owned
<1>2. CASE Admit(c)
  <2> DEFINE sid == session_id + 1
  <2>1. PICK label \in Starting, T \in SUBSET Device :
          LiveStart(c, label, T, sid, At("casting", sid), "feed")
    BY <1>1, <1>2, DataAssumption DEF Admit, Starting
  <2>2. session_id < MaxSessions /\ start_live
    BY <1>2 DEF Admit
  <2>3. At("casting", sid) \in Frame /\ sid \in 0..MaxSessions
    BY <1>1, <2>2, StartLiveTypes, FrameTypes DEF Label
  <2>4. sid \in Runtime /\ rt[sid] = "none"
    BY <1>1, <2>2, DataAssumption DEF Owned, Runtime, LiveTypeOK, SessionTypeOK
  <2> HIDE DEF sid
  <2>5. Starts(c, label, sid, At("casting", sid), "feed")
    BY <1>1, <2>1, <2>3, LiveStartEffect
  <2> QED
    BY <1>1, <2>4, <2>5, StartLives
<1>3. CASE ResumeAdmit(c)
  <2>1. /\ task[c].at \in {"castSend", "castTarget"}
        /\ LiveStart(c, task[c].at, task[c].todo, task[c].arg,
                     At("casting", task[c].arg), "feed")
    BY <1>3 DEF ResumeAdmit
  <2>2. /\ task[c].todo \in SUBSET Device /\ task[c].arg \in 0..MaxSessions
        /\ task[c].at \in Starting
    BY <1>1, <2>1 DEF LiveTypeOK, Frame, Starting
  <2>3. At("casting", task[c].arg) \in Frame
    BY <2>2, FrameTypes DEF Label
  <2>4. Starts(c, task[c].at, task[c].arg, At("casting", task[c].arg), "feed")
    BY <1>1, <2>1, <2>2, <2>3, LiveStartEffect
  <2>5. task[c].arg \in Runtime /\ rt[task[c].arg] = "none"
    BY <1>1, <2>2, DataAssumption
    DEF Owned, OwnSession, Runtime, LiveTypeOK, SessionTypeOK
  <2> QED
    BY <1>1, <2>4, <2>5, StartLives
<1>4. CASE HangUp(c)
  BY <1>4 DEF HangUp, Lives
<1>5. CASE CastEnd(c)
  <2> DEFINE own == task[c].arg
  <2>1. own \in Runtime /\ rt[own] # "none" /\ source' = [source EXCEPT ![own] = "closed"]
    BY <1>5 DEF CastEnd, close, Owned
  <2>2. \A r \in Runtime : \/ rt'[r] = rt[r]
                           \/ r = own /\ rt[r] = "running" /\ rt'[r] = "stopping"
    <3>1. CASE live = own
      <4>1. Stop(c)
        BY <1>5, <3>1 DEF CastEnd
      <4> QED
        BY <1>1, <3>1, <4>1, StopLives
    <3>2. CASE live # own
      BY <1>5, <3>2 DEF CastEnd
    <3> QED
      BY <3>1, <3>2
  <2>3. source \in [Runtime -> {"none", "once", "loop", "feed", "closed"}]
    BY <1>1 DEF LiveTypeOK
  <2> HIDE DEF own
  <2> QED
    BY <2>1, <2>2, <2>3 DEF Lives
<1> QED
  BY <1>2, <1>3, <1>4, <1>5 DEF CasterStep

LEMMA DeviceLives ==
  ASSUME LiveTypeOK, NEW d \in Device, DeviceStep(d)
  PROVE  \A r \in Runtime : Lives(r)
<1>1. CASE HandleFailure(d)
  <2>1. Stop(d) /\ source' = source /\ d \in Task
    BY <1>1, TaskSorts DEF HandleFailure
  <2> QED
    BY <2>1, StopLives DEF Lives
<1>2. CASE ~HandleFailure(d)
  <2>1. UNCHANGED <<rt, source>>
    BY <1>2, ConnectEffect
    DEF DeviceStep, Heartbeat, Lose, Cleanup, Leave, OpenAudio, ReportFailure, CloseAudio
  <2> QED
    BY <2>1 DEF Lives
<1> QED
  BY <1>1, <1>2

LEMMA RuntimeLives ==
  ASSUME LiveTypeOK, NEW s \in Runtime, RuntimeStep(s)
  PROVE  \A r \in Runtime : Lives(r)
<1>1. CASE StartPacing(s)
  <2>1. rt[s] = "ready" /\ rt' = [rt EXCEPT ![s] = "running"] /\ source' = source
    BY <1>1 DEF StartPacing
  <2> QED
    BY <2>1 DEF Lives, LiveTypeOK
<1>2. CASE Drain(s)
  <2>1. /\ rt[s] = "running" /\ rt' = [rt EXCEPT ![s] = "over"] /\ source' = source
        /\ Ends(s)
    BY <1>2 DEF Drain, Ends
  <2> QED
    BY <2>1 DEF Lives, LiveTypeOK
<1>3. CASE Cancelled(s)
  <2>1. rt[s] = "stopping" /\ rt' = [rt EXCEPT ![s] = "over"] /\ source' = source
    BY <1>3 DEF Cancelled
  <2> QED
    BY <2>1 DEF Lives, LiveTypeOK
<1>4. CASE Abort(s) \/ RunEnd(s)
  BY <1>4 DEF Abort, RunEnd, Lives
<1> QED
  BY <1>1, <1>2, <1>3, <1>4 DEF RuntimeStep

LEMMA AllLive ==
  ASSUME Owned, [Next]_vars
  PROVE  \A r \in Runtime : Lives(r)
<1>1. LiveTypeOK
  BY DEF Owned
<1>2. ASSUME NEW t \in Task, Stopped(t) \/ (ResumeStop(t) /\ UNCHANGED woken)
      PROVE  \A r \in Runtime : Lives(r)
  <2>1. UNCHANGED <<rt, source>>
    BY <1>1, <1>2, StopsTypes
  <2> QED
    BY <2>1 DEF Lives
<1>3. ASSUME StartFile \/ EndFile \/ ExpireFile \/ UNCHANGED vars
      PROVE  \A r \in Runtime : Lives(r)
  BY <1>3 DEF StartFile, EndFile, ExpireFile, others, vars, Lives
<1> QED
  BY <1>1, <1>2, <1>3, RequestLives, CasterLives, DeviceLives, RuntimeLives DEF Next

\* LiveControl implements RuntimeLife for each of its runtimes: none is created or
\* started twice, none ends before its source unless it is stopped, none is revived,
\* whichever handlers and studios have their hands on it.
THEOREM EachLivesOnce == Spec => OneLife
<1>1. Owned /\ [Next]_vars
        => [\A r \in Runtime : [Life(r)!Next]_(Life(r)!runtime)]_vars
  BY AllLive, LivesOne
<1> QED
  BY <1>1, OwnedInvariant, PTL DEF Spec, OneLife

\* The same as a specification: what a runtime does from the outside.
THEOREM RefinesLife == ASSUME NEW r \in Runtime PROVE Spec => Life(r)!Spec
<1>1. Init => Life(r)!Init
  BY DEF Init, Life!Init
<1>2. Owned /\ [Next]_vars => [Life(r)!Next]_(Life(r)!runtime)
  BY AllLive, LivesOne
<1> QED
  BY <1>1, <1>2, OwnedInvariant, PTL DEF Spec, Life!Spec
=============================================================================
