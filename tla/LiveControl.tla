---------------------------- MODULE LiveControl ----------------------------
(***************************************************************************)
(* LIVE broadcasting: who starts it, who ends it and what the devices are  *)
(* told.  The coroutines that meet here are                                *)
(*   - a request: live_start_handler or live_stop_handler (http_api.py);   *)
(*   - a caster: ingest_handler (ingest_channel.py), a studio streaming;   *)
(*   - a device: cmd_handler and _handle_report (cmd_channel.py);          *)
(*   - a runtime: a LiveRuntime (pacing.py) and its _run_live background   *)
(*     task (http_api.py), both named by the session that created them.    *)
(*                                                                         *)
(* They share app["live"], the SessionManager (module Session) and the     *)
(* Registry, on one asyncio thread.  An action is therefore everything a   *)
(* coroutine does between two suspensions.  `await ws.send_str` suspends   *)
(* only while the socket's transport is paused (SendMaySuspend), and       *)
(* raises when the transport is closing although ws.closed is still False; *)
(* `await runtime.stop()` suspends while the engine's tasks are alive.     *)
(*                                                                         *)
(* Left out: a device that reconnects while its old socket is registered   *)
(* (one socket per device here), frames and pacing, FILE's own messages.   *)
(***************************************************************************)
EXTENDS Session, FiniteSets

CONSTANTS
  Request,         \* requests to /api/live/{start,stop} in progress at once
  Caster,          \* /ingest sockets open at once
  Device,          \* device ids
  Flaky,           \* the devices whose connection may break
  Lists,           \* the lists of target devices that casters send
  Plays,           \* how a request may have its sample played: "once", "loop", or
                   \* "bad": the file breaks off in a page header and LocalOpusSource
                   \* raises
  None,
  SendMaySuspend,  \* a transport may be paused, so that a send suspends
  MaxSessions,     \* bound on session_id
  MaxFiles         \* bound on file_id

Runtime == 1..MaxSessions
Task == Request \cup Caster \cup Device \cup Runtime

ASSUME DataAssumption ==
  /\ MaxSessions \in Nat
  /\ MaxFiles \in Nat
  /\ SendMaySuspend \in BOOLEAN
  /\ Flaky \subseteq Device
  /\ Lists \subseteq SUBSET Device
  /\ Plays \subseteq {"once", "loop", "bad"}
  /\ None \notin Caster \cup Device

ASSUME TaskAssumption ==
  /\ Request \cap (Caster \cup Device \cup Runtime) = {}
  /\ Caster \cap (Device \cup Runtime) = {}
  /\ Device \cap Runtime = {}

VARIABLES
  live,     \* app["live"]: a runtime, 0 for None
  ingest,   \* registry._ingest: the active broadcaster's socket
  cmd,      \* per device its /cmd socket: "off", "open", "lost" when the
            \* transport is closing and ws.closed does not say so yet, or
            \* "closed" but still registered
  audio,    \* devices with a socket in registry._audio_socks
  told,     \* per device the session of the last LIVE_START on its socket, 0
            \* after LIVE_STOP
  owes,     \* devices that have not answered a LIVE_START yet
  rt,       \* per runtime: its engine
  source,   \* per runtime: what feeds it
  gone,     \* casters whose socket is closed, not yet noticed by their handler
  task,     \* per coroutine: where it is suspended, and its locals
  woken     \* coroutines woken together by one finished engine, still to run

vars == <<session, live, ingest, cmd, audio, told, owes, rt, source,
          gone, task, woken>>

Starting == {"startSend", "castSend", "castTarget"}          \* in LIVE_START
Ending == {"stopSend", "failSend", "endSend", "abortSend"}   \* in LIVE_STOP
Label == Starting \cup Ending \cup
         {"idle", "stopWait", "casting", "report", "leaked", "pacing", "done"}

Frame == [at: Label,
          arg: 0..MaxSessions,         \* the session or runtime it works on
          todo: SUBSET Device,         \* devices its broadcast has not reached
          drain: Device \cup {None}]   \* the device its send is suspended on

LiveTypeOK ==
  /\ SessionTypeOK
  /\ session_id <= MaxSessions
  /\ live \in 0..MaxSessions
  /\ ingest \in Caster \cup {None}
  /\ cmd \in [Device -> {"off", "open", "lost", "closed"}]
  /\ audio \subseteq Device
  /\ told \in [Device -> 0..MaxSessions]
  /\ owes \subseteq Device
  /\ rt \in [Runtime -> {"none", "ready", "running", "stopping", "over"}]
  /\ source \in [Runtime -> {"none", "once", "loop", "feed", "closed"}]
  /\ gone \subseteq Caster
  /\ task \in [Task -> Frame]
  /\ woken \subseteq Task

At(label, arg) == [at |-> label, arg |-> arg, todo |-> {}, drain |-> None]
Idle == At("idle", 0)
Finished(t) == IF t \in Runtime THEN At("done", 0) ELSE Idle

Init ==
  /\ SessionInit
  /\ live = 0
  /\ ingest = None
  /\ cmd = [d \in Device |-> "off"]
  /\ audio = {}
  /\ told = [d \in Device |-> 0]
  /\ owes = {}
  /\ rt = [r \in Runtime |-> "none"]
  /\ source = [r \in Runtime |-> "none"]
  /\ gone = {}
  /\ task = [t \in Task |-> Idle]
  /\ woken = {}

-----------------------------------------------------------------------------
(* Sending a command to the devices *)

Registered == {d \in Device : cmd[d] # "off"}

Goto(t, frame) == task' = [task EXCEPT ![t] = frame]

\* The device's socket is closed, and broadcasts under way skip it.  A targeted
\* send looks each device up again when it gets there.
Forget(d, frame) ==
  task' = [t \in Task |->
             IF t = d THEN frame
             ELSE IF task[t].at = "castTarget" THEN task[t]
             ELSE [task[t] EXCEPT !.todo = @ \ {d}]]

\* The device's handler ends: its socket leaves the registry.
Deregister(d, frame) == cmd' = [cmd EXCEPT ![d] = "off"] /\ Forget(d, frame)

\* An exception ends the coroutine.  A device's handler deregisters its socket.
Raise(t) ==
  IF t \in Device
  THEN Deregister(t, Idle)
  ELSE Goto(t, Finished(t)) /\ UNCHANGED cmd

Tell(S, sid) ==
  /\ told' = [d \in Device |-> IF d \in S THEN sid ELSE told[d]]
  /\ owes' = IF sid = 0 THEN owes ELSE owes \cup S

Outcome == {"sent", "raised", "parked"}

\* t sends LIVE_START of session sid, or LIVE_STOP (sid = 0), to the devices T
\* in some order.  It reaches them all and goes on at frame; or a lost
\* connection raises before the rest is reached; or it is parked at label with
\* some devices still to do.
Broadcast(t, label, T, sid, frame, how) ==
  LET up   == {d \in T : cmd[d] = "open"}
      lost == {d \in T : cmd[d] = "lost"}
      dropped == task[t].drain \in Flaky /\ cmd[task[t].drain] # "open"
  IN \/ /\ how = "sent"
        /\ lost = {}
        /\ Tell(up, sid)
        /\ Goto(t, frame)
        /\ UNCHANGED cmd
     \/ /\ how = "raised"
        /\ \E S \in SUBSET up :
             /\ (dropped /\ S = {}) \/ lost # {}
             /\ Tell(S, sid)
        /\ Raise(t)
     \/ /\ how = "parked"
        /\ SendMaySuspend
        /\ \E d \in up, S \in SUBSET up, rest \in SUBSET T :
             /\ d \in S
             /\ rest \cap S = {}
             /\ up \cup lost \subseteq S \cup rest
             /\ Tell(S, sid)
             /\ Goto(t, [at |-> label, arg |-> sid, todo |-> rest, drain |-> d])
        /\ UNCHANGED cmd

\* The session ends once all devices are told of it.
EndSessionAlways(how) == stop_live              \* mutant: in a finally block
EndSessionNever(how) == UNCHANGED session       \* mutant: stop_live forgotten
EndSession(how) == IF how = "sent" THEN stop_live ELSE UNCHANGED session

\* app["live"] was cleared before the broadcast, or _run_live clears it after.
LiveAfterKept(how, label, now) == now           \* mutant: never cleared after
LiveAfter(how, label, now) ==
  IF how = "sent" /\ label \in {"endSend", "abortSend"} THEN 0 ELSE now

\* What every LIVE_STOP broadcast leads to; a failed or unanswered LIVE also
\* closes the broadcaster.
LiveStop(t, label, T, now) ==
  \E how \in Outcome :
    /\ Broadcast(t, label, T, 0, Finished(t), how)
    /\ EndSession(how)
    /\ live' = LiveAfter(how, label, now)
    /\ gone' = IF how = "sent" /\ label \in {"failSend", "abortSend"}
               THEN gone \cup ({ingest} \cap Caster) ELSE gone \ {t}
    /\ UNCHANGED audio

\* What every LIVE_START broadcast leads to: the runtime is installed and its
\* _run_live task created, waiting for audio.
LiveStart(t, label, T, sid, frame, src) ==
  \E how \in Outcome :
    /\ Broadcast(t, label, T, sid, frame, how)
    /\ IF how = "sent" /\ src # "bad"
       THEN /\ live' = sid
            /\ rt' = [rt EXCEPT ![sid] = "ready"]
            /\ source' = [source EXCEPT ![sid] = src]
       ELSE UNCHANGED <<live, rt, source>>
    /\ UNCHANGED audio

-----------------------------------------------------------------------------
(* Stopping the runtime in app["live"] *)

\* After `await runtime.stop()`: a device whose LIVE_READY failed announces
\* LIVE_STOP only while the session is LIVE; the others always do.
AfterStop(t) ==
  /\ IF t \in Device /\ state # "LIVE"
     THEN /\ Goto(t, Idle)
          /\ live' = 0
          /\ gone' = gone \cup ({ingest} \cap Caster)
          /\ UNCHANGED <<session, cmd, audio, told, owes>>
     ELSE LiveStop(t, IF t \in Device THEN "failSend" ELSE "stopSend", Registered, 0)
  /\ UNCHANGED rt

\* `await runtime.stop()`: it returns at once unless the engine's tasks live.
Stop(t) ==
  IF live # 0 /\ rt[live] \in {"running", "stopping"}
  THEN /\ rt' = [rt EXCEPT ![live] = "stopping"]
       /\ Goto(t, At("stopWait", live))
       /\ gone' = gone \ {t}
       /\ UNCHANGED <<session, live, cmd, audio, told, owes>>
  ELSE AfterStop(t)

Waiting(r) == {t \in Task : task[t].at = "stopWait" /\ task[t].arg = r}

\* The engine t waited for has ended.  Its waiters run one after the other.
Stopped(t) ==
  /\ task[t].at = "stopWait"
  /\ task[t].arg \in Runtime /\ rt[task[t].arg] = "over"
  /\ woken = {} \/ t \in woken
  /\ woken' = Waiting(task[t].arg) \ {t}
  /\ AfterStop(t)
  /\ UNCHANGED <<ingest, source>>

\* A suspended LIVE_STOP broadcast goes on.
ResumeStop(t) ==
  /\ task[t].at \in Ending
  /\ LiveStop(t, task[t].at, task[t].todo, live)
  /\ UNCHANGED <<ingest, rt, source>>

-----------------------------------------------------------------------------
(* Requests *)

\* live_start_handler: FILE is preempted, a local source is played once or
\* looped.
StartRequest(q) ==
  /\ task[q].at = "idle"
  /\ Registered # {}
  /\ can_start_live
  /\ session_id < MaxSessions
  /\ start_live
  /\ \E src \in Plays :
       LiveStart(q, "startSend", Registered, session_id + 1, Idle, src)
  /\ UNCHANGED <<ingest, gone>>

ResumeStart(q) ==
  /\ task[q].at = "startSend"
  /\ \E src \in Plays :
       LiveStart(q, "startSend", task[q].todo, task[q].arg, Idle, src)
  /\ UNCHANGED <<session, ingest, gone>>

\* live_stop_handler, up to its first suspension.
StopRequest(q) ==
  /\ task[q].at = "idle"
  /\ Stop(q)
  /\ UNCHANGED <<ingest, source>>

-----------------------------------------------------------------------------
(* Casters *)

MayCastTwice == Registered # {} /\ can_start_live    \* mutant: slot unchecked
MayCast == ingest = None /\ Registered # {} /\ can_start_live

\* ingest_handler once authenticated.  `devices` in its first message limits
\* the session to a list of devices, connected or not.
Admit(c) ==
  /\ task[c].at = "idle"
  /\ MayCast
  /\ session_id < MaxSessions
  /\ ingest' = c
  /\ start_live
  /\ LET sid == session_id + 1
     IN \/ LiveStart(c, "castSend", Registered, sid, At("casting", sid), "feed")
        \/ \E T \in Lists :
             LiveStart(c, "castTarget", T, sid, At("casting", sid), "feed")
  /\ gone' = gone \ {c}

ResumeAdmitLate(c) ==     \* mutant: reads session.session_id after the sends
  /\ task[c].at \in {"castSend", "castTarget"}
  /\ LiveStart(c, task[c].at, task[c].todo, session_id,
               At("casting", session_id), "feed")
  /\ UNCHANGED <<session, ingest, gone>>

ResumeAdmit(c) ==
  /\ task[c].at \in {"castSend", "castTarget"}
  /\ LiveStart(c, task[c].at, task[c].todo, task[c].arg,
               At("casting", task[c].arg), "feed")
  /\ UNCHANGED <<session, ingest, gone>>

\* The studio hangs up, or its connection breaks.
HangUp(c) ==
  /\ task[c].at \in {"castSend", "castTarget", "casting"}
  /\ gone' = gone \cup {c}
  /\ UNCHANGED <<session, live, ingest, cmd, audio, told, owes, rt,
                 source, task>>

clear_ingest_noop(c) == ingest' = ingest     \* mutant: slot kept
clear_ingest(c) == ingest' = IF ingest = c THEN None ELSE ingest

close_if_live(r) ==     \* mutant: the source is closed with its session only
  source' = IF live = r THEN [source EXCEPT ![r] = "closed"] ELSE source
close(r) == source' = [source EXCEPT ![r] = "closed"]

\* The receive loop ends: the finally block of ingest_handler.
CastEnd(c) ==
  /\ task[c].at = "casting"
  /\ c \in gone
  /\ close(task[c].arg)
  /\ IF live = task[c].arg
     THEN Stop(c)
     ELSE /\ Goto(c, Idle)
          /\ gone' = gone \ {c}
          /\ UNCHANGED <<session, live, cmd, audio, told, owes, rt>>
  /\ clear_ingest(c)

-----------------------------------------------------------------------------
(* Devices *)

\* A LIVE in progress is announced again to a device that connects.
_resync_live_none(d) ==     \* mutant: late joiners are not told
  told' = [told EXCEPT ![d] = 0] /\ owes' = owes \ {d}
_resync_live_next(d) ==     \* mutant: the number of the session to come
  /\ told' = [told EXCEPT ![d] = IF state = "LIVE" THEN session_id + 1 ELSE 0]
  /\ owes' = owes
_resync_live(d) ==
  IF state = "LIVE" /\ live # 0
  THEN told' = [told EXCEPT ![d] = session_id] /\ owes' = owes \cup {d}
  ELSE told' = [told EXCEPT ![d] = 0] /\ owes' = owes \ {d}

\* cmd_handler up to its receive loop.  A leaked socket is replaced, and
\* broadcasts under way skip it.  The try block begins after _resync_live: a
\* send that raises there leaks the new socket.
Connect(d) ==
  /\ cmd[d] = "off" \/ task[d].at = "leaked"
  /\ _resync_live(d)
  /\ \/ cmd' = [cmd EXCEPT ![d] = "open"] /\ Forget(d, Idle)
     \/ /\ d \in Flaky /\ state = "LIVE" /\ live # 0
        /\ cmd' = [cmd EXCEPT ![d] = "lost"]
        /\ Forget(d, At("leaked", 0))
  /\ UNCHANGED <<session, live, ingest, audio, rt, source, gone>>

\* The heartbeat finds the transport of a leaked socket closed.
Heartbeat(d) ==
  /\ cmd[d] = "lost" /\ task[d].at = "leaked"
  /\ cmd' = [cmd EXCEPT ![d] = "closed"]
  /\ UNCHANGED <<session, live, ingest, audio, told, owes, rt, source,
                 gone, task>>

\* The transport of a /cmd socket is lost.
Lose(d) ==
  /\ d \in Flaky
  /\ cmd[d] = "open"
  /\ cmd' = [cmd EXCEPT ![d] = "lost"]
  /\ UNCHANGED <<session, live, ingest, audio, told, owes, rt, source,
                 gone, task>>

\* The receive loop of cmd_handler ends: it noticed the loss.
Cleanup(d) ==
  /\ cmd[d] = "lost"
  /\ task[d].at = "idle"
  /\ Deregister(d, Idle)
  /\ told' = [told EXCEPT ![d] = 0]
  /\ UNCHANGED <<session, live, ingest, audio, owes, rt, source, gone>>

\* The device closes its /cmd socket.
Leave(d) ==
  /\ cmd[d] = "open"
  /\ task[d].at = "idle"
  /\ Deregister(d, Idle)
  /\ told' = [told EXCEPT ![d] = 0]
  /\ UNCHANGED <<session, live, ingest, audio, owes, rt, source, gone>>

\* The device answers a LIVE_START: it opens /audio, ...
OpenAudio(d) ==
  /\ d \in owes
  /\ owes' = owes \ {d}
  /\ audio' = audio \cup {d}
  /\ UNCHANGED <<session, live, ingest, cmd, told, rt, source, gone, task>>

\* ... or it reports LIVE_READY with a failure status, which cmd_handler reads.
ReportFailure(d) ==
  /\ d \in owes
  /\ cmd[d] = "open"
  /\ task[d].at = "idle"
  /\ owes' = owes \ {d}
  /\ Goto(d, At("report", 0))
  /\ UNCHANGED <<session, live, ingest, cmd, audio, told, rt, source, gone>>

\* _handle_report of the failure, up to its first suspension.
HandleFailure(d) ==
  /\ task[d].at = "report"
  /\ Stop(d)
  /\ UNCHANGED <<ingest, source>>

CloseAudio(d) ==
  /\ d \in audio
  /\ audio' = audio \ {d}
  /\ UNCHANGED <<session, live, ingest, cmd, told, owes, rt, source,
                 gone, task>>

-----------------------------------------------------------------------------
(* _run_live and the engine's tasks *)

\* A device opened /audio in time: the engine is started.
StartPacing(r) ==
  /\ task[r].at = "idle" /\ rt[r] = "ready"
  /\ audio # {}
  /\ rt' = [rt EXCEPT ![r] = "running"]
  /\ Goto(r, At("pacing", 0))
  /\ UNCHANGED <<session, live, ingest, cmd, audio, told, owes, source, gone>>

StillLiveNot(r) == live # r     \* mutant: the test inverted
StillLive(r) == live = r

\* The ready timeout passed.  The last poll may just have missed a device.
Abort(r) ==
  /\ task[r].at = "idle" /\ rt[r] = "ready"
  /\ IF StillLive(r)
     THEN LiveStop(r, "abortSend", Registered, live)
     ELSE /\ Goto(r, Finished(r))
          /\ UNCHANGED <<session, live, cmd, audio, told, owes, gone>>
  /\ UNCHANGED <<ingest, rt, source>>

\* The engine has paced out a source that ends.
Drain(r) ==
  /\ rt[r] = "running"
  /\ source[r] \in {"once", "closed"}
  /\ rt' = [rt EXCEPT ![r] = "over"]
  /\ UNCHANGED <<session, live, ingest, cmd, audio, told, owes, source,
                 gone, task>>

CancelledNot(r) ==     \* mutant: stop() awaits the tasks without cancelling them
  /\ rt[r] = "stopping"
  /\ source[r] \in {"once", "closed"}
  /\ rt' = [rt EXCEPT ![r] = "over"]
  /\ UNCHANGED <<session, live, ingest, cmd, audio, told, owes, source,
                 gone, task>>

\* The tasks that stop() cancelled end.  The cancellation goes through to
\* _run_live, which waits for the engine, unless the engine first saw that it
\* is inactive and returned by itself.
Cancelled(r) ==
  /\ rt[r] = "stopping"
  /\ rt' = [rt EXCEPT ![r] = "over"]
  /\ \/ Goto(r, Finished(r))
     \/ UNCHANGED task
  /\ UNCHANGED <<session, live, ingest, cmd, audio, told, owes, source, gone>>

\* wait_done() returns: a natural end closes the session, unless app["live"]
\* is not this runtime any more.
RunEnd(r) ==
  /\ task[r].at = "pacing" /\ rt[r] = "over"
  /\ IF StillLive(r)
     THEN LiveStop(r, "endSend", Registered, live)
     ELSE /\ Goto(r, Finished(r))
          /\ UNCHANGED <<session, live, cmd, audio, told, owes, gone>>
  /\ UNCHANGED <<ingest, rt, source>>

-----------------------------------------------------------------------------
(* FILE broadcasting, as far as LIVE meets it *)

others == <<live, ingest, cmd, audio, told, owes, rt, source, gone, task>>

StartFileBusy ==     \* mutant: state unchecked
  /\ Registered # {}
  /\ file_id < MaxFiles
  /\ start_file
  /\ UNCHANGED others

\* broadcast_handler; its messages are left out.
StartFile ==
  /\ Registered # {}
  /\ can_start_file
  /\ file_id < MaxFiles
  /\ start_file
  /\ UNCHANGED others

\* A device's FILE_END or FILE_ABORT, or broadcast_handler's roll-back.
EndFile ==
  /\ state = "FILE"
  /\ stop_file
  /\ UNCHANGED others

ExpireFile == FileExpires /\ UNCHANGED others

-----------------------------------------------------------------------------

RequestStep(q) == StartRequest(q) \/ ResumeStart(q) \/ StopRequest(q)
CasterStep(c) == Admit(c) \/ ResumeAdmit(c) \/ HangUp(c) \/ CastEnd(c)
DeviceStep(d) == \/ Connect(d) \/ Heartbeat(d) \/ Lose(d) \/ Cleanup(d) \/ Leave(d)
                 \/ OpenAudio(d) \/ ReportFailure(d) \/ HandleFailure(d)
                 \/ CloseAudio(d)
RuntimeStep(r) == \/ StartPacing(r) \/ Abort(r) \/ Drain(r) \/ Cancelled(r)
                  \/ RunEnd(r)

\* Nothing comes between coroutines that one future woke together.
Next ==
  \/ \E t \in Task : Stopped(t)
  \/ /\ woken = {}
     /\ \/ \E t \in Task : ResumeStop(t)
        \/ \E q \in Request : RequestStep(q)
        \/ \E c \in Caster : CasterStep(c)
        \/ \E d \in Device : DeviceStep(d)
        \/ \E r \in Runtime : RuntimeStep(r)
        \/ StartFile
        \/ EndFile
        \/ ExpireFile
     /\ UNCHANGED woken

Spec == Init /\ [][Next]_vars

\* What the server has begun it goes on with: the event loop runs every ready
\* coroutine, a paused transport drains or breaks, the ready timeout passes, a
\* source that ends is paced out.  Requests, studios and devices promise nothing.
Prompt(A) == woken = {} /\ A /\ UNCHANGED woken

Fairness ==
  /\ \A t \in Task : WF_vars(Stopped(t)) /\ WF_vars(Prompt(ResumeStop(t)))
  /\ \A q \in Request : WF_vars(Prompt(ResumeStart(q)))
  /\ \A c \in Caster : WF_vars(Prompt(ResumeAdmit(c))) /\ WF_vars(Prompt(CastEnd(c)))
  /\ \A d \in Device : WF_vars(Prompt(Cleanup(d))) /\ WF_vars(Prompt(HandleFailure(d)))
  /\ \A r \in Runtime : /\ WF_vars(Prompt(StartPacing(r) \/ Abort(r)))
                        /\ WF_vars(Prompt(Drain(r)))
                        /\ WF_vars(Prompt(Cancelled(r)))
                        /\ WF_vars(Prompt(RunEnd(r)))

FairSpec == Spec /\ Fairness

-----------------------------------------------------------------------------
(* Safety *)

Casting(c) == task[c].at \in {"castSend", "castTarget", "casting"}

\* At most one studio broadcasts: every ingest_handler past its checks holds
\* the registry's single slot, also while it awaits its LIVE_START sends or
\* after somebody else ended its session.
OneBroadcaster == \A c \in Caster : Casting(c) => ingest = c

\* A session belongs to the coroutine that started it: nobody else is starting
\* it, its runtime is created once, and a studio's frames feed the runtime of
\* its own session, whatever other sessions came and went during its sends.
OwnSession ==
  /\ \A t, u \in Task : task[t].at \in Starting /\ task[u].at \in Starting /\ t # u
                         => task[t].arg # task[u].arg
  /\ \A t \in Task : task[t].at \in Starting => rt[task[t].arg] = "none"
  /\ \A c \in Caster : task[c].at = "casting" => source[task[c].arg] = "feed"

Life(r) == INSTANCE RuntimeLife WITH life <- rt[r], ended <- source[r] \in {"once", "closed"}

\* Whoever starts, stops and feeds them, and however long their sends take, the
\* handlers lead every runtime through one life: it is created once, never made
\* ready or started again, and ends only with its source or by a stop().
OneLife == [][\A r \in Runtime : [Life(r)!Next]_(Life(r)!runtime)]_vars

\* While sends do not suspend: no connected device is left believing in a LIVE
\* that the server has ended or replaced, even when broadcasts broke off at a
\* lost connection.
ToldOnlyCurrent ==
  \A d \in Device : cmd[d] = "open" /\ told[d] # 0
                     => state = "LIVE" /\ told[d] = session_id

\* While sends do not suspend: app["live"] is the runtime of the current LIVE
\* session, never of an earlier one.
LiveIsCurrent == live # 0 => state = "LIVE" /\ live = session_id

\* With no broken connections either, the server and all its devices agree at
\* every moment on whether there is a LIVE, and which.
Agreement ==
  /\ state = "LIVE" => live = session_id
  /\ \A d \in Device : cmd[d] = "open"
                        => told[d] = IF state = "LIVE" THEN session_id ELSE 0

\* The broadcaster's slot is taken only while its handler runs (registry.py:
\* _ingest is the active broadcaster's socket).
SlotReleased == ingest # None => Casting(ingest)

\* A LIVE whose runtime is gone is being ended by somebody (ingest_channel.py:
\* when a broadcast ends, LIVE_STOP is sent and the session cleaned up).
NoStuckLive ==
  state = "LIVE" /\ live = 0
    => \E t \in Task : task[t].at \notin {"idle", "casting", "pacing", "leaked", "done"}

\* _run_live does nothing for a runtime that live/stop already removed from
\* app["live"]: in particular it does not start its engine.
NoStartAfterStop ==
  [][\A r \in Runtime : rt[r] = "ready" /\ rt'[r] = "running" => live = r]_vars

-----------------------------------------------------------------------------
(* Liveness *)

\* Whoever awaits runtime.stop() returns from it, also when two coroutines stop
\* one runtime or the runtime ends by itself meanwhile.
StopReturns ==
  \A t \in Task : task[t].at = "stopWait" ~> task[t].at # "stopWait"

\* Once a studio has hung up, its _run_live task ends, and its engine with it,
\* even if the session was stopped by others before the engine was started.
EngineOutlivesNoStudio ==
  \A c \in Caster, r \in Runtime :
    task[c] = At("casting", r) /\ c \in gone
      ~> task[r].at = "done" /\ rt[r] \notin {"running", "stopping"}

\* Without broken connections, a LIVE whose studio has hung up is ended.
HangUpEndsLive ==
  \A c \in Caster, r \in Runtime :
    task[c] = At("casting", r) /\ c \in gone
      ~> ~(state = "LIVE" /\ session_id = r)

\* Without broken connections, a LIVE that no device answers is ended.
UnansweredLiveEnds ==
  \A r \in Runtime :
    live = r /\ rt[r] = "ready"
      ~> audio # {} \/ ~(state = "LIVE" /\ session_id = r)
=============================================================================
