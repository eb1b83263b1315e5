---------------------------- MODULE FileControl ----------------------------
(***************************************************************************)
(* FILE broadcasting: broadcast_handler (http_api.py) tells devices to     *)
(* download an uploaded file, and cmd_channel._handle_report takes their   *)
(* answers.  EXTENDS the SessionManager, which a FILE shares with LIVE,    *)
(* and the file store.                                                     *)
(*                                                                         *)
(* A device (external) fetches the file from nginx, compares its SHA-256   *)
(* with the one announced, plays it and reports.  It refuses a second file *)
(* as BUSY and one that meets the LIVE it is in as PREEMPTED_BY_LIVE.  Its *)
(* reports travel in order and are read later; a broken connection loses   *)
(* them.  Which LIVE a device is in is its own belief: while broadcasts    *)
(* may suspend, it may be told late of a start or never of an end.         *)
(*                                                                         *)
(* Left out: last_file_result (written, never read), command ids, and of   *)
(* LIVE everything but its start and end, which module LiveControl has.    *)
(***************************************************************************)
EXTENDS Session, FileStore

CONSTANTS
  Request,         \* POST /broadcast requests in progress at once
  Device,          \* device ids
  Flaky,           \* the devices whose connection may break
  Lists,           \* lists of target devices; a single `device` is a list of one
  SendMaySuspend,  \* a transport may be paused, so that a send suspends
  MaxFiles,        \* bound on file_id
  MaxSessions      \* bound on session_id

ASSUME FileAssumption ==
  /\ Flaky \subseteq Device
  /\ Lists \subseteq SUBSET Device
  /\ None \notin Device
  /\ SendMaySuspend \in BOOLEAN
  /\ MaxFiles \in Nat
  /\ MaxSessions \in Nat

VARIABLES
  cmd,         \* per device its /cmd socket: "off", "open", or "lost" when the
               \* transport is closing and ws.closed does not say so yet
  req,         \* per request: where its sends are suspended, and its locals
  fetch,       \* per device: the FILE_START it works on
  reports,     \* per device: FILE_END and FILE_ABORT not yet read
  unanswered,  \* FILEs an answer to which was lost with its connection
  inLive,      \* devices that hold themselves to be in a LIVE
  ignored,     \* FILEs that a device refused or gave up as PREEMPTED_BY_LIVE
  played       \* per device: the file it played last

fileVars == <<cmd, req, fetch, reports, unanswered, inLive, ignored, played>>
vars == <<session, store, fileVars>>

FileStart == [fid : 0..MaxFiles, name : Name \cup {None}, sha : File \cup {None}]
Idle == [fid |-> 0, name |-> None, sha |-> None]

Outcome == {"end", "abort", "busy", "preempted"}

FileTypeOK ==
  /\ SessionTypeOK
  /\ StoreTypeOK
  /\ cmd \in [Device -> {"off", "open", "lost"}]
  /\ req \in [Request -> [at : {"idle", "sendAll", "sendList"}, start : FileStart,
                          todo : SUBSET Device, drain : Device \cup {None}]]
  /\ fetch \in [Device -> FileStart]
  /\ reports \in [Device -> Seq([fid : 1..MaxFiles, what : Outcome])]
  /\ unanswered \subseteq 1..MaxFiles
  /\ inLive \subseteq Device
  /\ ignored \subseteq 1..MaxFiles
  /\ played \in [Device -> File \cup {None}]

NoRequest == [at |-> "idle", start |-> Idle, todo |-> {}, drain |-> None]

Init ==
  /\ SessionInit
  /\ StoreInit
  /\ cmd = [d \in Device |-> "off"]
  /\ req = [r \in Request |-> NoRequest]
  /\ fetch = [d \in Device |-> Idle]
  /\ reports = [d \in Device |-> <<>>]
  /\ unanswered = {}
  /\ inLive = {}
  /\ ignored = {}
  /\ played = [d \in Device |-> None]

Registered == {d \in Device : cmd[d] # "off"}

-----------------------------------------------------------------------------
(* broadcast_handler *)

Accepts(d) == d \notin inLive /\ fetch[d] = Idle

\* The devices S receive FILE_START.
Deliver(S, start) ==
  /\ fetch' = [d \in Device |-> IF d \in S /\ Accepts(d) THEN start ELSE fetch[d]]
  /\ reports' = [d \in Device |->
       IF d \in S /\ ~Accepts(d)
       THEN Append(reports[d], [fid |-> start.fid,
                                what |-> IF d \in inLive THEN "preempted" ELSE "busy"])
       ELSE reports[d]]
  /\ ignored' = IF S \cap inLive = {} THEN ignored ELSE ignored \cup {start.fid}

\* r sends FILE_START to the devices T; reached says that an earlier send of its
\* got through.  The sends end with some device reached, or with none; or a lost
\* connection raises; or they are parked at a device with others still to do.
Send(r, at, start, T, reached, how) ==
  LET up   == {d \in T : cmd[d] = "open"}
      lost == {d \in T : cmd[d] = "lost"}
      drain == req[r].drain
  IN \/ /\ how = IF reached \/ up # {} THEN "sent" ELSE "nobody"
        /\ lost = {}
        /\ Deliver(up, start)
        /\ req' = [req EXCEPT ![r] = NoRequest]
     \/ /\ how = "raised"
        /\ \E S \in SUBSET up :
             /\ lost # {} \/ (S = {} /\ drain \in Flaky /\ cmd[drain] # "open")
             /\ Deliver(S, start)
        /\ req' = [req EXCEPT ![r] = NoRequest]
     \/ /\ how = "parked"
        /\ SendMaySuspend
        /\ \E d \in up, S \in SUBSET up, rest \in SUBSET T :
             /\ d \in S
             /\ rest \cap S = {}
             /\ up \cup lost \subseteq S \cup rest
             /\ Deliver(S, start)
             /\ req' = [req EXCEPT ![r] = [at |-> at, start |-> start,
                                           todo |-> rest, drain |-> d]]

RolledBack(how) == how \in {"nobody", "raised"}

\* The FILE is started and rolled back without a suspension in between.
start_then_stop_file ==
  /\ state' = "IDLE"
  /\ file_id' = file_id + 1
  /\ file_stale' = FALSE
  /\ UNCHANGED session_id

StartFile(r) ==
  /\ req[r].at = "idle"
  /\ Registered # {}
  /\ can_start_file
  /\ file_id < MaxFiles
  /\ \E f \in Name, how \in {"sent", "nobody", "raised", "parked"} :
       LET start == [fid |-> file_id + 1, name |-> f, sha |-> index[f]]
       IN /\ index[f] # None
          /\ \/ Send(r, "sendAll", start, Registered, FALSE, how)
             \/ \E T \in Lists : Send(r, "sendList", start, T, FALSE, how)
          /\ IF RolledBack(how) THEN start_then_stop_file ELSE start_file
  /\ UNCHANGED <<store, cmd, unanswered, inLive, played>>

\* The sends of r go on.  Its roll-back ends whatever FILE is in progress.
ResumeFile(r) ==
  /\ req[r].at # "idle"
  /\ \E how \in {"sent", "raised", "parked"} :
       /\ Send(r, req[r].at, req[r].start, req[r].todo, TRUE, how)
       /\ IF RolledBack(how) THEN stop_file ELSE UNCHANGED session
  /\ UNCHANGED <<store, cmd, unanswered, inLive, played>>

-----------------------------------------------------------------------------
(* Reports *)

EndsFileNotBusy(what) == what \notin {"preempted", "busy"}     \* mutant
EndsFile(what) == what # "preempted"

\* _handle_report looks neither at the file_id nor at the device.
HandleReport(d) ==
  /\ cmd[d] # "off"
  /\ reports[d] # <<>>
  /\ reports' = [reports EXCEPT ![d] = Tail(@)]
  /\ IF EndsFile(Head(reports[d]).what) THEN stop_file ELSE UNCHANGED session
  /\ UNCHANGED <<store, cmd, req, fetch, unanswered, inLive, ignored, played>>

Report(d, what) ==
  /\ cmd[d] = "open"
  /\ fetch[d] # Idle
  /\ fetch' = [fetch EXCEPT ![d] = Idle]
  /\ reports' = [reports EXCEPT ![d] = Append(@, [fid |-> fetch[d].fid, what |-> what])]
  /\ UNCHANGED <<session, store, cmd, req, unanswered, inLive, ignored>>

\* The device has fetched what nginx serves under the name: FILE_END, and only
\* the file that was announced is played.
FetchEnds(d) ==
  LET f == fetch[d].name
  IN /\ fetch[d] # Idle /\ link[f] # None
     /\ played' = IF data[link[f]] = fetch[d].sha
                  THEN [played EXCEPT ![d] = fetch[d].sha] ELSE played
     /\ Report(d, "end")

\* The file is not there, or the device cannot take it: FILE_ABORT.
FetchFails(d) == Report(d, "abort") /\ UNCHANGED played

-----------------------------------------------------------------------------
(* Connections *)

Connect(d) ==
  /\ cmd[d] = "off"
  /\ cmd' = [cmd EXCEPT ![d] = "open"]
  /\ UNCHANGED <<session, store, req, fetch, reports, unanswered, inLive, ignored, played>>

Lose(d) ==
  /\ d \in Flaky
  /\ cmd[d] = "open"
  /\ cmd' = [cmd EXCEPT ![d] = "lost"]
  /\ inLive' = inLive \ {d}
  /\ UNCHANGED <<session, store, req, fetch, reports, unanswered, ignored, played>>

\* cmd_handler has noticed.  The device may have lost its file, too, which concerns
\* a FILE of this server unless its id is from before a restart.
Cleanup(d) ==
  /\ cmd[d] = "lost"
  /\ cmd' = [cmd EXCEPT ![d] = "off"]
  /\ req' = [r \in Request |->
               IF req[r].at = "sendAll" THEN [req[r] EXCEPT !.todo = @ \ {d}] ELSE req[r]]
  /\ fetch' \in {fetch, [fetch EXCEPT ![d] = Idle]}
  /\ reports' = [reports EXCEPT ![d] = <<>>]
  /\ LET files == {reports[d][i].fid : i \in DOMAIN reports[d]}
                     \cup (IF fetch' # fetch THEN {fetch[d].fid} ELSE {})
     IN unanswered' = unanswered \cup (files \cap 1..file_id)
  /\ UNCHANGED <<session, store, inLive, ignored, played>>

-----------------------------------------------------------------------------
(* LIVE and restart *)

\* A LIVE preempts the FILE: the server only changes state.
LiveStarts ==
  /\ Registered # {}
  /\ can_start_live
  /\ session_id < MaxSessions
  /\ start_live
  /\ UNCHANGED <<store, fileVars>>

\* A device is told of a LIVE, of one that is over if the broadcast was suspended.
\* It gives up the file it fetches, and says so.
JoinLive(d) ==
  /\ cmd[d] = "open" /\ d \notin inLive
  /\ state = "LIVE" \/ (SendMaySuspend /\ session_id > 0)
  /\ inLive' = inLive \cup {d}
  /\ IF fetch[d] = Idle
     THEN UNCHANGED <<fetch, reports, ignored>>
     ELSE /\ fetch' = [fetch EXCEPT ![d] = Idle]
          /\ reports' = [reports EXCEPT ![d] =
                            Append(@, [fid |-> fetch[d].fid, what |-> "preempted"])]
          /\ ignored' = ignored \cup ({fetch[d].fid} \cap 1..file_id)
  /\ UNCHANGED <<session, store, cmd, req, unanswered, played>>

LeaveLive(d) ==
  /\ d \in inLive
  /\ inLive' = inLive \ {d}
  /\ UNCHANGED <<session, store, cmd, req, fetch, reports, unanswered, ignored, played>>

\* The devices were told before stop_live, all of them unless a send was suspended.
LiveEnds ==
  /\ state = "LIVE"
  /\ stop_live
  /\ inLive' = IF SendMaySuspend THEN inLive ELSE {}
  /\ UNCHANGED <<store, cmd, req, fetch, reports, unanswered, ignored, played>>

Expire ==
  /\ FileExpires
  /\ UNCHANGED <<store, fileVars>>

\* The server's memory is gone; the devices go on with what they were told, and
\* the file ids begin again.
Restart ==
  /\ RestartStore
  /\ state' = "IDLE" /\ session_id' = 0 /\ file_id' = 0 /\ file_stale' = FALSE
  /\ cmd' = [d \in Device |-> "off"]
  /\ req' = [r \in Request |-> NoRequest]
  /\ reports' = [d \in Device |-> <<>>]
  /\ unanswered' = {} /\ inLive' = {} /\ ignored' = {}
  /\ UNCHANGED <<fetch, played>>

DeviceStep(d) == \/ HandleReport(d) \/ FetchEnds(d) \/ FetchFails(d)
                 \/ JoinLive(d) \/ LeaveLive(d)
                 \/ Connect(d) \/ Lose(d) \/ Cleanup(d)

Next ==
  \/ StoreStep /\ UNCHANGED <<session, fileVars>>
  \/ \E r \in Request : StartFile(r) \/ ResumeFile(r)
  \/ \E d \in Device : DeviceStep(d)
  \/ LiveStarts
  \/ LiveEnds
  \/ Expire
  \/ Restart

Spec == Init /\ [][Next]_vars

-----------------------------------------------------------------------------

Working(f) == \E d \in Device : fetch[d].fid = f
Answered(f) == \E d \in Device : \E i \in DOMAIN reports[d] :
                 reports[d][i].fid = f /\ reports[d][i].what # "preempted"

\* A FILE in progress is always one that some device still has to answer, so
\* that the next broadcast is not refused for longer than the slowest device
\* takes: roll-backs, BUSY, late answers to an earlier FILE, preempted ones and
\* restarts leave no FILE behind that nobody will end.  Only two things do, which
\* FILE_STALE_SEC has to be waited for then: an answer lost with its connection,
\* and, where broadcasts may suspend, the PREEMPTED_BY_LIVE of a device that has
\* not heard how the LIVE stands; the server takes no notice of it.
FileAnswerable ==
  state = "FILE"
    => \/ Working(file_id) \/ Answered(file_id)
       \/ file_id \in unanswered
       \/ SendMaySuspend /\ file_id \in ignored

\* No step of FILE ends a LIVE: not the late answer to a FILE that the LIVE
\* preempted, nor the roll-back of a broadcast that was suspended meanwhile.
LiveSurvivesFile ==
  [][state = "LIVE" /\ (req' # req \/ reports' # reports) /\ restarts' = restarts
       => state' = "LIVE"]_vars

\* A device plays complete uploads only, although uploads of one second write
\* one file, and a file may be deleted or overwritten while it is fetched: the
\* announced digest is that of an upload, never of what lies on disk.  (A restart
\* takes the digest of what lies on disk.)
PlayedWhole ==
  restarts = 0 => \A d \in Device : played[d] # None
                    => \E u \in Upload : job[u].at = "over" /\ played[d] = Received(u)
=============================================================================
