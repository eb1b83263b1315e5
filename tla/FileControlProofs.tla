------------------------- MODULE FileControlProofs -------------------------
(***************************************************************************)
(* Theorems about FileControl, for all sets of uploads, requests and       *)
(* devices and all values of its other constants: it uses the file store   *)
(* as FileStore says, every FILE is answered (FileAnswerable), no step of  *)
(* a FILE ends a LIVE, and devices play complete uploads only.             *)
(***************************************************************************)
EXTENDS FileControl, FileStoreProofs

-----------------------------------------------------------------------------
(* The file store as seen by FILE control *)

LEMMA NextRefinesStore == [Next]_vars => [StoreNext]_store
<1>1. ASSUME NEW r \in Request, StartFile(r) \/ ResumeFile(r)
      PROVE  UNCHANGED store
  BY <1>1 DEF StartFile, ResumeFile
<1>2. ASSUME NEW d \in Device, DeviceStep(d)
      PROVE  UNCHANGED store
  BY <1>2 DEF DeviceStep, HandleReport, FetchEnds, FetchFails, Report, Connect, Lose,
              Cleanup, JoinLive, LeaveLive
<1>3. ASSUME LiveStarts \/ LiveEnds \/ Expire
      PROVE  UNCHANGED store
  BY <1>3 DEF LiveStarts, LiveEnds, Expire
<1>4. ASSUME UNCHANGED vars
      PROVE  UNCHANGED store
  BY <1>4 DEF vars
<1> QED
  BY <1>1, <1>2, <1>3, <1>4 DEF Next, Restart, StoreNext

\* FILE control changes the store by the store's own steps only, so that what is
\* proved of FileStore holds of the composition.
THEOREM RefinesStore == Spec => StoreSpec
<1>1. Init => StoreInit
  BY DEF Init
<1> QED
  BY <1>1, NextRefinesStore, PTL DEF Spec, StoreSpec

\* Amid broadcasts and LIVEs, too, what the server offers is on disk.
THEOREM OfferedOnDisk == Spec => []IndexTrue
BY RefinesStore, StoreIndexTrue, PTL

\* Amid broadcasts and LIVEs, too, no deleted or failed upload comes back that the
\* file system did not refuse to remove or to read.
THEOREM NothingReturnsHere == Spec => NothingReturns
BY RefinesStore, StoreNothingReturns, PTL

-----------------------------------------------------------------------------
(* Sending FILE_START *)

How == {"sent", "nobody", "raised", "parked"}
Event == [fid : 1..MaxFiles, what : Outcome]
Req == [at : {"idle", "sendAll", "sendList"}, start : FileStart,
        todo : SUBSET Device, drain : Device \cup {None}]

LEMMA IdleTypes == Idle \in FileStart /\ NoRequest \in Req
BY FileAssumption DEF Idle, NoRequest, FileStart, Req

\* A broadcast delivers its FILE_START to some of its devices; if it is neither
\* rolled back nor has it reached one before, to one at least.
Sends(start, reached, how) ==
  \E S \in SUBSET Device :
    /\ Deliver(S, start)
    /\ RolledBack(how) \/ reached \/ S # {}
    /\ req' \in [Request -> Req]
    /\ \A q \in Request : \/ req'[q].at = "idle"
                          \/ req'[q] = req[q]
                          \/ req'[q].start = start

LEMMA SendEffect ==
  ASSUME NEW r \in Request, NEW at \in {"sendAll", "sendList"},
         NEW start \in FileStart, NEW T \in SUBSET Device,
         NEW reached \in BOOLEAN, NEW how, FileTypeOK,
         Send(r, at, start, T, reached, how)
  PROVE  Sends(start, reached, how)
<1> DEFINE up == {d \in T : cmd[d] = "open"}
           lost == {d \in T : cmd[d] = "lost"}
           drain == req[r].drain
<1>1. req \in [Request -> Req]
  BY DEF FileTypeOK, Req
<1>2. ASSUME req' = [req EXCEPT ![r] = NoRequest]
      PROVE  /\ req' \in [Request -> Req]
             /\ \A q \in Request : req'[q].at = "idle" \/ req'[q] = req[q]
  BY <1>1, <1>2, IdleTypes DEF NoRequest
<1>3. CASE /\ how = IF reached \/ up # {} THEN "sent" ELSE "nobody"
           /\ Deliver(up, start) /\ req' = [req EXCEPT ![r] = NoRequest]
  <2>1. up \in SUBSET Device /\ (RolledBack(how) \/ reached \/ up # {})
    BY <1>3 DEF RolledBack
  <2> HIDE DEF up
  <2> QED
    BY <1>2, <1>3, <2>1 DEF Sends
<1>4. CASE how = "raised" /\ (\E S \in SUBSET up : Deliver(S, start))
           /\ req' = [req EXCEPT ![r] = NoRequest]
  BY <1>2, <1>4 DEF Sends, RolledBack
<1>5. CASE \E d \in up, S \in SUBSET up, rest \in SUBSET T :
             /\ d \in S
             /\ Deliver(S, start)
             /\ req' = [req EXCEPT ![r] = [at |-> at, start |-> start,
                                           todo |-> rest, drain |-> d]]
  <2>1. PICK d \in up, S \in SUBSET up, rest \in SUBSET T :
             /\ d \in S
             /\ Deliver(S, start)
             /\ req' = [req EXCEPT ![r] = [at |-> at, start |-> start,
                                           todo |-> rest, drain |-> d]]
    BY <1>5
  <2>2. [at |-> at, start |-> start, todo |-> rest, drain |-> d] \in Req
    BY DEF Req
  <2>3. /\ req' \in [Request -> Req]
        /\ \A q \in Request : req'[q] = req[q] \/ req'[q].start = start
    BY <1>1, <2>1, <2>2
  <2> QED
    BY <2>1, <2>3 DEF Sends
<1>6. \/ /\ how = IF reached \/ up # {} THEN "sent" ELSE "nobody"
         /\ Deliver(up, start) /\ req' = [req EXCEPT ![r] = NoRequest]
      \/ how = "raised" /\ (\E S \in SUBSET up : Deliver(S, start))
         /\ req' = [req EXCEPT ![r] = NoRequest]
      \/ \E d \in up, S \in SUBSET up, rest \in SUBSET T :
           /\ d \in S
           /\ Deliver(S, start)
           /\ req' = [req EXCEPT ![r] = [at |-> at, start |-> start,
                                         todo |-> rest, drain |-> d]]
  BY DEF Send
<1> QED
  BY <1>3, <1>4, <1>5, <1>6

\* What both handlers of a broadcast do.
LEMMA StartEffect ==
  ASSUME FileTypeOK, NEW r \in Request, StartFile(r)
  PROVE  \E f \in Name, how \in How :
           /\ index[f] # None
           /\ Sends([fid |-> file_id + 1, name |-> f, sha |-> index[f]], FALSE, how)
           /\ IF RolledBack(how) THEN start_then_stop_file ELSE start_file
<1>1. PICK f \in Name, how \in How :
        LET start == [fid |-> file_id + 1, name |-> f, sha |-> index[f]]
        IN /\ index[f] # None
           /\ \/ Send(r, "sendAll", start, Registered, FALSE, how)
              \/ \E T \in Lists : Send(r, "sendList", start, T, FALSE, how)
           /\ IF RolledBack(how) THEN start_then_stop_file ELSE start_file
  BY DEF StartFile, How
<1> DEFINE start == [fid |-> file_id + 1, name |-> f, sha |-> index[f]]
<1>2. start \in FileStart
  BY FileAssumption
     DEF StartFile, FileTypeOK, SessionTypeOK, StoreTypeOK, FileStart
<1> HIDE DEF start
<1>3. PICK at \in {"sendAll", "sendList"}, T \in SUBSET Device :
        Send(r, at, start, T, FALSE, how)
  BY <1>1, FileAssumption DEF start, Registered
<1>4. Sends(start, FALSE, how)
  BY <1>2, <1>3, SendEffect
<1> QED
  BY <1>1, <1>4 DEF start

LEMMA ResumeEffect ==
  ASSUME FileTypeOK, NEW r \in Request, ResumeFile(r)
  PROVE  /\ req[r].start \in FileStart /\ req[r].at # "idle"
         /\ \E how : Sends(req[r].start, TRUE, how)
         /\ stop_file \/ UNCHANGED session
<1>1. /\ req[r].at \in {"sendAll", "sendList"} /\ req[r].start \in FileStart
      /\ req[r].todo \in SUBSET Device
  BY DEF ResumeFile, FileTypeOK
<1>2. PICK how : /\ Send(r, req[r].at, req[r].start, req[r].todo, TRUE, how)
                 /\ IF RolledBack(how) THEN stop_file ELSE UNCHANGED session
  BY DEF ResumeFile
<1>3. Sends(req[r].start, TRUE, how)
  BY <1>1, <1>2, SendEffect
<1> QED
  BY <1>1, <1>2, <1>3

-----------------------------------------------------------------------------
(* Types *)

LEMMA EventSequences ==
  ASSUME NEW s \in Seq(Event), NEW e \in Event
  PROVE  /\ Append(s, e) \in Seq(Event)
         /\ Len(Append(s, e)) = Len(s) + 1
         /\ Append(s, e)[Len(s) + 1] = e
         /\ \A i \in DOMAIN s : i \in DOMAIN Append(s, e) /\ Append(s, e)[i] = s[i]
OBVIOUS

LEMMA DeliverTypes ==
  ASSUME FileTypeOK, NEW S \in SUBSET Device, NEW start \in FileStart,
         start.fid \in 1..MaxFiles, Deliver(S, start)
  PROVE  /\ fetch' \in [Device -> FileStart] /\ reports' \in [Device -> Seq(Event)]
         /\ ignored' \subseteq 1..MaxFiles
<1> DEFINE e(what) == [fid |-> start.fid, what |-> what]
<1>1. \A what \in Outcome : e(what) \in Event
  BY DEF Event
<1>2. fetch' \in [Device -> FileStart]
  BY DEF Deliver, FileTypeOK
<1>3. \A d \in Device, what \in Outcome : Append(reports[d], e(what)) \in Seq(Event)
  <2>1. \A d \in Device : reports[d] \in Seq(Event)
    BY DEF FileTypeOK, Event
  <2> HIDE DEF e
  <2> QED
    BY <1>1, <2>1, EventSequences
<1>4. "preempted" \in Outcome /\ "busy" \in Outcome
  BY DEF Outcome
<1>5. \A d \in Device : reports[d] \in Seq(Event)
  BY DEF FileTypeOK, Event
<1>6. reports' \in [Device -> Seq(Event)]
  BY <1>3, <1>4, <1>5 DEF Deliver
<1>7. ignored' \subseteq 1..MaxFiles
  BY DEF Deliver, FileTypeOK
<1> QED
  BY <1>2, <1>6, <1>7

LEMMA SessionSteps ==
  ASSUME SessionTypeOK,
         \/ start_live \/ stop_live \/ start_file \/ stop_file \/ FileExpires
         \/ start_then_stop_file \/ UNCHANGED session
  PROVE  SessionTypeOK'
<1> USE DEF SessionTypeOK, State
<1>1. file_stale' \in BOOLEAN
  <2>1. \/ file_stale' = file_stale \/ file_stale' = TRUE \/ file_stale' = FALSE
    BY Zenon DEF start_live, stop_live, start_file, stop_file, FileExpires,
                 start_then_stop_file, session
  <2> QED
    BY <2>1
<1>2. state' \in State
  BY DEF start_live, stop_live, start_file, stop_file, FileExpires,
         start_then_stop_file, session
<1>3. session_id' \in Nat /\ file_id' \in Nat
  <2>1. /\ session_id' = session_id \/ session_id' = session_id + 1
        /\ file_id' = file_id \/ file_id' = file_id + 1
    BY Zenon DEF start_live, stop_live, start_file, stop_file, FileExpires,
                 start_then_stop_file, session
  <2> QED
    BY <2>1
<1> QED
  BY <1>1, <1>2, <1>3

LEMMA ReportTypes ==
  ASSUME FileTypeOK, NEW d \in Device, NEW what \in {"end", "abort"}, Report(d, what),
         fetch[d].fid \in 1..MaxFiles, played' \in [Device -> File \cup {None}]
  PROVE  FileTypeOK'
<1>1. [fid |-> fetch[d].fid, what |-> what] \in Event
  BY DEF Event, Outcome
<1>2. \A e \in Device : reports[e] \in Seq(Event)
  BY DEF FileTypeOK, Event
<1>3. reports' \in [Device -> Seq(Event)]
  BY <1>1, <1>2, EventSequences DEF Report, FileTypeOK
<1>4. fetch' \in [Device -> FileStart]
  BY IdleTypes DEF Report, FileTypeOK
<1>5. SessionTypeOK' /\ StoreTypeOK'
  BY SessionSteps DEF Report, FileTypeOK, StoreTypeOK, store
<1> QED
  BY <1>3, <1>4, <1>5 DEF Report, FileTypeOK, Event

\* A device that works on a FILE was given its id.
FetchNumbered == \A d \in Device : fetch[d] = Idle \/ fetch[d].fid \in 1..MaxFiles
ReqNumbered == \A r \in Request : req[r].at = "idle" \/ req[r].start.fid \in 1..MaxFiles

FileTypes == FileTypeOK /\ FetchNumbered /\ ReqNumbered

LEMMA FileTypesInit == Init => FileTypes
<1> SUFFICES ASSUME Init
             PROVE  FileTypes
  OBVIOUS
<1>1. SessionTypeOK /\ StoreTypeOK
  BY StoreTypesInit DEF Init, SessionInit, SessionTypeOK, State
<1>2. \A r \in Request : req[r] = NoRequest /\ NoRequest.at = "idle"
  BY DEF Init, NoRequest
<1>3. reports \in [Device -> Seq([fid : 1..MaxFiles, what : Outcome])]
  BY DEF Init
<1>4. req \in [Request -> Req]
  BY IdleTypes DEF Init
<1> QED
  BY <1>1, <1>2, <1>3, <1>4, IdleTypes
     DEF Init, FileTypes, FileTypeOK, FetchNumbered, ReqNumbered, Req

LEMMA SendTypes ==
  ASSUME FileTypes, NEW start \in FileStart, start.fid \in 1..MaxFiles,
         NEW reached, NEW how, Sends(start, reached, how),
         SessionTypeOK', UNCHANGED <<store, cmd, unanswered, inLive, played>>
  PROVE  FileTypes'
<1>1. PICK S \in SUBSET Device :
        /\ Deliver(S, start)
        /\ req' \in [Request -> Req]
        /\ \A q \in Request : \/ req'[q].at = "idle"
                              \/ req'[q] = req[q]
                              \/ req'[q].start = start
  BY DEF Sends
<1>2. /\ fetch' \in [Device -> FileStart] /\ reports' \in [Device -> Seq(Event)]
      /\ ignored' \subseteq 1..MaxFiles
  BY <1>1, DeliverTypes DEF FileTypes
<1>3. StoreTypeOK'
  BY DEF FileTypes, FileTypeOK, StoreTypeOK, store
<1>4. FetchNumbered'
  BY <1>1 DEF FetchNumbered, Deliver, FileTypes
<1>5. ReqNumbered'
  BY <1>1 DEF ReqNumbered, FileTypes
<1> QED
  BY <1>1, <1>2, <1>3, <1>4, <1>5 DEF FileTypes, FileTypeOK, Event, Req

LEMMA StartTypes ==
  ASSUME FileTypes, NEW r \in Request, StartFile(r) \/ ResumeFile(r)
  PROVE  FileTypes'
<1>1. UNCHANGED <<store, cmd, unanswered, inLive, played>>
  BY DEF StartFile, ResumeFile
<1>2. CASE StartFile(r)
  <2>1. PICK f \in Name, how \in How :
          /\ index[f] # None
          /\ Sends([fid |-> file_id + 1, name |-> f, sha |-> index[f]], FALSE, how)
          /\ IF RolledBack(how) THEN start_then_stop_file ELSE start_file
    BY <1>2, StartEffect DEF FileTypes
  <2> DEFINE start == [fid |-> file_id + 1, name |-> f, sha |-> index[f]]
  <2>2. start \in FileStart /\ start.fid \in 1..MaxFiles
    BY <1>2, FileAssumption
       DEF FileTypes, FileTypeOK, SessionTypeOK, StoreTypeOK, FileStart, StartFile
  <2>3. SessionTypeOK'
    BY <2>1, SessionSteps DEF FileTypes, FileTypeOK
  <2> HIDE DEF start
  <2> QED
    BY <1>1, <2>1, <2>2, <2>3, SendTypes DEF start
<1>3. CASE ResumeFile(r)
  <2>1. PICK how : Sends(req[r].start, TRUE, how)
    BY <1>3, ResumeEffect DEF FileTypes
  <2>2. req[r].start \in FileStart /\ req[r].start.fid \in 1..MaxFiles
    BY <1>3, ResumeEffect DEF FileTypes, ReqNumbered
  <2>3. SessionTypeOK'
    BY <1>3, ResumeEffect, SessionSteps DEF FileTypes, FileTypeOK
  <2> QED
    BY <1>1, <2>1, <2>2, <2>3, SendTypes
<1> QED
  BY <1>2, <1>3

LEMMA DeviceTypes ==
  ASSUME FileTypes, NEW d \in Device, DeviceStep(d)
  PROVE  FileTypes'
<1> USE DEF FileTypes
<1>1. \A e \in Device : reports[e] \in Seq(Event)
  BY DEF FileTypeOK, Event
<1>2. CASE HandleReport(d)
  <2>1. Tail(reports[d]) \in Seq(Event)
    BY <1>1, <1>2 DEF HandleReport
  <2>2. reports' \in [Device -> Seq(Event)]
    BY <1>1, <1>2, <2>1 DEF HandleReport, FileTypeOK
  <2>3. SessionTypeOK' /\ StoreTypeOK'
    BY <1>2, SessionSteps DEF HandleReport, FileTypeOK, StoreTypeOK, store
  <2> QED
    BY <1>2, <2>2, <2>3
       DEF HandleReport, FileTypeOK, Event, FetchNumbered, ReqNumbered
<1>3. CASE FetchEnds(d) \/ FetchFails(d)
  <2>1. PICK what \in {"end", "abort"} : Report(d, what)
    BY <1>3 DEF FetchEnds, FetchFails
  <2>2. fetch[d].sha \in File \cup {None} /\ fetch[d].fid \in 1..MaxFiles
    BY <2>1 DEF FileTypeOK, FileStart, FetchNumbered, Report
  <2>3. played' \in [Device -> File \cup {None}]
    BY <1>3, <2>2 DEF FetchEnds, FetchFails, FileTypeOK
  <2>4. FetchNumbered' /\ ReqNumbered'
    BY <2>1 DEF Report, FetchNumbered, ReqNumbered, FileTypeOK
  <2> QED
    BY <2>1, <2>2, <2>3, <2>4, ReportTypes
<1>4. CASE Connect(d) \/ Lose(d)
  <2>1. SessionTypeOK' /\ StoreTypeOK'
    BY <1>4, SessionSteps DEF Connect, Lose, FileTypeOK, StoreTypeOK, store
  <2> QED
    BY <1>4, <2>1 DEF Connect, Lose, FileTypeOK, FetchNumbered, ReqNumbered
<1>5. CASE Cleanup(d)
  <2>1. \A r \in Request :
          /\ req'[r] \in Req
          /\ req'[r].at = req[r].at /\ req'[r].start = req[r].start
    <3> TAKE r \in Request
    <3>1. req[r] \in Req
      BY DEF FileTypeOK, Req
    <3>2. req'[r] = req[r] \/ req'[r] = [req[r] EXCEPT !.todo = @ \ {d}]
      BY <1>5 DEF Cleanup
    <3>3. /\ [req[r] EXCEPT !.todo = @ \ {d}] \in Req
          /\ [req[r] EXCEPT !.todo = @ \ {d}].at = req[r].at
          /\ [req[r] EXCEPT !.todo = @ \ {d}].start = req[r].start
      BY <3>1 DEF Req
    <3> QED
      BY <3>1, <3>2, <3>3
  <2>2. req' \in [Request -> Req] /\ ReqNumbered'
    BY <1>5, <2>1 DEF Cleanup, ReqNumbered
  <2>3. fetch' \in [Device -> FileStart] /\ FetchNumbered'
    <3>1. /\ fetch' \in [Device -> FileStart]
          /\ \A e \in Device : fetch'[e] = fetch[e] \/ fetch'[e] = Idle
      <4>1. fetch' = fetch \/ fetch' = [fetch EXCEPT ![d] = Idle]
        BY <1>5 DEF Cleanup
      <4>2. fetch \in [Device -> FileStart] /\ Idle \in FileStart
        BY IdleTypes DEF FileTypeOK
      <4>3. [fetch EXCEPT ![d] = Idle] \in [Device -> FileStart]
        BY <4>2
      <4>4. CASE fetch' = fetch
        BY <4>2, <4>4
      <4>5. CASE fetch' = [fetch EXCEPT ![d] = Idle]
        BY <4>2, <4>3, <4>5
      <4> QED
        BY <4>1, <4>4, <4>5
    <3> QED
      BY <3>1 DEF FetchNumbered
  <2>4. fetch' # fetch => fetch[d].fid \in 1..MaxFiles
    <3>1. fetch[d] = Idle => [fetch EXCEPT ![d] = Idle] = fetch
      BY DEF FileTypeOK
    <3> QED
      BY <1>5, <3>1 DEF Cleanup, FetchNumbered
  <2>5. \A i \in DOMAIN reports[d] : reports[d][i].fid \in 1..MaxFiles
    <3>1. reports[d] \in Seq(Event)
      BY <1>1
    <3>2. \A i \in DOMAIN reports[d] : reports[d][i] \in Event
      BY <3>1
    <3> QED
      BY <3>2 DEF Event
  <2>6. unanswered' \subseteq 1..MaxFiles
    BY <1>5, <2>4, <2>5 DEF Cleanup, FileTypeOK
  <2>7. reports' \in [Device -> Seq(Event)]
    BY <1>1, <1>5 DEF Cleanup, FileTypeOK
  <2>8. SessionTypeOK' /\ StoreTypeOK'
    BY <1>5, SessionSteps DEF Cleanup, FileTypeOK, StoreTypeOK, store
  <2> QED
    BY <1>5, <2>2, <2>3, <2>6, <2>7, <2>8 DEF Cleanup, FileTypeOK, Event, Req
<1>6. CASE JoinLive(d)
  <2>1. CASE fetch[d] = Idle
    <3>1. SessionTypeOK' /\ StoreTypeOK'
      BY <1>6, SessionSteps DEF JoinLive, FileTypeOK, StoreTypeOK, store
    <3> QED
      BY <1>6, <2>1, <3>1 DEF JoinLive, FileTypeOK, FetchNumbered, ReqNumbered
  <2>2. CASE fetch[d] # Idle
    <3> DEFINE e == [fid |-> fetch[d].fid, what |-> "preempted"]
    <3>1. fetch[d].fid \in 1..MaxFiles
      BY <2>2 DEF FetchNumbered
    <3>2. e \in Event
      BY <3>1 DEF Event, Outcome
    <3>3. reports' = [reports EXCEPT ![d] = Append(@, e)]
      BY <1>6, <2>2 DEF JoinLive
    <3>4. Append(reports[d], e) \in Seq(Event)
      <4> HIDE DEF e
      <4> QED
        BY <1>1, <3>2, EventSequences
    <3>5. reports' \in [Device -> Seq(Event)]
      <4> HIDE DEF e
      <4> QED
        BY <1>1, <3>3, <3>4 DEF FileTypeOK
    <3>6. fetch' = [fetch EXCEPT ![d] = Idle] /\ ignored' \subseteq 1..MaxFiles
      BY <1>6, <2>2, <3>1 DEF JoinLive, FileTypeOK
    <3>7. fetch' \in [Device -> FileStart] /\ FetchNumbered'
      BY <3>6, IdleTypes DEF FileTypeOK, FetchNumbered
    <3>8. SessionTypeOK' /\ StoreTypeOK'
      BY <1>6, SessionSteps DEF JoinLive, FileTypeOK, StoreTypeOK, store
    <3> QED
      BY <1>6, <3>5, <3>6, <3>7, <3>8 DEF JoinLive, FileTypeOK, Event, ReqNumbered
  <2> QED
    BY <2>1, <2>2
<1>7. CASE LeaveLive(d)
  <2>1. SessionTypeOK' /\ StoreTypeOK'
    BY <1>7, SessionSteps DEF LeaveLive, FileTypeOK, StoreTypeOK, store
  <2> QED
    BY <1>7, <2>1 DEF LeaveLive, FileTypeOK, FetchNumbered, ReqNumbered
<1> QED
  BY <1>2, <1>3, <1>4, <1>5, <1>6, <1>7 DEF DeviceStep

LEMMA ServerTypes ==
  ASSUME FileTypes, LiveStarts \/ LiveEnds \/ Expire \/ Restart
  PROVE  FileTypes'
<1> USE DEF FileTypes
<1>1. CASE LiveStarts \/ Expire
  <2>1. SessionTypeOK' /\ StoreTypeOK'
    BY <1>1, SessionSteps DEF LiveStarts, Expire, FileTypeOK, StoreTypeOK, store
  <2> QED
    BY <1>1, <2>1
       DEF LiveStarts, Expire, FileTypeOK, fileVars, FetchNumbered, ReqNumbered
<1>2. CASE LiveEnds
  <2>1. SessionTypeOK' /\ StoreTypeOK'
    BY <1>2, SessionSteps DEF LiveEnds, FileTypeOK, StoreTypeOK, store
  <2> QED
    BY <1>2, <2>1 DEF LiveEnds, FileTypeOK, FetchNumbered, ReqNumbered
<1>3. CASE Restart
  <2>1. StoreTypeOK'
    BY <1>3, StoreTypesStep DEF Restart, FileTypeOK, StoreNext
  <2>2. SessionTypeOK'
    BY <1>3 DEF Restart, SessionTypeOK, State
  <2>3. req' \in [Request -> Req] /\ ReqNumbered'
    BY <1>3, IdleTypes DEF Restart, ReqNumbered, NoRequest
  <2>4. reports' \in [Device -> Seq(Event)] /\ cmd' \in [Device -> {"off", "open", "lost"}]
    BY <1>3 DEF Restart
  <2> QED
    BY <1>3, <2>1, <2>2, <2>3, <2>4 DEF Restart, FileTypeOK, Event, Req, FetchNumbered
<1> QED
  BY <1>1, <1>2, <1>3

LEMMA FileTypesStep ==
  ASSUME FileTypes, [Next]_vars
  PROVE  FileTypes'
<1>1. CASE StoreStep /\ UNCHANGED <<session, fileVars>>
  <2>1. StoreTypeOK'
    BY <1>1, StoreTypesStep DEF FileTypes, FileTypeOK, StoreNext
  <2> QED
    BY <1>1, <2>1, SessionSteps
       DEF FileTypes, FileTypeOK, fileVars, FetchNumbered, ReqNumbered
<1>2. CASE UNCHANGED vars
  <2>1. SessionTypeOK' /\ StoreTypeOK'
    BY <1>2, SessionSteps DEF vars, FileTypes, FileTypeOK, StoreTypeOK, store
  <2> QED
    BY <1>2, <2>1
       DEF vars, FileTypes, FileTypeOK, fileVars, FetchNumbered, ReqNumbered
<1> QED
  BY <1>1, <1>2, StartTypes, DeviceTypes, ServerTypes DEF Next

\* Every value of FILE control is of its kind; in particular every FILE_START,
\* answer and lost answer carries the id of a FILE that was started.
THEOREM FileTypeCorrect == Spec => [](FileTypeOK /\ FetchNumbered /\ ReqNumbered)
<1>1. FileTypes /\ [Next]_vars => FileTypes'
  BY FileTypesStep
<1>2. FileTypes => FileTypeOK /\ FetchNumbered /\ ReqNumbered
  BY DEF FileTypes
<1> QED
  BY <1>1, <1>2, FileTypesInit, PTL DEF Spec

-----------------------------------------------------------------------------
(* Every FILE is answered *)

Pending(f) == Working(f) \/ Answered(f) \/ f \in unanswered
              \/ (SendMaySuspend /\ f \in ignored)

AnswerInv == FileAnswerable /\ (state = "FILE" => file_id \in Nat \ {0})

\* A device is left in a LIVE that is over only where sends suspend.
BeliefInv == SendMaySuspend \/ inLive = {} \/ state = "LIVE"

LEMMA BeliefStep ==
  ASSUME FileTypes, BeliefInv, [Next]_vars
  PROVE  BeliefInv'
<1> USE DEF BeliefInv
<1>1. ASSUME UNCHANGED inLive, state = "LIVE" => state' = "LIVE"
      PROVE  BeliefInv'
  BY <1>1
<1>2. CASE UNCHANGED <<session, inLive>>
  BY <1>2 DEF session
<1>3. ASSUME NEW r \in Request, StartFile(r)
      PROVE  BeliefInv'
  BY <1>3 DEF StartFile, can_start_file
<1>4. ASSUME NEW r \in Request, ResumeFile(r)
      PROVE  BeliefInv'
  <2>1. stop_file \/ UNCHANGED session
    BY <1>4, ResumeEffect DEF FileTypes
  <2> QED
    BY <1>1, <1>4, <2>1 DEF ResumeFile, stop_file, session
<1>5. ASSUME NEW d \in Device, HandleReport(d)
      PROVE  BeliefInv'
  BY <1>1, <1>5 DEF HandleReport, stop_file, session
<1>6. ASSUME NEW d \in Device, JoinLive(d) \/ LeaveLive(d) \/ Lose(d)
      PROVE  BeliefInv'
  BY <1>6 DEF JoinLive, LeaveLive, Lose, session
<1>7. ASSUME NEW d \in Device, FetchEnds(d) \/ FetchFails(d) \/ Connect(d) \/ Cleanup(d)
      PROVE  BeliefInv'
  BY <1>2, <1>7 DEF FetchEnds, FetchFails, Report, Connect, Cleanup
<1>8. CASE LiveStarts
  BY <1>8 DEF LiveStarts, start_live
<1>9. CASE LiveEnds
  BY <1>9 DEF LiveEnds
<1>10. CASE Expire
  BY <1>1, <1>10 DEF Expire, FileExpires, fileVars
<1>11. CASE Restart
  BY <1>11 DEF Restart
<1>12. UNCHANGED <<session, fileVars>> \/ UNCHANGED vars => UNCHANGED <<session, inLive>>
  BY DEF fileVars, vars
<1> QED
  BY <1>2, <1>3, <1>4, <1>5, <1>6, <1>7, <1>8, <1>9, <1>10, <1>11, <1>12
     DEF Next, DeviceStep

\* Deliveries take no answer away, and one brings one unless a device refuses it
\* for a LIVE that is over.
LEMMA DeliverPends ==
  ASSUME FileTypes, NEW S \in SUBSET Device, NEW start \in FileStart,
         start.fid \in 1..MaxFiles, Deliver(S, start), UNCHANGED unanswered
  PROVE  /\ \A f \in Nat \ {0} : Pending(f) => Pending(f)'
         /\ S # {} /\ (SendMaySuspend \/ inLive = {}) => Pending(start.fid)'
<1> USE DEF FileTypes
<1>1. \A d \in Device : reports[d] \in Seq(Event)
  BY DEF FileTypeOK, Event
<1>2. \A d \in Device : \A i \in DOMAIN reports[d] :
        i \in DOMAIN reports'[d] /\ reports'[d][i] = reports[d][i]
  <2> SUFFICES ASSUME NEW d \in Device, NEW i \in DOMAIN reports[d]
               PROVE  i \in DOMAIN reports'[d] /\ reports'[d][i] = reports[d][i]
    OBVIOUS
  <2>1. CASE reports'[d] = reports[d]
    BY <2>1
  <2>2. CASE reports'[d] # reports[d]
    <3>1. PICK what \in Outcome :
            reports'[d] = Append(reports[d], [fid |-> start.fid, what |-> what])
      BY <2>2 DEF Deliver, Outcome
    <3>2. [fid |-> start.fid, what |-> what] \in Event
      BY DEF Event
    <3> QED
      BY <1>1, <3>1, <3>2, EventSequences
  <2> QED
    BY <2>1, <2>2
<1>3. \A d \in Device : fetch[d] # Idle => fetch'[d] = fetch[d]
  BY DEF Deliver, Accepts
<1>4. ASSUME NEW f \in Nat \ {0}, Pending(f)
      PROVE  Pending(f)'
  <2>1. CASE Working(f)
    BY <1>3, <1>4, <2>1 DEF Working, Pending, Idle
  <2>2. CASE Answered(f)
    BY <1>2, <2>2 DEF Answered, Pending
  <2>3. CASE f \in unanswered \/ (SendMaySuspend /\ f \in ignored)
    BY <2>3 DEF Deliver, Pending
  <2> QED
    BY <1>4, <2>1, <2>2, <2>3 DEF Pending
<1>5. ASSUME S # {}, SendMaySuspend \/ inLive = {}
      PROVE  Pending(start.fid)'
  <2>1. PICK d \in S : TRUE
    BY <1>5
  <2>4. CASE d \in inLive
    BY <1>5, <2>1, <2>4 DEF Deliver, Pending
  <2>2. CASE d \notin inLive /\ fetch[d] = Idle
    BY <1>5, <2>2 DEF Deliver, Accepts, Working, Pending
  <2>3. CASE d \notin inLive /\ fetch[d] # Idle
    <3> DEFINE e == [fid |-> start.fid, what |-> "busy"]
    <3>1. reports'[d] = Append(reports[d], e)
      BY <1>5, <2>3 DEF Deliver, Accepts
    <3>2. e \in Event
      BY DEF Event, Outcome
    <3>3. Len(reports[d]) + 1 \in DOMAIN reports'[d]
          /\ reports'[d][Len(reports[d]) + 1] = e
      <4> HIDE DEF e
      <4>1. reports[d] \in Seq(Event)
        BY <1>1
      <4>2. Append(reports[d], e) \in Seq(Event)
        BY <4>1, <3>2, EventSequences
      <4>3. Len(reports[d]) + 1 \in DOMAIN Append(reports[d], e)
        BY <4>1, <4>2, <3>2, EventSequences
      <4> QED
        BY <3>1, <3>2, <4>1, <4>3, EventSequences
    <3> QED
      BY <3>3 DEF Answered, Pending
  <2> QED
    BY <2>2, <2>3, <2>4
<1> QED
  BY <1>4, <1>5

LEMMA AnswerInit == Init => AnswerInv /\ BeliefInv
BY DEF Init, SessionInit, AnswerInv, FileAnswerable, BeliefInv

\* A step that leaves the FILE in progress and its answers.
LEMMA AnswerKept ==
  ASSUME AnswerInv,
         state' = "FILE" => /\ state = "FILE" /\ file_id' = file_id
                            /\ Pending(file_id) => Pending(file_id)'
  PROVE  AnswerInv'
<1> SUFFICES ASSUME state' = "FILE"
             PROVE  Pending(file_id)' /\ file_id' \in Nat \ {0}
  BY DEF AnswerInv, FileAnswerable, Pending
<1>1. state = "FILE" /\ file_id' = file_id /\ file_id \in Nat \ {0}
  BY DEF AnswerInv
<1>2. Pending(file_id)
  BY <1>1 DEF AnswerInv, FileAnswerable, Pending
<1>3. Pending(file_id)' <=> (\/ \E d \in Device : fetch'[d].fid = file_id'
                             \/ Answered(file_id)' \/ file_id' \in unanswered'
                             \/ (SendMaySuspend /\ file_id' \in ignored'))
  BY DEF Pending, Working
<1> QED
  BY <1>1, <1>2

LEMMA StartAnswer ==
  ASSUME FileTypes, AnswerInv, BeliefInv, NEW r \in Request, StartFile(r)
  PROVE  AnswerInv'
<1>1. PICK f \in Name, how \in How :
        /\ index[f] # None
        /\ Sends([fid |-> file_id + 1, name |-> f, sha |-> index[f]], FALSE, how)
        /\ IF RolledBack(how) THEN start_then_stop_file ELSE start_file
  BY StartEffect DEF FileTypes
<1> DEFINE s == [fid |-> file_id + 1, name |-> f, sha |-> index[f]]
<1>2. s \in FileStart /\ s.fid = file_id + 1 /\ s.fid \in 1..MaxFiles
  BY <1>1, FileAssumption
     DEF FileTypes, FileTypeOK, SessionTypeOK, StoreTypeOK, FileStart, StartFile
<1>3. PICK start \in FileStart : start = s
  BY <1>2
<1>4. start.fid = file_id + 1 /\ start.fid \in 1..MaxFiles
  BY <1>2, <1>3
<1>5. Sends(start, FALSE, how)
  BY <1>1, <1>3
<1> HIDE DEF s
<1>6. PICK S \in SUBSET Device : Deliver(S, start) /\ (RolledBack(how) \/ S # {})
  BY <1>5 DEF Sends
<1>7. CASE RolledBack(how)
  <2>1. state' # "FILE"
    BY <1>1, <1>7 DEF start_then_stop_file
  <2> QED
    BY <2>1 DEF AnswerInv, FileAnswerable
<1>8. CASE ~RolledBack(how)
  <2>1. file_id' = start.fid /\ start.fid \in Nat \ {0}
    BY <1>1, <1>4, <1>8, FileAssumption DEF start_file
  <2>2. (SendMaySuspend \/ inLive = {}) /\ UNCHANGED unanswered
    BY DEF StartFile, can_start_file, BeliefInv
  <2>3. Pending(start.fid)'
    BY <1>4, <1>6, <1>8, <2>2, DeliverPends
  <2>4. Pending(file_id)'
    BY <2>1, <2>3 DEF Pending, Working, Answered
  <2> QED
    BY <2>1, <2>4 DEF AnswerInv, FileAnswerable, Pending
<1> QED
  BY <1>7, <1>8

LEMMA ResumeAnswer ==
  ASSUME FileTypes, AnswerInv, NEW r \in Request, ResumeFile(r)
  PROVE  AnswerInv'
<1>1. /\ req[r].start \in FileStart /\ req[r].start.fid \in 1..MaxFiles
      /\ stop_file \/ UNCHANGED session
      /\ UNCHANGED unanswered
  BY ResumeEffect DEF FileTypes, ReqNumbered, ResumeFile
<1>2. PICK how : Sends(req[r].start, TRUE, how)
  BY ResumeEffect DEF FileTypes
<1>3. PICK start \in FileStart : start = req[r].start
  BY <1>1
<1>4. PICK S \in SUBSET Device : Deliver(S, start)
  BY <1>2, <1>3 DEF Sends
<1>5. \A f \in Nat \ {0} : Pending(f) => Pending(f)'
  BY <1>1, <1>3, <1>4, DeliverPends
<1>6. state' = "FILE" => state = "FILE" /\ file_id' = file_id
  BY <1>1 DEF stop_file, session
<1>7. ASSUME state' = "FILE", Pending(file_id)
      PROVE  Pending(file_id)'
  <2>1. PICK f \in Nat \ {0} : f = file_id /\ f = file_id'
    BY <1>6, <1>7 DEF AnswerInv
  <2> QED
    BY <1>5, <1>7, <2>1 DEF Pending, Working, Answered
<1> QED
  BY <1>6, <1>7, AnswerKept

\* A report that does not end the FILE is not among its answers.
LEMMA HandleAnswer ==
  ASSUME FileTypes, AnswerInv, NEW d \in Device, HandleReport(d)
  PROVE  AnswerInv'
<1>1. /\ reports[d] \in Seq(Event) /\ reports[d] # <<>>
      /\ reports' = [reports EXCEPT ![d] = Tail(@)]
      /\ UNCHANGED <<fetch, unanswered, ignored>>
  BY DEF HandleReport, FileTypes, FileTypeOK, Event
<1>2. CASE EndsFile(Head(reports[d]).what)
  <2>1. state' # "FILE"
    BY <1>2 DEF HandleReport, stop_file
  <2> QED
    BY <2>1 DEF AnswerInv, FileAnswerable
<1>3. CASE ~EndsFile(Head(reports[d]).what)
  <2>1. UNCHANGED session /\ reports[d][1].what = "preempted"
    BY <1>1, <1>3 DEF HandleReport, EndsFile
  <2>2. \A i \in DOMAIN reports[d] :
          i # 1 => i - 1 \in DOMAIN Tail(reports[d]) /\ Tail(reports[d])[i - 1] = reports[d][i]
    BY <1>1
  <2>3. Answered(file_id) => Answered(file_id)'
    <3> SUFFICES ASSUME Answered(file_id)
                 PROVE  Answered(file_id)'
      OBVIOUS
    <3>1. PICK e \in Device : \E i \in DOMAIN reports[e] :
            reports[e][i].fid = file_id /\ reports[e][i].what # "preempted"
      BY DEF Answered
    <3>4. PICK i \in DOMAIN reports[e] :
            reports[e][i].fid = file_id /\ reports[e][i].what # "preempted"
      BY <3>1
    <3>2. CASE e = d
      <4>1. i - 1 \in DOMAIN reports'[d] /\ reports'[d][i - 1] = reports[d][i]
        BY <1>1, <2>1, <2>2, <3>4, <3>2 DEF FileTypes, FileTypeOK
      <4> QED
        BY <2>1, <3>4, <3>2, <4>1 DEF Answered, session
    <3>3. CASE e # d
      <4>1. reports'[e] = reports[e]
        BY <1>1, <3>3
      <4> QED
        BY <2>1, <3>4, <4>1 DEF Answered, session
    <3> QED
      BY <3>2, <3>3
  <2>4. Pending(file_id) => Pending(file_id)'
    BY <1>1, <2>1, <2>3 DEF Pending, Working, session
  <2> QED
    BY <2>1, <2>4, AnswerKept DEF session
<1> QED
  BY <1>2, <1>3

LEMMA ReportAnswer ==
  ASSUME FileTypes, AnswerInv, NEW d \in Device, NEW what \in {"end", "abort"},
         Report(d, what)
  PROVE  AnswerInv'
<1> DEFINE e == [fid |-> fetch[d].fid, what |-> what]
<1>1. /\ fetch[d].fid \in 1..MaxFiles
      /\ fetch' = [fetch EXCEPT ![d] = Idle]
      /\ reports' = [reports EXCEPT ![d] = Append(@, e)]
      /\ UNCHANGED <<session, unanswered, ignored>>
  BY DEF Report, FileTypes, FetchNumbered
<1>2. e \in Event /\ e.fid = fetch[d].fid /\ e.what # "preempted"
  BY <1>1 DEF Event, Outcome
<1> HIDE DEF e
<1>3. /\ reports \in [Device -> Seq(Event)] /\ fetch \in [Device -> FileStart]
      /\ reports[d] \in Seq(Event)
  BY DEF FileTypes, FileTypeOK, Event
<1>4. /\ \A i \in DOMAIN reports[d] : i \in DOMAIN reports'[d] /\ reports'[d][i] = reports[d][i]
      /\ \E i \in DOMAIN reports'[d] : reports'[d][i] = e
  <2>1. reports'[d] = Append(reports[d], e) /\ reports'[d] \in Seq(Event)
    BY <1>1, <1>2, <1>3, EventSequences
  <2>2. Len(reports[d]) + 1 \in DOMAIN reports'[d]
    BY <1>2, <1>3, <2>1, EventSequences
  <2>3. reports'[d][Len(reports[d]) + 1] = e
    BY <1>2, <1>3, <2>1, EventSequences
  <2>4. \A i \in DOMAIN reports[d] : i \in DOMAIN reports'[d] /\ reports'[d][i] = reports[d][i]
    BY <1>2, <1>3, <2>1, EventSequences
  <2> QED
    BY <2>2, <2>3, <2>4
<1>5. \A c \in Device \ {d} : fetch'[c] = fetch[c] /\ reports'[c] = reports[c]
  BY <1>1, <1>3
<1>6. ASSUME Pending(file_id)
      PROVE  Pending(file_id)'
  <2>1. CASE Working(file_id)
    <3>1. PICK c \in Device : fetch[c].fid = file_id
      BY <2>1 DEF Working
    <3>2. CASE c = d
      BY <1>1, <1>2, <1>4, <3>1, <3>2 DEF Pending, Answered, session
    <3>3. CASE c # d
      BY <1>1, <1>5, <3>1, <3>3 DEF Pending, Working, session
    <3> QED
      BY <3>2, <3>3
  <2>2. CASE Answered(file_id)
    <3>1. PICK c \in Device : \E i \in DOMAIN reports[c] :
            reports[c][i].fid = file_id /\ reports[c][i].what # "preempted"
      BY <2>2 DEF Answered
    <3>4. PICK i \in DOMAIN reports[c] :
            reports[c][i].fid = file_id /\ reports[c][i].what # "preempted"
      BY <3>1
    <3>2. i \in DOMAIN reports'[c] /\ reports'[c][i] = reports[c][i]
      BY <1>4, <1>5, <3>1
    <3> QED
      BY <1>1, <3>4, <3>2 DEF Pending, Answered, session
  <2> QED
    BY <1>1, <1>6, <2>1, <2>2 DEF Pending, session
<1> QED
  BY <1>1, <1>6, AnswerKept DEF session

LEMMA CleanupAnswer ==
  ASSUME FileTypes, AnswerInv, NEW d \in Device, Cleanup(d)
  PROVE  AnswerInv'
<1>1. /\ fetch' = fetch \/ fetch' = [fetch EXCEPT ![d] = Idle]
      /\ reports' = [reports EXCEPT ![d] = <<>>]
      /\ LET files == {reports[d][i].fid : i \in DOMAIN reports[d]}
                         \cup (IF fetch' # fetch THEN {fetch[d].fid} ELSE {})
         IN unanswered' = unanswered \cup (files \cap 1..file_id)
      /\ UNCHANGED <<session, ignored>>
  BY DEF Cleanup
<1>2. reports \in [Device -> Seq(Event)] /\ fetch \in [Device -> FileStart]
  BY DEF FileTypes, FileTypeOK, Event
<1>3. ASSUME state = "FILE", Pending(file_id)
      PROVE  Pending(file_id)'
  <2>4. file_id \in 1..file_id
    BY <1>3 DEF AnswerInv
  <2>1. CASE Working(file_id)
    <3>1. PICK c \in Device : fetch[c].fid = file_id
      BY <2>1 DEF Working
    <3>2. fetch'[c] = fetch[c] \/ file_id \in unanswered'
      BY <1>1, <1>2, <2>4, <3>1
    <3> QED
      BY <1>1, <3>1, <3>2 DEF Pending, Working, session
  <2>2. CASE Answered(file_id)
    <3>1. PICK c \in Device : \E i \in DOMAIN reports[c] :
            reports[c][i].fid = file_id /\ reports[c][i].what # "preempted"
      BY <2>2 DEF Answered
    <3>2. PICK i \in DOMAIN reports[c] :
            reports[c][i].fid = file_id /\ reports[c][i].what # "preempted"
      BY <3>1
    <3>3. reports'[c] = reports[c] \/ file_id \in unanswered'
      BY <1>1, <1>2, <2>4, <3>2
    <3> QED
      BY <1>1, <3>2, <3>3 DEF Pending, Answered, session
  <2>3. CASE file_id \in unanswered \/ (SendMaySuspend /\ file_id \in ignored)
    BY <1>1, <2>3 DEF Pending, session
  <2> QED
    BY <1>3, <2>1, <2>2, <2>3 DEF Pending
<1> QED
  BY <1>1, <1>3, AnswerKept DEF session

\* A device gives up the FILE in progress for a LIVE only where sends suspend.
LEMMA JoinAnswer ==
  ASSUME FileTypes, AnswerInv, NEW d \in Device, JoinLive(d)
  PROVE  AnswerInv'
<1>1. UNCHANGED <<session, unanswered>>
  BY DEF JoinLive
<1>2. ASSUME state = "FILE", Pending(file_id)
      PROVE  Pending(file_id)'
  <2>1. SendMaySuspend /\ file_id \in 1..file_id
    BY <1>2 DEF JoinLive, AnswerInv
  <2>2. ignored \subseteq ignored'
    BY DEF JoinLive
  <2>3. CASE Working(file_id)
    <3>1. PICK c \in Device : fetch[c].fid = file_id
      BY <2>3 DEF Working
    <3>2. fetch'[c] = fetch[c] \/ file_id \in ignored'
      BY <2>1, <3>1 DEF JoinLive, FileTypes, FileTypeOK
    <3> QED
      BY <1>1, <2>1, <3>1, <3>2 DEF Pending, Working, session
  <2>4. CASE Answered(file_id)
    <3>1. PICK c \in Device : \E i \in DOMAIN reports[c] :
            reports[c][i].fid = file_id /\ reports[c][i].what # "preempted"
      BY <2>4 DEF Answered
    <3>2. PICK i \in DOMAIN reports[c] :
            reports[c][i].fid = file_id /\ reports[c][i].what # "preempted"
      BY <3>1
    <3>3. i \in DOMAIN reports'[c] /\ reports'[c][i] = reports[c][i]
      <4>1. CASE reports'[c] = reports[c]
        BY <4>1
      <4>2. CASE reports'[c] # reports[c]
        <5> DEFINE e == [fid |-> fetch[d].fid, what |-> "preempted"]
        <5>1. /\ c = d /\ fetch[d] # Idle /\ reports \in [Device -> Seq(Event)]
              /\ reports'[d] = Append(reports[d], e)
          BY <4>2 DEF JoinLive, FileTypes, FileTypeOK, Event
        <5>2. e \in Event
          BY <5>1 DEF FileTypes, FetchNumbered, Event, Outcome
        <5> HIDE DEF e
        <5> QED
          BY <5>1, <5>2, EventSequences
      <4> QED
        BY <4>1, <4>2
    <3> QED
      BY <1>1, <3>2, <3>3 DEF Pending, Answered, session
  <2>5. CASE file_id \in unanswered \/ (SendMaySuspend /\ file_id \in ignored)
    BY <1>1, <2>2, <2>5 DEF Pending, session
  <2> QED
    BY <1>2, <2>3, <2>4, <2>5 DEF Pending
<1> QED
  BY <1>1, <1>2, AnswerKept DEF session

LEMMA AnswerStep ==
  ASSUME FileTypes, AnswerInv, BeliefInv, [Next]_vars
  PROVE  AnswerInv'
<1>1. ASSUME NEW d \in Device, DeviceStep(d)
      PROVE  AnswerInv'
  <2>1. CASE FetchEnds(d) \/ FetchFails(d)
    BY <2>1, ReportAnswer DEF FetchEnds, FetchFails
  <2>2. CASE Connect(d) \/ Lose(d) \/ LeaveLive(d)
    <3>1. UNCHANGED <<session, fetch, reports, unanswered, ignored>>
      BY <2>2 DEF Connect, Lose, LeaveLive
    <3> QED
      BY <3>1 DEF AnswerInv, FileAnswerable, Working, Answered, session
  <2> QED
    BY <1>1, <2>1, <2>2, HandleAnswer, CleanupAnswer, JoinAnswer DEF DeviceStep
<1>2. ASSUME LiveStarts \/ LiveEnds \/ Restart
      PROVE  AnswerInv'
  <2>1. state' # "FILE"
    BY <1>2 DEF LiveStarts, LiveEnds, Restart, start_live, stop_live
  <2> QED
    BY <2>1 DEF AnswerInv, FileAnswerable
<1>3. CASE Expire
  BY <1>3
     DEF Expire, FileExpires, AnswerInv, FileAnswerable, Working, Answered, fileVars
<1>4. CASE UNCHANGED <<session, fileVars>>
  BY <1>4 DEF AnswerInv, FileAnswerable, Working, Answered, fileVars, session
<1>5. UNCHANGED vars => UNCHANGED <<session, fileVars>>
  BY DEF vars
<1> QED
  BY <1>1, <1>2, <1>3, <1>4, <1>5, StartAnswer, ResumeAnswer DEF Next

\* A FILE in progress is always one that some device still has to answer, unless an
\* answer to it was lost with its connection; or, but only where sends suspend, a
\* device took it to meet a LIVE and the server ignored its PREEMPTED_BY_LIVE.
THEOREM FileAnswered == Spec => []FileAnswerable
<1>1. FileTypes /\ AnswerInv /\ BeliefInv /\ [Next]_vars
        => (FileTypes /\ AnswerInv /\ BeliefInv)'
  BY FileTypesStep, AnswerStep, BeliefStep
<1>2. Init => FileTypes /\ AnswerInv /\ BeliefInv
  BY FileTypesInit, AnswerInit
<1>3. AnswerInv => FileAnswerable
  BY DEF AnswerInv
<1> QED
  BY <1>1, <1>2, <1>3, PTL DEF Spec

-----------------------------------------------------------------------------
(* A FILE does not end a LIVE *)

LEMMA LiveSurvivesStep ==
  ASSUME FileTypes, [Next]_vars, state = "LIVE",
         req' # req \/ reports' # reports, restarts' = restarts
  PROVE  state' = "LIVE"
<1>1. ASSUME NEW r \in Request, StartFile(r) \/ ResumeFile(r)
      PROVE  state' = "LIVE"
  <2>1. ~StartFile(r)
    BY DEF StartFile, can_start_file
  <2>2. stop_file \/ UNCHANGED session
    BY <1>1, <2>1, ResumeEffect DEF FileTypes
  <2> QED
    BY <2>2 DEF stop_file, session
<1>2. ASSUME NEW d \in Device, DeviceStep(d)
      PROVE  state' = "LIVE"
  <2>1. stop_file \/ UNCHANGED session
    BY <1>2 DEF DeviceStep, HandleReport, FetchEnds, FetchFails, Report, Connect, Lose,
                Cleanup, JoinLive, LeaveLive
  <2> QED
    BY <2>1 DEF stop_file, session
<1>3. CASE LiveStarts
  BY <1>3 DEF LiveStarts, start_live
<1>4. ~Restart
  BY DEF Restart, RestartStore, FileTypes, FileTypeOK, StoreTypeOK
<1>5. ~UNCHANGED fileVars /\ ~LiveEnds
  BY DEF fileVars, LiveEnds
<1> QED
  BY <1>1, <1>2, <1>3, <1>4, <1>5 DEF Next, Expire, vars

\* Neither the late answer to a FILE that a LIVE preempted nor the roll-back of
\* its broadcast ends the LIVE.
THEOREM LiveSurvives == Spec => LiveSurvivesFile
<1>1. FileTypes /\ [Next]_vars
        => [state = "LIVE" /\ (req' # req \/ reports' # reports) /\ restarts' = restarts
              => state' = "LIVE"]_vars
  BY LiveSurvivesStep
<1>2. FileTypes /\ [Next]_vars => FileTypes'
  BY FileTypesStep
<1> QED
  BY <1>1, <1>2, FileTypesInit, PTL DEF Spec, LiveSurvivesFile

-----------------------------------------------------------------------------
(* Devices play complete uploads *)

\* The digests of the complete uploads.
Complete == {Received(u) : u \in {v \in Upload : job[v].at = "over"}}

\* Until a restart, every digest that is offered, announced or played is one of
\* these.
WholeInv ==
  restarts = 0 =>
    /\ \A f \in Name : index[f] # None => index[f] \in Complete
    /\ \A r \in Request : req[r].at # "idle" => req[r].start.sha \in Complete
    /\ \A d \in Device : fetch[d] # Idle => fetch[d].sha \in Complete
    /\ \A d \in Device : played[d] # None => played[d] \in Complete

\* A complete upload stays what it is.
LEMMA CompleteGrows ==
  ASSUME FileTypes, [Next]_vars
  PROVE  Complete \subseteq Complete'
<1>1. [StoreNext]_store
  BY NextRefinesStore
<1>2. ASSUME NEW u \in Upload, job[u].at = "over"
      PROVE  job'[u].at = "over" /\ Received(u)' = Received(u)
  <2>1. job'[u] = job[u]
    BY <1>1, <1>2
       DEF StoreNext, StoreStep, Begin, OpenFails, Chunk, Fail, Finish, Delete,
           RestartStore, Second, store, FileTypes, FileTypeOK, StoreTypeOK
  <2> QED
    BY <1>2, <2>1 DEF Received
<1> QED
  BY <1>2 DEF Complete

\* Either a step restarts the server, or what it offers, announces and plays was
\* offered, announced or played before, or was just uploaded.
WholeKeeps ==
  /\ restarts' = restarts
  /\ \A f \in Name : index'[f] \in {None, index[f]} \/ index'[f] \in Complete'
  /\ \A r \in Request : \/ req'[r].at = "idle"
                        \/ req[r].at # "idle" /\ req'[r].start = req[r].start
                        \/ req'[r].start.sha \in Complete
  /\ \A d \in Device : fetch'[d] \in {Idle, fetch[d]} \/ fetch'[d].sha \in Complete
  /\ \A d \in Device : played'[d] \in {None, played[d]} \/ played'[d] \in Complete

LEMMA WholeKept ==
  ASSUME FileTypes, WholeInv, [Next]_vars, restarts = 0 => WholeKeeps
  PROVE  WholeInv'
<1>1. CASE restarts = 0
  BY <1>1, CompleteGrows DEF WholeInv, WholeKeeps
<1>2. CASE restarts # 0
  <2>1. restarts' = restarts \/ restarts' = restarts + 1
    <3>1. [StoreNext]_store
      BY NextRefinesStore
    <3> QED
      BY <3>1
         DEF StoreNext, StoreStep, Begin, OpenFails, Chunk, Fail, Finish, Delete,
             RestartStore, Second, store
  <2>2. restarts \in Nat
    BY DEF FileTypes, FileTypeOK, StoreTypeOK
  <2> QED
    BY <1>2, <2>1, <2>2 DEF WholeInv
<1> QED
  BY <1>1, <1>2

LEMMA SendsWhole ==
  ASSUME NEW start, NEW reached, NEW how, Sends(start, reached, how),
         start.sha \in Complete, UNCHANGED <<store, played>>
  PROVE  WholeKeeps
BY DEF Sends, Deliver, WholeKeeps, store

LEMMA WholeStep ==
  ASSUME FileTypes, WholeInv, [Next]_vars
  PROVE  WholeInv'
<1> SUFFICES ASSUME restarts = 0
             PROVE  WholeKeeps \/ WholeInv'
  BY WholeKept
<1> USE DEF FileTypes
<1>1. CASE StoreStep /\ UNCHANGED <<session, fileVars>>
  <2>1. UNCHANGED <<req, fetch, played>> /\ restarts' = restarts
    BY <1>1 DEF fileVars, StoreStep, Begin, OpenFails, Chunk, Fail, Finish, Delete, Second
  <2>2. ASSUME NEW u \in Upload, Finish(u), NEW f \in Name
        PROVE  index'[f] = index[f] \/ index'[f] \in Complete'
    <3>1. job'[u].at = "over" /\ Received(u)' = Received(u)
      BY <2>2 DEF Finish, FileTypeOK, StoreTypeOK, Received
    <3>2. Received(u) \in Complete'
      BY <3>1 DEF Complete
    <3> QED
      BY <2>2, <3>2 DEF Finish, FileTypeOK, StoreTypeOK, Digest
  <2>3. ASSUME NEW f \in Name
        PROVE  index'[f] \in {None, index[f]} \/ index'[f] \in Complete'
    BY <1>1, <2>2
       DEF StoreStep, Begin, OpenFails, Chunk, Fail, Delete, Second, FileTypeOK,
           StoreTypeOK
  <2> QED
    BY <2>1, <2>3 DEF WholeKeeps
<1>2. ASSUME NEW r \in Request, StartFile(r)
      PROVE  WholeKeeps
  <2>1. PICK f \in Name, how \in How :
          /\ index[f] # None
          /\ Sends([fid |-> file_id + 1, name |-> f, sha |-> index[f]], FALSE, how)
    BY <1>2, StartEffect
  <2>2. index[f] \in Complete
    BY <2>1 DEF WholeInv
  <2>3. UNCHANGED <<store, played>>
    BY <1>2 DEF StartFile
  <2> QED
    BY <2>1, <2>2, <2>3, SendsWhole
<1>3. ASSUME NEW r \in Request, ResumeFile(r)
      PROVE  WholeKeeps
  <2>1. PICK how : Sends(req[r].start, TRUE, how)
    BY <1>3, ResumeEffect
  <2>2. req[r].start.sha \in Complete
    BY <1>3, ResumeEffect DEF WholeInv
  <2>3. UNCHANGED <<store, played>>
    BY <1>3 DEF ResumeFile
  <2> QED
    BY <2>1, <2>2, <2>3, SendsWhole
<1>4. ASSUME NEW d \in Device, DeviceStep(d)
      PROVE  WholeKeeps
  <2>1. UNCHANGED store /\ \A r \in Request : req'[r].at = req[r].at
                                               /\ req'[r].start = req[r].start
    <3>1. CASE Cleanup(d)
      <4>1. \A r \in Request : req'[r] = req[r] \/ req'[r] = [req[r] EXCEPT !.todo = @ \ {d}]
        BY <3>1 DEF Cleanup
      <4>2. \A r \in Request : /\ [req[r] EXCEPT !.todo = @ \ {d}].at = req[r].at
                               /\ [req[r] EXCEPT !.todo = @ \ {d}].start = req[r].start
        BY DEF FileTypeOK
      <4> QED
        BY <3>1, <4>1, <4>2 DEF Cleanup
    <3> QED
      BY <1>4, <3>1
         DEF DeviceStep, HandleReport, FetchEnds, FetchFails, Report, Connect, Lose,
             JoinLive, LeaveLive
  <2>2. \A e \in Device : fetch'[e] \in {Idle, fetch[e]}
    <3>1. fetch' = fetch \/ fetch' = [fetch EXCEPT ![d] = Idle]
      BY <1>4 DEF DeviceStep, HandleReport, FetchEnds, FetchFails, Report, Connect, Lose,
                  Cleanup, JoinLive, LeaveLive
    <3> QED
      BY <3>1 DEF FileTypeOK
  <2>3. \A e \in Device : played'[e] = played[e] \/ played'[e] \in Complete
    <3>1. CASE FetchEnds(d)
      <4>1. fetch[d].sha \in Complete
        BY <3>1 DEF FetchEnds, WholeInv
      <4> QED
        BY <3>1, <4>1 DEF FetchEnds, FileTypeOK
    <3> QED
      BY <1>4, <3>1 DEF DeviceStep, HandleReport, FetchFails, Connect, Lose, Cleanup,
                        JoinLive, LeaveLive
  <2> QED
    BY <2>1, <2>2, <2>3 DEF WholeKeeps, store
<1>5. CASE LiveEnds
  BY <1>5 DEF LiveEnds, WholeKeeps, store
<1>6. CASE LiveStarts \/ Expire \/ UNCHANGED vars
  BY <1>6 DEF LiveStarts, Expire, fileVars, vars, WholeKeeps, store
<1>7. CASE Restart
  <2>1. restarts' = 1
    BY <1>7 DEF Restart, RestartStore
  <2> QED
    BY <2>1 DEF WholeInv
<1> QED
  BY <1>1, <1>2, <1>3, <1>4, <1>5, <1>6, <1>7 DEF Next

\* Whatever uploads, deletions and broadcasts do to the file while it is fetched,
\* a device plays what was uploaded, whole.
THEOREM DevicesPlayWhole == Spec => []PlayedWhole
<1>1. FileTypes /\ WholeInv /\ [Next]_vars => (FileTypes /\ WholeInv)'
  BY FileTypesStep, WholeStep
<1>2. Init => WholeInv
  BY DEF Init, StoreInit, WholeInv, NoRequest
<1>3. WholeInv => PlayedWhole
  BY DEF WholeInv, PlayedWhole, Complete
<1> QED
  BY <1>1, <1>2, <1>3, FileTypesInit, PTL DEF Spec
=============================================================================
