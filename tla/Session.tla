------------------------------ MODULE Session ------------------------------
(***************************************************************************)
(* SessionManager (app/session.py): the IDLE / LIVE / FILE state machine   *)
(* that every handler of the server consults before it starts or stops a   *)
(* broadcast.  Each operation is one critical section of the class and is  *)
(* atomic; SessionSpec is the contract the handlers must keep: LIVE starts *)
(* from IDLE or FILE only, FILE starts from IDLE (or replaces a FILE that  *)
(* outlived FILE_STALE_SEC) and never from LIVE.                           *)
(*                                                                         *)
(* Left out: the command counter _cmd_id, which nothing ever reads back.   *)
(***************************************************************************)
EXTENDS Naturals

VARIABLES
  state,        \* _state
  session_id,   \* _session_id: number of LIVE sessions started so far
  file_id,      \* _file_id: number of FILE broadcasts started so far
  file_stale    \* the FILE started at _file_started_at is over FILE_STALE_SEC old

session == <<state, session_id, file_id, file_stale>>

State == {"IDLE", "LIVE", "FILE"}

SessionTypeOK ==
  /\ state \in State
  /\ session_id \in Nat
  /\ file_id \in Nat
  /\ file_stale \in BOOLEAN

SessionInit ==
  /\ state = "IDLE"
  /\ session_id = 0
  /\ file_id = 0
  /\ file_stale = FALSE

can_start_live == state \in {"IDLE", "FILE"}

start_live ==
  /\ state' = "LIVE"
  /\ session_id' = session_id + 1
  /\ UNCHANGED <<file_id, file_stale>>

stop_live_noop == UNCHANGED session     \* mutant

stop_live ==
  /\ state' = IF state = "LIVE" THEN "IDLE" ELSE state
  /\ UNCHANGED <<session_id, file_id, file_stale>>

\* A stale FILE is first reset to IDLE; the caller then starts at once, so
\* only the answer matters.
can_start_file == state = "IDLE" \/ (state = "FILE" /\ file_stale)

start_file ==
  /\ state' = "FILE"
  /\ file_id' = file_id + 1
  /\ file_stale' = FALSE
  /\ UNCHANGED session_id

stop_file_always ==     \* mutant: the state is not looked at
  /\ state' = "IDLE"
  /\ file_stale' = FALSE
  /\ UNCHANGED <<session_id, file_id>>

stop_file ==
  /\ state' = IF state = "FILE" THEN "IDLE" ELSE state
  /\ file_stale' = IF state = "FILE" THEN FALSE ELSE file_stale
  /\ UNCHANGED <<session_id, file_id>>

\* Wall-clock time passes the expiry of the FILE in progress.
FileExpires ==
  /\ state = "FILE"
  /\ file_stale' = TRUE
  /\ UNCHANGED <<state, session_id, file_id>>

SessionNext ==
  \/ can_start_live /\ start_live
  \/ stop_live
  \/ can_start_file /\ start_file
  \/ stop_file
  \/ FileExpires

SessionSpec == SessionInit /\ [][SessionNext]_session
=============================================================================
