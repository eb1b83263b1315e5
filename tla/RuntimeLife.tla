---------------------------- MODULE RuntimeLife ----------------------------
(***************************************************************************)
(* The life of one LiveRuntime (app/pacing.py), as the handlers and the    *)
(* engine have agreed on it: it is created once and started once; by       *)
(* itself it ends only after its source has ended, else by stop(), which   *)
(* returns when it is over; nothing revives it.  Module Pacing, the engine *)
(* from inside, and module LiveControl, the handlers around it, both       *)
(* implement it.                                                           *)
(***************************************************************************)

VARIABLES
  life,    \* "none" before it is created, "ready" before start()
  ended    \* its source has ended, or will end by itself

runtime == <<life, ended>>

Init == life \in {"none", "ready"} /\ ended \in BOOLEAN

Create == life = "none" /\ life' = "ready" /\ ended' \in BOOLEAN

Start == life = "ready" /\ life' = "running" /\ UNCHANGED ended

SourceEnds == life # "none" /\ ended' = TRUE /\ UNCHANGED life

\* The source has been paced out.
Drain == life = "running" /\ ended /\ life' = "over" /\ UNCHANGED ended

\* stop() is called; the one who calls it may have closed the source just before.
Stop == life = "running" /\ life' = "stopping" /\ ended' \in {ended, TRUE}

\* stop() returns.
Stopped == life = "stopping" /\ life' = "over" /\ UNCHANGED ended

Next == Create \/ Start \/ SourceEnds \/ Drain \/ Stop \/ Stopped

Spec == Init /\ [][Next]_runtime
=============================================================================
