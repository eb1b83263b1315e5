----------------------------- MODULE LossyFeed -----------------------------
(***************************************************************************)
(* What a listener may rely on between the studio's microphone and his     *)
(* loudspeaker: frames may be lost anywhere on the way, but those that     *)
(* arrive come in the order they were captured, each once, none invented.  *)
(* Module Pacing implements it.                                            *)
(***************************************************************************)
EXTENDS Naturals

VARIABLES
  waiting,   \* frames on their way, numbered as they were captured
  newest,    \* the last frame put in
  heard      \* the last frame that was sent to the devices

feed == <<waiting, newest, heard>>

Init == newest \in Nat /\ waiting = 1..newest /\ heard = 0

\* A new frame enters; older ones may have to make room.
Put ==
  /\ newest' > newest
  /\ waiting' \subseteq waiting \cup {newest'}
  /\ UNCHANGED heard

Lose ==
  /\ waiting' \subseteq waiting
  /\ UNCHANGED <<newest, heard>>

\* The oldest frame still on its way is sent.
Send ==
  /\ heard' \in waiting
  /\ \A f \in waiting : heard' <= f
  /\ waiting' = waiting \ {heard'}
  /\ UNCHANGED newest

Next == Put \/ Lose \/ Send

Spec == Init /\ [][Next]_feed
=============================================================================
