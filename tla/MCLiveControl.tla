--------------------------- MODULE MCLiveControl ---------------------------
(***************************************************************************)
(* LiveControl on small sets, for TLC.                                     *)
(***************************************************************************)
EXTENDS LiveControl, TLC

Symmetry ==
  Permutations(Request) \cup Permutations(Caster) \cup Permutations(Device)

\* Two sessions with one FILE, or two FILEs (of which the second replaces a stale
\* one) with one session.
Bounded == session_id + file_id <= 3
=============================================================================
