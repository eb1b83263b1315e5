--------------------------- MODULE MCFileControl ---------------------------
(* FileControl for TLC.  Uploads are interchangeable.  The instance is     *)
(* bounded along two lines: several broadcasts of one upload, or one       *)
(* broadcast amid several uploads.  The clock matters to uploads only.      *)
EXTENDS FileControl, FiniteSets, TLC

Symmetry == Permutations(Upload)

Begun == {u \in Upload : job[u].at # "new"}

Bounded ==
  /\ Cardinality(Begun) > 1 => /\ Cardinality(Registered) <= 1
                              /\ session_id = 0
                              /\ file_id + restarts <= 1
  /\ restarts > 0 => file_id + session_id <= 1
  /\ file_id > 1 \/ session_id > 0 => /\ second = 1 + restarts
                                      /\ \A u \in Upload : job[u].n <= 1
  /\ refused # {} => file_id <= 1 /\ session_id = 0
  /\ ignored # {} => restarts = 0
=============================================================================
