------------------------------ MODULE FileStore ------------------------------
(***************************************************************************)
(* The uploaded files: FileManager (app/file_manager.py) and the upload    *)
(* and delete handlers of http_api.py.  An upload is written to disk chunk *)
(* by chunk under a name that is the second in which it began, and offered *)
(* in the index once it is complete.  nginx serves whatever is on disk.    *)
(* The index lives in memory; a restart rebuilds it from the directory.    *)
(*                                                                         *)
(* A chunk is represented by the upload it came from, a file by its chunks *)
(* and its SHA-256 by those chunks again.  Names are directory entries:    *)
(* two uploads of one second share a name and then a file.                 *)
(*                                                                         *)
(* The file system may refuse to open, to remove or to read a file; the    *)
(* history variable refused remembers where that left a file behind.       *)
(*                                                                         *)
(* Left out: original names, the check of the extension (it precedes all   *)
(* state) and a clock that is set back.                                    *)
(***************************************************************************)
EXTENDS Naturals, Sequences

CONSTANTS
  Upload,       \* POST /upload requests
  None,
  MaxChunks,    \* FILE_MAX_BYTES, in chunks
  MaxSecond,    \* bound on the clock
  MaxRestarts   \* bound on restarts

Name == 1..MaxSecond
File == UNION {[1..n -> Upload \cup {None}] : n \in 0..MaxChunks}

ASSUME StoreAssumption ==
  /\ None \notin Upload \cup Name \cup File
  /\ MaxChunks \in Nat
  /\ MaxSecond \in Nat \ {0}
  /\ MaxRestarts \in Nat

VARIABLES
  second,    \* int(time.time())
  job,       \* per upload: save_stream, its file's name, the file it has open
             \* (by the upload that created it) and the chunks it has written
  link,      \* the upload directory: name to file
  data,      \* the files, by the upload that created them
  index,     \* _index: name to the sha256 announced for it
  refused,   \* names whose file could not be removed, or not be read by a scan
  restarts   \* how often the server was restarted

store == <<second, job, link, data, index, refused, restarts>>

StoreTypeOK ==
  /\ second \in Name
  /\ job \in [Upload -> [at : {"new", "writing", "over"}, name : Name \cup {None},
                         file : Upload \cup {None}, n : 0..MaxChunks]]
  /\ \A u \in Upload : job[u].at = "writing" => job[u].name \in Name
  /\ link \in [Name -> Upload \cup {None}]
  /\ data \in [Upload -> File]
  /\ index \in [Name -> File \cup {None}]
  /\ refused \subseteq Name
  /\ restarts \in 0..MaxRestarts

StoreInit ==
  /\ second = 1
  /\ job = [u \in Upload |-> [at |-> "new", name |-> None, file |-> None, n |-> 0]]
  /\ link = [f \in Name |-> None]
  /\ data = [u \in Upload |-> <<>>]
  /\ index = [f \in Name |-> None]
  /\ refused = {}
  /\ restarts = 0

-----------------------------------------------------------------------------
(* save_stream *)

\* os.remove of the file, if there is one: an OSError leaves it on disk.
Remove(f) ==
  \/ /\ link' = [link EXCEPT ![f] = None]
     /\ refused' = refused \ {f}
  \/ /\ link[f] # None
     /\ link' = link
     /\ refused' = refused \cup {f}

\* open(path, "wb"): a file that exists is truncated, for whoever has it open.
Begin(u) ==
  LET file == IF link[second] = None THEN u ELSE link[second]
  IN /\ job[u].at = "new"
     /\ job' = [job EXCEPT ![u] = [at |-> "writing", name |-> second, file |-> file, n |-> 0]]
     /\ link' = [link EXCEPT ![second] = file]
     /\ data' = [data EXCEPT ![file] = <<>>]
     /\ UNCHANGED <<second, index, refused, restarts>>

\* open() raises: whatever has the name is removed, though not by this upload.
OpenFails(u) ==
  /\ job[u].at = "new"
  /\ job' = [job EXCEPT ![u].at = "over", ![u].name = second]
  /\ Remove(second)
  /\ UNCHANGED <<second, data, index, restarts>>

\* A chunk of u at place k of file; what lies between its end and k is a hole.
Written(file, k, u) ==
  [i \in 1..(IF k > Len(file) THEN k ELSE Len(file)) |->
     IF i = k THEN u ELSE IF i <= Len(file) THEN file[i] ELSE None]

ChunkOver(u) ==     \* mutant: one chunk too many
  /\ job[u].at = "writing"
  /\ job[u].n <= MaxChunks
  /\ job' = [job EXCEPT ![u].n = @ + 1]
  /\ data' = [data EXCEPT ![job[u].file] = Written(@, job[u].n + 1, u)]
  /\ UNCHANGED <<second, link, index, refused, restarts>>

Chunk(u) ==
  /\ job[u].at = "writing"
  /\ job[u].n < MaxChunks
  /\ job' = [job EXCEPT ![u].n = @ + 1]
  /\ data' = [data EXCEPT ![job[u].file] = Written(@, job[u].n + 1, u)]
  /\ UNCHANGED <<second, link, index, refused, restarts>>

\* The client is gone, sends more than FILE_MAX_BYTES, or a write raises: whatever
\* has the upload's name is removed.
Fail(u) ==
  /\ job[u].at = "writing"
  /\ job' = [job EXCEPT ![u].at = "over"]
  /\ Remove(job[u].name)
  /\ UNCHANGED <<second, data, index, restarts>>

\* The digest is that of the chunks received, not of the file.
Received(u) == [i \in 1..job[u].n |-> u]
DigestOfFile(u) == data[job[u].file]     \* mutant: the file is read back
Digest(u) == Received(u)

FinishUnnamed(u) ==     \* mutant: entered under the second in which it ends
  /\ job[u].at = "writing"
  /\ job' = [job EXCEPT ![u].at = "over"]
  /\ index' = [index EXCEPT ![second] = Digest(u)]
  /\ UNCHANGED <<second, link, data, refused, restarts>>

Finish(u) ==
  /\ job[u].at = "writing"
  /\ job' = [job EXCEPT ![u].at = "over"]
  /\ index' = [index EXCEPT ![job[u].name] = Digest(u)]
  /\ UNCHANGED <<second, link, data, refused, restarts>>

-----------------------------------------------------------------------------

DeleteEntry(f) ==     \* mutant: the file itself is not removed
  /\ index[f] # None
  /\ index' = [index EXCEPT ![f] = None]
  /\ UNCHANGED <<second, job, link, data, refused, restarts>>

\* The entry is popped, and True returned, whether the file was removed or not.
Delete(f) ==
  /\ index[f] # None
  /\ index' = [index EXCEPT ![f] = None]
  /\ Remove(f)
  /\ UNCHANGED <<second, job, data, restarts>>

\* _scan_existing: a file that cannot be read is skipped.
Scan(skip) ==
  [f \in Name |-> IF link[f] = None \/ f \in skip THEN None ELSE data[link[f]]]

\* The process ends, by /api/server/restart or otherwise, with the uploads under
\* way.  systemd starts the next one after RestartSec = 2.
RestartStore ==
  /\ restarts < MaxRestarts
  /\ second < MaxSecond
  /\ restarts' = restarts + 1
  /\ second' = second + 1
  /\ job' = [u \in Upload |->
               IF job[u].at = "writing" THEN [job[u] EXCEPT !.at = "over"] ELSE job[u]]
  /\ \E skip \in SUBSET {f \in Name : link[f] # None} :
       /\ index' = Scan(skip)
       /\ refused' = refused \cup skip
  /\ UNCHANGED <<link, data>>

Second ==
  /\ second < MaxSecond
  /\ second' = second + 1
  /\ UNCHANGED <<job, link, data, index, refused, restarts>>

StoreStep ==
  \/ \E u \in Upload : Begin(u) \/ OpenFails(u) \/ Chunk(u) \/ Fail(u) \/ Finish(u)
  \/ \E f \in Name : Delete(f)
  \/ Second

StoreNext == StoreStep \/ RestartStore

StoreSpec == StoreInit /\ [][StoreNext]_store

-----------------------------------------------------------------------------

Users(f) == {u \in Upload : job[u].name = f}
Shared(f) == \E u, v \in Users(f) : u # v

OnDisk(f) == link[f] # None /\ data[link[f]] = index[f]

\* What the server offers is on disk, and is what it says it is, across failed
\* uploads, deletions and restarts, as long as the name was not given to two
\* uploads (names are made of seconds).
IndexTrue == \A f \in Name : index[f] # None /\ ~Shared(f) => OnDisk(f)

\* The same of every name, as long as every upload could open its file: uploads do
\* not clash, since the server gives each a name of its own (file_manager.py, on
\* the policy for names).
NoClash ==
  (\A u \in Upload : job[u].at # "new" => job[u].file # None)
    => \A f \in Name : index[f] # None => OnDisk(f)

\* The server offers a file that it did not offer before only because an upload
\* of that name was being written, or because the file system had refused to
\* remove or to read it: no deleted file and no failed upload is brought back by
\* the rescan of a restart otherwise, whichever names it shared.
NothingReturns ==
  [][\A f \in Name : index[f] = None /\ index'[f] # None
                      => \/ \E u \in Users(f) : job[u].at = "writing"
                         \/ f \in refused]_store
=============================================================================
