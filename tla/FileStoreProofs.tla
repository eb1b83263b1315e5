-------------------------- MODULE FileStoreProofs --------------------------
(***************************************************************************)
(* Proofs about FileStore: every value is of its kind; what the server     *)
(* offers is on disk as long as uploads do not clash (IndexTrue), and a    *)
(* rescan brings nothing back (NothingReturns).                            *)
(***************************************************************************)
EXTENDS FileStore, TLAPS

Job == [at : {"new", "writing", "over"}, name : Name \cup {None},
        file : Upload \cup {None}, n : 0..MaxChunks]

\* An upload has a name once it has begun, and a file while it writes.  The file it
\* writes was created under the same name.
JobsNamed ==
  \A u \in Upload :
    IF job[u].at = "new" THEN job[u].name = None
    ELSE /\ job[u].name \in Name
         /\ job[u].at = "writing" => job[u].file \in Upload
         /\ job[u].file \in Upload => job[job[u].file].name = job[u].name

\* A directory entry was made by an upload of that name.
LinksNamed == \A f \in Name : link[f] # None => job[link[f]].name = f

\* What is offered under a name was uploaded under that name.
IndexUploaded ==
  \A f \in Name : index[f] # None => \E u \in Users(f) : job[u].at = "over"

\* An upload that has its name for itself has a file of its own, which holds what
\* it has received so far.
AloneWritten ==
  \A u \in Upload :
    job[u].at = "writing" /\ ~Shared(job[u].name)
      => job[u].file = u /\ link[job[u].name] = u /\ data[u] = Received(u)

\* A file that is not offered is being uploaded, or could not be removed or read.
UnofferedWriting ==
  \A f \in Name : link[f] # None /\ index[f] = None
                    => (\E u \in Users(f) : job[u].at = "writing") \/ f \in refused

StoreInv ==
  /\ StoreTypeOK
  /\ JobsNamed
  /\ LinksNamed
  /\ IndexUploaded
  /\ AloneWritten
  /\ UnofferedWriting
  /\ IndexTrue

-----------------------------------------------------------------------------
(* Types *)

LEMMA FileLength ==
  ASSUME NEW file \in File
  PROVE  /\ Len(file) \in 0..MaxChunks
         /\ file \in [1..Len(file) -> Upload \cup {None}]
<1>1. PICK n \in 0..MaxChunks : file \in [1..n -> Upload \cup {None}]
  BY DEF File
<1>2. Len(file) = n
  BY <1>1, StoreAssumption
<1> QED
  BY <1>1, <1>2

LEMMA WrittenType ==
  ASSUME NEW file \in File, NEW k \in 1..MaxChunks, NEW u \in Upload
  PROVE  Written(file, k, u) \in File
<1> DEFINE n == IF k > Len(file) THEN k ELSE Len(file)
<1>1. n \in 0..MaxChunks
  BY FileLength, StoreAssumption
<1>2. Written(file, k, u) \in [1..n -> Upload \cup {None}]
  BY FileLength, StoreAssumption DEF Written
<1> HIDE DEF n
<1> QED
  BY <1>1, <1>2 DEF File

LEMMA ReceivedType ==
  ASSUME StoreTypeOK, NEW u \in Upload
  PROVE  Received(u) \in File /\ Received(u) # None
<1>1. job[u].n \in 0..MaxChunks
  BY DEF StoreTypeOK
<1>2. Received(u) \in [1..job[u].n -> Upload \cup {None}]
  BY DEF Received
<1> QED
  BY <1>1, <1>2, StoreAssumption DEF File

LEMMA EmptyFile == <<>> \in File
BY StoreAssumption DEF File

\* What an os.remove leaves.
LEMMA RemoveEffect ==
  ASSUME StoreTypeOK, NEW f \in Name, Remove(f)
  PROVE  /\ link' \in [Name -> Upload \cup {None}]
         /\ refused' \subseteq Name
         /\ \A g \in Name \ {f} : link'[g] = link[g] /\ (g \in refused => g \in refused')
         /\ link'[f] \in {None, link[f]}
         /\ link'[f] # None => f \in refused'
BY DEF Remove, StoreTypeOK

LEMMA StoreTypesInit == StoreInit => StoreTypeOK
BY EmptyFile, StoreAssumption DEF StoreInit, StoreTypeOK, Name

LEMMA StoreTypesStep ==
  ASSUME StoreTypeOK, [StoreNext]_store
  PROVE  StoreTypeOK'
<1> USE DEF StoreTypeOK
<1>1. ASSUME NEW u \in Upload, Begin(u)
      PROVE  StoreTypeOK'
  BY <1>1, EmptyFile, StoreAssumption DEF Begin
<1>2. ASSUME NEW u \in Upload, Chunk(u)
      PROVE  StoreTypeOK'
  <2>1. job[u].n + 1 \in 1..MaxChunks
    BY <1>2, StoreAssumption DEF Chunk
  <2>2. \A file \in File : Written(file, job[u].n + 1, u) \in File
    BY <2>1, WrittenType
  <2>3. job' \in [Upload -> [at : {"new", "writing", "over"}, name : Name \cup {None},
                              file : Upload \cup {None}, n : 0..MaxChunks]]
    BY <1>2, <2>1 DEF Chunk
  <2>4. data' \in [Upload -> File]
    BY <1>2, <2>2 DEF Chunk
  <2>5. \A v \in Upload : job'[v].at = "writing" => job'[v].name \in Name
    BY <1>2 DEF Chunk
  <2> QED
    BY <1>2, <2>3, <2>4, <2>5 DEF Chunk
<1>3. ASSUME NEW u \in Upload, Fail(u)
      PROVE  StoreTypeOK'
  <2>1. job[u].name \in Name
    BY <1>3 DEF Fail
  <2> QED
    BY <1>3, <2>1, RemoveEffect DEF Fail
<1>9. ASSUME NEW u \in Upload, OpenFails(u)
      PROVE  StoreTypeOK'
  <2>1. second \in Name /\ Remove(second)
    BY <1>9 DEF OpenFails
  <2>2. /\ link' \in [Name -> Upload \cup {None}] /\ refused' \subseteq Name
    BY <2>1, RemoveEffect
  <2>3. job' \in [Upload -> Job]
    <3>1. [job[u] EXCEPT !.at = "over", !.name = second] \in Job
      BY <2>1 DEF Job
    <3>2. job' = [job EXCEPT ![u] = [job[u] EXCEPT !.at = "over", !.name = second]]
      BY <1>9 DEF OpenFails
    <3> QED
      BY <3>1, <3>2 DEF Job
  <2>4. \A v \in Upload : job'[v].at = "writing" => job'[v].name \in Name
    BY <1>9 DEF OpenFails
  <2> QED
    BY <1>9, <2>2, <2>3, <2>4 DEF OpenFails, Job
<1>4. ASSUME NEW u \in Upload, Finish(u)
      PROVE  StoreTypeOK'
  BY <1>4, ReceivedType DEF Finish, Digest
<1>5. ASSUME NEW f \in Name, Delete(f)
      PROVE  StoreTypeOK'
  BY <1>5, RemoveEffect DEF Delete
<1>6. CASE RestartStore
  <2>1. \A u \in Upload : job'[u] \in Job
    <3>1. \A u \in Upload : job[u] \in Job /\ [job[u] EXCEPT !.at = "over"] \in Job
      BY DEF Job
    <3> QED
      BY <1>6, <3>1 DEF RestartStore
  <2>2. job' \in [Upload -> Job]
    BY <1>6, <2>1 DEF RestartStore
  <2>3. index' \in [Name -> File \cup {None}] /\ refused' \subseteq Name
    BY <1>6 DEF RestartStore, Scan
  <2>5. \A u \in Upload : job'[u].at # "writing"
    <3>1. \A u \in Upload : [job[u] EXCEPT !.at = "over"].at = "over"
      OBVIOUS
    <3> QED
      BY <1>6, <3>1 DEF RestartStore
  <2>4. second' \in Name /\ restarts' \in 0..MaxRestarts
    BY <1>6, StoreAssumption DEF RestartStore, Name
  <2> QED
    BY <1>6, <2>2, <2>3, <2>4, <2>5 DEF RestartStore, Job
<1>7. CASE Second
  BY <1>7, StoreAssumption DEF Second, Name
<1>8. CASE UNCHANGED store
  BY <1>8 DEF store
<1> QED
  BY <1>1, <1>2, <1>3, <1>4, <1>5, <1>6, <1>7, <1>8, <1>9 DEF StoreNext, StoreStep

\* Every value of the file store is of its kind: no file is longer than
\* FILE_MAX_BYTES, and no entry of the index or the directory is out of range.
THEOREM StoreTypes == StoreSpec => []StoreTypeOK
<1>1. StoreTypeOK /\ [StoreNext]_store => StoreTypeOK'
  BY StoreTypesStep
<1> QED
  BY <1>1, StoreTypesInit, PTL DEF StoreSpec

-----------------------------------------------------------------------------
(* The index and the disk *)

Linked == JobsNamed /\ LinksNamed /\ IndexUploaded /\ AloneWritten
          /\ UnofferedWriting /\ IndexTrue

LEMMA LinkedInit == StoreInit => Linked
BY StoreAssumption
   DEF StoreInit, Linked, JobsNamed, LinksNamed, IndexUploaded, AloneWritten,
       UnofferedWriting, IndexTrue

LEMMA BeginStep ==
  ASSUME StoreTypeOK, Linked, NEW u \in Upload, Begin(u)
  PROVE  Linked'
<1> DEFINE file == IF link[second] = None THEN u ELSE link[second]
<1> USE DEF StoreTypeOK, Linked, Users
<1>1. /\ job[u].at = "new" /\ job[u].name = None
      /\ second \in Name /\ second # None
      /\ file \in Upload
  BY StoreAssumption DEF Begin, JobsNamed
<1>2. /\ job'[u] = [at |-> "writing", name |-> second, file |-> file, n |-> 0]
      /\ \A v \in Upload \ {u} : job'[v] = job[v]
      /\ link' = [link EXCEPT ![second] = file]
      /\ data' = [data EXCEPT ![file] = <<>>]
      /\ index' = index /\ second' = second /\ refused' = refused
  BY DEF Begin
<1> HIDE DEF Begin
<1>3. file = u \/ (file # u /\ job[file].name = second)
  BY <1>1 DEF LinksNamed
<1>4. job'[file].name = second
  BY <1>1, <1>2, <1>3
<1>5. \A f \in Name : link[f] = file => f = second
  BY <1>1, <1>3, StoreAssumption DEF LinksNamed
<1> HIDE DEF file
<1>6. /\ \A f \in Name : \A v \in Users(f) : v # u /\ v \in Users(f)'
      /\ \A f \in Name : Shared(f) => Shared(f)'
  <2>1. \A f \in Name : \A v \in Users(f) : v # u /\ v \in Users(f)'
    BY <1>1, <1>2, StoreAssumption
  <2> QED
    BY <2>1 DEF Shared
<1>7. u \in Users(second)' /\ file \in Users(second)'
  BY <1>1, <1>2, <1>4
<1>14. Users(second) # {} => Shared(second)'
  <2> HIDE DEF Users
  <2> QED
    BY <1>1, <1>2, <1>6, <1>7 DEF Shared
<1>8. JobsNamed'
  <2>1. ASSUME NEW v \in Upload \ {u}, job[v].at # "new", job[v].file \in Upload
        PROVE  job[job[v].file].name = job'[job[v].file].name
    BY <1>1, <1>2, <2>1, StoreAssumption DEF JobsNamed
  <2>2. ASSUME NEW v \in Upload \ {u}, job[v].at # "new", job[v].file \in Upload
        PROVE  job'[job[v].file].name = job[v].name
    BY <2>1, <2>2 DEF JobsNamed
  <2> QED
    BY <1>1, <1>2, <1>4, <2>2 DEF JobsNamed
<1>9. LinksNamed'
  BY <1>1, <1>2, <1>4, StoreAssumption DEF LinksNamed
<1>10. IndexUploaded'
  BY <1>1, <1>2, <1>6 DEF IndexUploaded
<1>11. AloneWritten'
  <2>1. ASSUME ~Shared(second)'
        PROVE  file = u /\ data'[u] = Received(u)'
    <3>1. file = u
      BY <1>7, <2>1 DEF Shared
    <3>2. data'[u] = <<>> /\ Received(u)' = <<>>
      BY <1>2, <3>1 DEF Received
    <3> QED
      BY <3>1, <3>2
  <2>2. ASSUME NEW v \in Upload \ {u}, job[v].at = "writing", ~Shared(job[v].name)'
        PROVE  /\ job[v].file = v /\ link'[job[v].name] = v
               /\ data'[v] = Received(v)'
    <3>1. job[v].name \in Name /\ job[v].name # second /\ ~Shared(job[v].name)
      BY <1>1, <1>2, <1>6, <1>14, <2>2 DEF JobsNamed
    <3>2. job[v].file = v /\ link[job[v].name] = v /\ data[v] = Received(v)
      BY <2>2, <3>1 DEF AloneWritten
    <3>3. v # file
      BY <1>5, <3>1, <3>2
    <3>4. Received(v)' = Received(v)
      BY <1>2 DEF Received
    <3> QED
      BY <1>2, <3>1, <3>2, <3>3, <3>4
  <2> QED
    BY <1>1, <1>2, <2>1, <2>2 DEF AloneWritten
<1>12. UnofferedWriting'
  BY <1>1, <1>2, <1>6, <1>7 DEF UnofferedWriting
<1>13. IndexTrue'
  <2> SUFFICES ASSUME NEW f \in Name, index[f] # None, ~Shared(f)'
               PROVE  OnDisk(f)'
    BY <1>2 DEF IndexTrue
  <2>1. f # second
    BY <1>1, <1>2, <1>14 DEF IndexUploaded
  <2>2. OnDisk(f)
    BY <1>6 DEF IndexTrue
  <2> QED
    BY <1>2, <1>5, <2>1, <2>2 DEF OnDisk
<1> QED
  BY <1>8, <1>9, <1>10, <1>11, <1>12, <1>13

\* Steps that leave names and files of all uploads and let none begin.
LEMMA SameNames ==
  ASSUME \A v \in Upload : /\ job'[v].name = job[v].name
                           /\ job'[v].file = job[v].file
                           /\ job'[v].at = "new" <=> job[v].at = "new"
                           /\ job'[v].at = "writing" => job[v].at = "writing"
  PROVE  /\ \A f : Users(f)' = Users(f) /\ (Shared(f)' <=> Shared(f))
         /\ JobsNamed => JobsNamed'
<1>1. \A f : Users(f)' = Users(f)
  BY DEF Users
<1>2. \A f : Shared(f)' <=> Shared(f)
  BY <1>1 DEF Shared
<1>3. JobsNamed => JobsNamed'
  BY DEF JobsNamed
<1> QED
  BY <1>1, <1>2, <1>3

LEMMA ChunkStep ==
  ASSUME StoreTypeOK, Linked, NEW u \in Upload, Chunk(u)
  PROVE  Linked'
<1> USE DEF StoreTypeOK, Linked
<1>1. /\ job[u].at = "writing" /\ job' = [job EXCEPT ![u].n = @ + 1]
      /\ data' = [data EXCEPT ![job[u].file] = Written(@, job[u].n + 1, u)]
      /\ link' = link /\ index' = index /\ refused' = refused
  BY DEF Chunk
<1>2. /\ \A f : Users(f)' = Users(f) /\ (Shared(f)' <=> Shared(f))
      /\ JobsNamed'
  BY <1>1, SameNames
<1>3. \A v \in Upload : job'[v].at = job[v].at /\ job'[v].name = job[v].name
  BY <1>1
<1>4. LinksNamed' /\ IndexUploaded' /\ UnofferedWriting'
  BY <1>1, <1>2, <1>3 DEF LinksNamed, IndexUploaded, UnofferedWriting, Users
<1>5. AloneWritten'
  <2> SUFFICES ASSUME NEW v \in Upload, job[v].at = "writing", ~Shared(job[v].name)
               PROVE  /\ job'[v].file = v /\ link'[job[v].name] = v
                      /\ data'[v] = Received(v)'
    BY <1>2, <1>3 DEF AloneWritten
  <2>1. job[v].file = v /\ link[job[v].name] = v /\ data[v] = Received(v)
    BY DEF AloneWritten
  <2>2. CASE v = u
    <3>1. Written(Received(u), job[u].n + 1, u) = [i \in 1..job[u].n + 1 |-> u]
      <4>1. Len(Received(u)) = job[u].n
        BY DEF Received
      <4> QED
        BY <4>1 DEF Written, Received
    <3>2. Received(u)' = [i \in 1..job[u].n + 1 |-> u]
      BY <1>1 DEF Received
    <3> QED
      BY <1>1, <2>1, <2>2, <3>1, <3>2
  <2>3. CASE v # u
    <3>1. job[u].file # v
      BY <1>1, <2>1, <2>3 DEF JobsNamed, Shared, Users
    <3> QED
      BY <1>1, <2>1, <2>3, <3>1 DEF Received
  <2> QED
    BY <2>2, <2>3
<1>6. IndexTrue'
  <2> SUFFICES ASSUME NEW f \in Name, index[f] # None, ~Shared(f)
               PROVE  OnDisk(f)'
    BY <1>1, <1>2 DEF IndexTrue
  <2>1. OnDisk(f)
    BY DEF IndexTrue
  <2>2. job[u].file # link[f]
    BY <1>1, <2>1 DEF OnDisk, IndexUploaded, JobsNamed, LinksNamed, Shared, Users
  <2> QED
    BY <1>1, <2>1, <2>2 DEF OnDisk
<1> QED
  BY <1>2, <1>4, <1>5, <1>6

LEMMA FailStep ==
  ASSUME StoreTypeOK, Linked, NEW u \in Upload, Fail(u)
  PROVE  Linked'
<1> USE DEF StoreTypeOK, Linked
<1>1. /\ job[u].at = "writing" /\ job' = [job EXCEPT ![u].at = "over"]
      /\ data' = data /\ index' = index
      /\ job[u].name \in Name
      /\ Remove(job[u].name)
  BY DEF Fail, JobsNamed
<1>2. /\ \A f : Users(f)' = Users(f) /\ (Shared(f)' <=> Shared(f))
      /\ JobsNamed'
  BY <1>1, SameNames
<1>3. /\ \A v \in Upload : job'[v].name = job[v].name /\ job'[v].file = job[v].file
      /\ \A v \in Upload \ {u} : job'[v] = job[v]
      /\ job'[u].at = "over"
      /\ \A f \in Name \ {job[u].name} :
           link'[f] = link[f] /\ (f \in refused => f \in refused')
      /\ link'[job[u].name] \in {None, link[job[u].name]}
      /\ link'[job[u].name] # None => job[u].name \in refused'
  BY <1>1, RemoveEffect
<1>4. LinksNamed' /\ IndexUploaded' /\ UnofferedWriting'
  BY <1>1, <1>2, <1>3 DEF LinksNamed, IndexUploaded, UnofferedWriting, Users
<1>5. AloneWritten'
  <2> SUFFICES ASSUME NEW v \in Upload \ {u}, job[v].at = "writing",
                      ~Shared(job[v].name)
               PROVE  /\ job'[v].file = v /\ link'[job[v].name] = v
                      /\ data'[v] = Received(v)'
    BY <1>2, <1>3 DEF AloneWritten
  <2>1. job[v].file = v /\ link[job[v].name] = v /\ data[v] = Received(v)
    BY DEF AloneWritten
  <2>2. job[v].name # job[u].name /\ job[v].name \in Name
    BY DEF Shared, Users, JobsNamed
  <2>3. Received(v)' = Received(v)
    BY <1>3 DEF Received
  <2> QED
    BY <1>1, <1>3, <2>1, <2>2, <2>3
<1>6. IndexTrue'
  <2> SUFFICES ASSUME NEW f \in Name, index[f] # None, ~Shared(f)
               PROVE  OnDisk(f)'
    BY <1>1, <1>2 DEF IndexTrue
  <2>1. OnDisk(f)
    BY DEF IndexTrue
  <2>2. f # job[u].name
    BY <1>1 DEF IndexUploaded, Shared, Users
  <2> QED
    BY <1>1, <1>3, <2>1, <2>2 DEF OnDisk
<1> QED
  BY <1>2, <1>4, <1>5, <1>6

\* An upload that cannot open its file shares its name with the one it removes.
LEMMA OpenFailsStep ==
  ASSUME StoreTypeOK, Linked, NEW u \in Upload, OpenFails(u)
  PROVE  Linked'
<1> USE DEF StoreTypeOK, Linked
<1>1. /\ job[u].at = "new" /\ job[u].name = None
      /\ job' = [job EXCEPT ![u].at = "over", ![u].name = second]
      /\ data' = data /\ index' = index /\ second' = second /\ second \in Name
      /\ Remove(second)
  BY DEF OpenFails, JobsNamed
<1>2. /\ job'[u].at = "over" /\ job'[u].name = second /\ job'[u].file = job[u].file
      /\ \A v \in Upload \ {u} : job'[v] = job[v]
  BY <1>1
<1>3. /\ \A f \in Name \ {second} : link'[f] = link[f] /\ (f \in refused => f \in refused')
      /\ link'[second] \in {None, link[second]}
      /\ link'[second] # None => second \in refused'
  BY <1>1, RemoveEffect
<1>4. \A f \in Name : \A v \in Users(f) : v # u /\ v \in Users(f)'
  BY <1>1, <1>2, StoreAssumption DEF Users
<1>5. \A f \in Name : Shared(f) => Shared(f)'
  <2> USE DEF Users
  <2>1. \A f \in Name : \A v \in Users(f) : v \in Users(f)'
    BY <1>4
  <2> QED
    BY <2>1 DEF Shared
<1>6. u \in Users(second)'
  BY <1>1, <1>2 DEF Users
<1>7. Users(second) # {} => Shared(second)'
  BY <1>4, <1>6, <1>1 DEF Shared, Users
<1>8. JobsNamed'
  BY <1>1, <1>2, StoreAssumption DEF JobsNamed
<1>9. LinksNamed'
  BY <1>1, <1>2, <1>3, StoreAssumption DEF LinksNamed
<1>10. IndexUploaded' /\ UnofferedWriting'
  BY <1>1, <1>2, <1>3, <1>4 DEF IndexUploaded, UnofferedWriting, Users
<1>11. AloneWritten'
  <2> SUFFICES ASSUME NEW v \in Upload \ {u}, job[v].at = "writing",
                      ~Shared(job[v].name)'
               PROVE  /\ job[v].file = v /\ link'[job[v].name] = v
                      /\ data[v] = Received(v)'
    BY <1>1, <1>2 DEF AloneWritten
  <2>1. job[v].name \in Name /\ job[v].name # second
    BY <1>1, <1>7 DEF Users
  <2>2. Received(v)' = Received(v)
    BY <1>2 DEF Received
  <2> QED
    BY <1>1, <1>3, <1>5, <2>1, <2>2 DEF AloneWritten
<1>12. IndexTrue'
  <2> SUFFICES ASSUME NEW f \in Name, index[f] # None, ~Shared(f)'
               PROVE  OnDisk(f)'
    BY <1>1 DEF IndexTrue
  <2>1. f # second
    BY <1>1, <1>7 DEF IndexUploaded, Users
  <2> QED
    BY <1>1, <1>3, <1>5, <2>1 DEF IndexTrue, OnDisk
<1> QED
  BY <1>8, <1>9, <1>10, <1>11, <1>12

LEMMA FinishStep ==
  ASSUME StoreTypeOK, Linked, NEW u \in Upload, Finish(u)
  PROVE  Linked'
<1> USE DEF StoreTypeOK, Linked
<1>1. /\ job[u].at = "writing" /\ job' = [job EXCEPT ![u].at = "over"]
      /\ index' = [index EXCEPT ![job[u].name] = Received(u)]
      /\ data' = data /\ link' = link /\ refused' = refused
      /\ job[u].name \in Name
  BY DEF Finish, JobsNamed, Digest
<1>2. /\ \A f : Users(f)' = Users(f) /\ (Shared(f)' <=> Shared(f))
      /\ JobsNamed'
  BY <1>1, SameNames
<1>3. /\ \A v \in Upload : job'[v].name = job[v].name /\ job'[v].file = job[v].file
      /\ \A v \in Upload \ {u} : job'[v] = job[v]
      /\ job'[u].at = "over"
      /\ \A f \in Name \ {job[u].name} : index'[f] = index[f]
      /\ index'[job[u].name] = Received(u) /\ Received(u) # None
  BY <1>1, ReceivedType
<1>4. LinksNamed' /\ IndexUploaded' /\ UnofferedWriting'
  BY <1>1, <1>2, <1>3 DEF LinksNamed, IndexUploaded, UnofferedWriting, Users
<1>5. AloneWritten'
  <2> SUFFICES ASSUME NEW v \in Upload \ {u}, job[v].at = "writing",
                      ~Shared(job[v].name)
               PROVE  /\ job'[v].file = v /\ link'[job[v].name] = v
                      /\ data'[v] = Received(v)'
    BY <1>2, <1>3 DEF AloneWritten
  <2>1. Received(v)' = Received(v)
    BY <1>3 DEF Received
  <2> QED
    BY <1>1, <1>3, <2>1 DEF AloneWritten
<1>6. IndexTrue'
  <2> SUFFICES ASSUME NEW f \in Name, index'[f] # None, ~Shared(f)
               PROVE  OnDisk(f)'
    BY <1>2 DEF IndexTrue
  <2>1. CASE f = job[u].name
    <3>1. link[f] = u /\ data[u] = Received(u)
      BY <1>1, <2>1 DEF AloneWritten
    <3> QED
      BY <1>1, <1>3, <2>1, <3>1, StoreAssumption DEF OnDisk
  <2>2. CASE f # job[u].name
    BY <1>1, <1>3, <2>2 DEF OnDisk, IndexTrue
  <2> QED
    BY <2>1, <2>2
<1> QED
  BY <1>2, <1>4, <1>5, <1>6

LEMMA DeleteStep ==
  ASSUME StoreTypeOK, Linked, NEW f \in Name, Delete(f)
  PROVE  Linked'
<1> USE DEF StoreTypeOK, Linked
<1>1. /\ index[f] # None /\ job' = job /\ data' = data
      /\ index' = [index EXCEPT ![f] = None]
      /\ \A g \in Name \ {f} : link'[g] = link[g] /\ (g \in refused => g \in refused')
      /\ link'[f] \in {None, link[f]}
      /\ link'[f] # None => f \in refused'
  BY RemoveEffect DEF Delete
<1>2. /\ \A e : Users(e)' = Users(e) /\ (Shared(e)' <=> Shared(e))
      /\ JobsNamed'
  BY <1>1, SameNames
<1>3. LinksNamed' /\ IndexUploaded' /\ UnofferedWriting'
  BY <1>1, <1>2 DEF LinksNamed, IndexUploaded, UnofferedWriting
<1>4. AloneWritten'
  <2> SUFFICES ASSUME NEW v \in Upload, job[v].at = "writing", ~Shared(job[v].name)
               PROVE  /\ job[v].file = v /\ link'[job[v].name] = v
                      /\ data[v] = Received(v)
    BY <1>1, <1>2 DEF AloneWritten, Received
  <2>1. job[v].name # f /\ job[v].name \in Name
    BY <1>1 DEF IndexUploaded, Shared, Users, JobsNamed
  <2> QED
    BY <1>1, <2>1 DEF AloneWritten
<1>5. IndexTrue'
  BY <1>1, <1>2 DEF IndexTrue, OnDisk
<1> QED
  BY <1>2, <1>3, <1>4, <1>5

LEMMA RestartStep ==
  ASSUME StoreTypeOK, Linked, RestartStore
  PROVE  Linked'
<1> USE DEF StoreTypeOK, Linked
<1>1. /\ \A v \in Upload :
           job'[v] = IF job[v].at = "writing" THEN [job[v] EXCEPT !.at = "over"] ELSE job[v]
      /\ data' = data /\ link' = link
  BY DEF RestartStore
<1>11. PICK skip \in SUBSET {f \in Name : link[f] # None} :
         index' = Scan(skip) /\ refused' = refused \cup skip
  BY DEF RestartStore
<1>2. \A v \in Upload : /\ job'[v].name = job[v].name /\ job'[v].file = job[v].file
                        /\ job'[v].at = IF job[v].at = "new" THEN "new" ELSE "over"
  <2> TAKE v \in Upload
  <2>1. /\ job[v].at \in {"new", "writing", "over"}
        /\ [job[v] EXCEPT !.at = "over"].at = "over"
        /\ [job[v] EXCEPT !.at = "over"].name = job[v].name
        /\ [job[v] EXCEPT !.at = "over"].file = job[v].file
    OBVIOUS
  <2> QED
    BY <1>1, <2>1
<1>3. /\ \A f : Users(f)' = Users(f) /\ (Shared(f)' <=> Shared(f))
      /\ JobsNamed'
  BY <1>2, SameNames
<1>4. LinksNamed'
  BY <1>1, <1>2 DEF LinksNamed
<1>5. \A f \in Name :
        index'[f] = IF link[f] = None \/ f \in skip THEN None ELSE data[link[f]]
  BY <1>11 DEF Scan
<1>6. IndexUploaded'
  <2> SUFFICES ASSUME NEW f \in Name, link[f] # None
               PROVE  \E u \in Users(f) : job'[u].at = "over"
    BY <1>3, <1>5 DEF IndexUploaded
  <2>1. link[f] \in Upload /\ job[link[f]].name = f /\ f # None
    BY StoreAssumption DEF LinksNamed
  <2>2. job'[link[f]].at = "over"
    BY <1>2, <2>1 DEF JobsNamed
  <2> QED
    BY <2>1, <2>2 DEF Users
<1>7. AloneWritten'
  BY <1>2 DEF AloneWritten
<1>8. \A f \in Name : link[f] # None => index'[f] # None \/ f \in refused'
  BY <1>5, <1>11, StoreAssumption
<1>9. UnofferedWriting'
  BY <1>1, <1>8 DEF UnofferedWriting
<1>10. IndexTrue'
  BY <1>1, <1>5 DEF IndexTrue, OnDisk
<1> QED
  BY <1>3, <1>4, <1>6, <1>7, <1>9, <1>10

LEMMA QuietStep ==
  ASSUME Linked, UNCHANGED <<job, link, data, index, refused>>
  PROVE  Linked'
BY DEF Linked, JobsNamed, LinksNamed, IndexUploaded, AloneWritten, UnofferedWriting,
       IndexTrue, Users, Shared, OnDisk, Received

LEMMA LinkedStep ==
  ASSUME StoreTypeOK, Linked, [StoreNext]_store
  PROVE  Linked'
<1>1. CASE Second \/ UNCHANGED store
  BY <1>1, QuietStep DEF Second, store
<1> QED
  BY <1>1, BeginStep, OpenFailsStep, ChunkStep, FailStep, FinishStep, DeleteStep,
     RestartStep
     DEF StoreNext, StoreStep

\* What every step of the store keeps: the inductive invariant.
THEOREM StoreInvariant == StoreSpec => []StoreInv
<1>1. StoreInit => StoreInv
  BY StoreTypesInit, LinkedInit DEF StoreInv, Linked
<1>2. StoreInv /\ [StoreNext]_store => StoreInv'
  BY StoreTypesStep, LinkedStep DEF StoreInv, Linked
<1> QED
  BY <1>1, <1>2, PTL DEF StoreSpec

\* What the server offers is on disk and is what it says it is, for any number of
\* uploads, deletions and restarts, under names that did not clash.
THEOREM StoreIndexTrue == StoreSpec => []IndexTrue
<1>1. StoreInv => IndexTrue
  BY DEF StoreInv
<1> QED
  BY <1>1, StoreInvariant, PTL

LEMMA ReturnsStep ==
  ASSUME StoreInv, [StoreNext]_store, NEW f \in Name, index[f] = None, index'[f] # None
  PROVE  (\E u \in Users(f) : job[u].at = "writing") \/ f \in refused
<1> USE DEF StoreInv, StoreTypeOK
<1>1. ASSUME NEW u \in Upload, Finish(u)
      PROVE  \E v \in Users(f) : job[v].at = "writing"
  <2>1. job[u].name = f
    BY <1>1 DEF Finish, JobsNamed
  <2> QED
    BY <1>1, <2>1 DEF Finish, Users
<1>2. ASSUME RestartStore
      PROVE  (\E v \in Users(f) : job[v].at = "writing") \/ f \in refused
  <2>1. link[f] # None
    BY <1>2 DEF RestartStore, Scan
  <2> QED
    BY <2>1 DEF UnofferedWriting
<1>3. ASSUME NEW e \in Name, Delete(e)
      PROVE  FALSE
  BY <1>3 DEF Delete
<1>4. ASSUME UNCHANGED index
      PROVE  FALSE
  BY <1>4
<1> QED
  BY <1>1, <1>2, <1>3, <1>4
     DEF StoreNext, StoreStep, store, Begin, OpenFails, Chunk, Fail, Second

\* Neither a deleted file nor one of a failed upload is offered again, unless the
\* file system refused to remove it, or a scan to read it.
THEOREM StoreNothingReturns == StoreSpec => NothingReturns
<1>1. StoreInv /\ [StoreNext]_store
        => [\A f \in Name : index[f] = None /\ index'[f] # None
                              => \/ \E u \in Users(f) : job[u].at = "writing"
                                 \/ f \in refused]_store
  BY ReturnsStep
<1> QED
  BY <1>1, StoreInvariant, PTL DEF StoreSpec, NothingReturns
=============================================================================
