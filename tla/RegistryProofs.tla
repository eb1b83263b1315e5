--------------------------- MODULE RegistryProofs ---------------------------
(***************************************************************************)
(* Theorems about Registry, for any set of devices and any number of       *)
(* sockets: who gets the commands, who stays in the audio list and whom a  *)
(* frame reaches.                                                          *)
(***************************************************************************)
EXTENDS Registry, FiniteSetTheorems, SequenceTheorems, TLAPS

\* The types of what decides about _cmd.
CmdTypes ==
  /\ made \in 0..MaxSocket
  /\ owner \in [Socket -> Device]
  /\ chan \in [Socket -> {"cmd", "audio"}]
  /\ handler \in [Socket -> {"none", "announce", "receive", "report", "over", "leaked"}]
  /\ cmd \in [Device -> 0..MaxSocket]

\* What a device's entry names is one of its own sockets, and none but the last.
CmdInv == CmdTypes /\ NewestServed

LEMMA CmdInit == Init => CmdInv
BY RegistryAssumption DEF Init, CmdInv, CmdTypes, NewestServed

\* Steps that leave _cmd and end no handler.
LEMMA CmdKept ==
  ASSUME CmdInv, UNCHANGED <<made, owner, chan, cmd>>,
         handler' \in [Socket -> {"none", "announce", "receive", "report", "over", "leaked"}],
         \A s \in Socket : handler[s] = "over" => handler'[s] = "over"
  PROVE  CmdInv'
BY RegistryAssumption DEF CmdInv, CmdTypes, NewestServed, Newest, Socket

LEMMA ConnectCmdInv ==
  ASSUME CmdInv, NEW s \in Socket, ConnectCmd(s)
  PROVE  CmdInv'
<1> USE RegistryAssumption DEF CmdInv, CmdTypes, Socket
<1>1. /\ s = made + 1 /\ chan[s] = "cmd" /\ made' = s
      /\ cmd' = [cmd EXCEPT ![owner[s]] = s]
      /\ UNCHANGED <<owner, chan>>
      /\ \E at \in {"announce", "receive"} : handler' = [handler EXCEPT ![s] = at]
  BY DEF ConnectCmd
<1>2. CmdTypes'
  BY <1>1
<1>3. ASSUME NEW t \in 1..made', chan[t] = "cmd", handler'[t] # "over", Newest(t)'
      PROVE  cmd'[owner[t]] = t
  <2>1. CASE t = s
    BY <1>1, <2>1
  <2>2. CASE t # s
    <3>1. t \in 1..made /\ handler[t] # "over" /\ owner[t] # owner[s] /\ Newest(t)
      BY <1>1, <1>3, <2>2 DEF Newest
    <3> QED
      BY <1>1, <1>3, <3>1 DEF NewestServed
  <2> QED
    BY <2>1, <2>2
<1> QED
  BY <1>1, <1>2, <1>3 DEF NewestServed

LEMMA ConnectAudioInv ==
  ASSUME CmdInv, NEW s \in Socket, ConnectAudio(s)
  PROVE  CmdInv'
<1> USE RegistryAssumption DEF CmdInv, CmdTypes, Socket
<1>1. /\ s = made + 1 /\ chan[s] = "audio" /\ made' = s
      /\ handler' = [handler EXCEPT ![s] = "receive"]
      /\ UNCHANGED <<owner, chan, cmd>>
  BY DEF ConnectAudio
<1>2. CmdTypes'
  BY <1>1
<1>3. ASSUME NEW t \in 1..made', chan[t] = "cmd", handler'[t] # "over", Newest(t)'
      PROVE  cmd[owner[t]] = t
  <2>1. t \in 1..made /\ handler[t] # "over" /\ Newest(t)
    BY <1>1, <1>3 DEF Newest
  <2> QED
    BY <1>3, <2>1 DEF NewestServed
<1> QED
  BY <1>1, <1>2, <1>3 DEF NewestServed

\* A handler that ends removes its own socket only.
LEMMA EndInv ==
  ASSUME CmdInv, NEW s \in Socket, End(s)
  PROVE  CmdInv'
<1> USE RegistryAssumption DEF CmdInv, CmdTypes, Socket
<1>1. /\ handler' = [handler EXCEPT ![s] = "over"]
      /\ cmd' = cmd \/ (cmd[owner[s]] = s /\ cmd' = [cmd EXCEPT ![owner[s]] = 0])
      /\ UNCHANGED <<made, owner, chan>>
  BY DEF End, remove_cmd
<1>2. CmdTypes'
  <2>1. cmd' \in [Device -> 0..MaxSocket]
    <3>1. [cmd EXCEPT ![owner[s]] = 0] \in [Device -> 0..MaxSocket]
      OBVIOUS
    <3> QED
      BY <1>1, <3>1
  <2> QED
    BY <1>1, <2>1
<1>3. ASSUME NEW t \in 1..made, chan[t] = "cmd", handler'[t] # "over", Newest(t)'
      PROVE  cmd'[owner[t]] = t
  <2>1. t # s /\ handler[t] # "over" /\ Newest(t)
    BY <1>1, <1>3 DEF Newest
  <2>2. cmd[owner[t]] = t
    BY <1>3, <2>1 DEF NewestServed
  <2> QED
    BY <1>1, <2>1, <2>2
<1> QED
  BY <1>1, <1>2, <1>3 DEF NewestServed

LEMMA CmdStep ==
  ASSUME CmdInv, [Next]_vars
  PROVE  CmdInv'
<1> USE DEF CmdInv, CmdTypes
<1>1. ASSUME NEW s \in Socket, ReceiveEnds(s) \/ ReportRaises(s)
      PROVE  CmdInv'
  BY <1>1, EndInv DEF ReceiveEnds, ReportRaises
<1>2. ASSUME NEW s \in Socket,
             Announced(s) \/ AnnounceRaises(s) \/ Report(s) \/ ReportEnds(s)
      PROVE  CmdInv'
  <2>1. /\ handler[s] # "over"
        /\ \E to \in {"receive", "leaked", "report"} : handler' = [handler EXCEPT ![s] = to]
        /\ UNCHANGED <<made, owner, chan, cmd>>
    BY <1>2 DEF Announced, AnnounceRaises, Report, ReportEnds, At
  <2>2. /\ handler' \in [Socket -> {"none", "announce", "receive", "report", "over", "leaked"}]
        /\ \A t \in Socket : handler[t] = "over" => handler'[t] = "over"
    BY <2>1
  <2> QED
    BY <2>1, <2>2, CmdKept
<1>3. ASSUME NEW s \in Socket, CloserRuns(s) \/ CloserEnds(s) \/ Lose(s)
      PROVE  CmdInv'
  BY <1>3, CmdKept DEF CloserRuns, CloserEnds, Lose
<1>4. CASE Fanout \/ FanoutResumes \/ UNCHANGED vars
  BY <1>4, CmdKept DEF Fanout, FanoutResumes, vars
<1> QED
  BY <1>1, <1>2, <1>3, <1>4, ConnectCmdInv, ConnectAudioInv DEF Next, SocketStep

\* The socket a device connected last stays the one its commands go to, until its
\* own handler ends.
THEOREM NewestServedAlways == Spec => []NewestServed
<1>1. CmdInv /\ [Next]_vars => CmdInv'
  BY CmdStep
<1>2. CmdInv => NewestServed
  BY DEF CmdInv
<1> QED
  BY <1>1, <1>2, CmdInit, PTL DEF Spec

-----------------------------------------------------------------------------
(* The list without some of its sockets *)

\* The places in T are numbered from 1 on by how many of them come up to each.
LEMMA Places ==
  ASSUME NEW n \in Nat, NEW T \in SUBSET (1..n)
  PROVE  /\ Cardinality(T) \in Nat
         /\ \A m \in 1..Cardinality(T) : \E i \in T : Cardinality(T \cap 1..i) = m
         /\ \A i \in T : Cardinality(T \cap 1..i) \in 1..Cardinality(T)
         /\ \A i, j \in T : Cardinality(T \cap 1..i) = Cardinality(T \cap 1..j) => i = j
<1> DEFINE upto(i) == T \cap 1..i
           rank == [i \in T |-> Cardinality(upto(i))]
<1>1. IsFiniteSet(1..n) /\ IsFiniteSet(T)
  <2>1. 1 \in Int /\ n \in Int
    OBVIOUS
  <2>2. IsFiniteSet(1..n)
    BY <2>1, FS_Interval
  <2> QED
    BY <2>2, FS_Subset
<1>2. ASSUME NEW i \in T
      PROVE  IsFiniteSet(upto(i)) /\ Cardinality(upto(i)) \in 1..Cardinality(T)
  <2>1. upto(i) \in SUBSET T /\ i \in upto(i)
    OBVIOUS
  <2>2. IsFiniteSet(upto(i)) /\ Cardinality(upto(i)) <= Cardinality(T)
    BY <1>1, <2>1, FS_Subset
  <2>3. Cardinality(upto(i)) # 0
    BY <2>1, <2>2, FS_EmptySet
  <2>4. Cardinality(upto(i)) \in Nat /\ Cardinality(T) \in Nat
    BY <1>1, <2>2, FS_CardinalityType
  <2> QED
    BY <2>2, <2>3, <2>4
<1>3. ASSUME NEW i \in T, NEW j \in T, i < j
      PROVE  Cardinality(upto(i)) # Cardinality(upto(j))
  <2>1. upto(i) \in SUBSET upto(j) /\ j \in upto(j) /\ j \notin upto(i)
    BY <1>3
  <2>2. upto(i) # upto(j)
    BY <2>1
  <2> QED
    BY <1>2, <2>1, <2>2, FS_Subset
<1>4. \A i, j \in T : Cardinality(upto(i)) = Cardinality(upto(j)) => i = j
  BY <1>3
<1>5. Cardinality(T) \in Nat
  BY <1>1, FS_CardinalityType
<1>6. IsFiniteSet(1..Cardinality(T)) /\ Cardinality(1..Cardinality(T)) = Cardinality(T)
  BY <1>5, FS_Interval
<1>7. rank \in Injection(T, 1..Cardinality(T))
  BY <1>2, <1>4 DEF Injection, IsInjective
<1>8. rank \in Surjection(T, 1..Cardinality(T))
  BY <1>6, <1>7, FS_Injection
<1>9. \A m \in 1..Cardinality(T) : \E i \in T : rank[i] = m
  BY <1>8 DEF Surjection
<1> QED
  BY <1>2, <1>4, <1>5, <1>9

\* What AudioWithout leaves is a list of exactly the sockets that are not taken out.
LEMMA WithoutSockets ==
  ASSUME NEW n \in Nat, audio \in Seq(1..n), NEW S
  PROVE  /\ AudioWithout(S) \in Seq(1..n)
         /\ Sockets(AudioWithout(S)) = Sockets(audio) \ S
<1> DEFINE kept == {i \in DOMAIN audio : audio[i] \notin S}
           place(m) == CHOOSE i \in kept : Cardinality(kept \cap 1..i) = m
           left == [m \in 1..Cardinality(kept) |-> audio[place(m)]]
<1>1. /\ Len(audio) \in Nat /\ DOMAIN audio = 1..Len(audio)
      /\ \A i \in DOMAIN audio : audio[i] \in 1..n
  OBVIOUS
<1>2. kept \in SUBSET (1..Len(audio))
  BY <1>1
<1>3. AudioWithout(S) = left
  BY DEF AudioWithout
<1>4. /\ \A i \in kept : i \in DOMAIN audio /\ audio[i] \notin S
      /\ \A i \in DOMAIN audio : audio[i] \notin S => i \in kept
  OBVIOUS
<1> HIDE DEF kept
<1>5. /\ Cardinality(kept) \in Nat
      /\ \A m \in 1..Cardinality(kept) : \E i \in kept : Cardinality(kept \cap 1..i) = m
      /\ \A i \in kept : Cardinality(kept \cap 1..i) \in 1..Cardinality(kept)
      /\ \A i, j \in kept : Cardinality(kept \cap 1..i) = Cardinality(kept \cap 1..j) => i = j
  BY <1>1, <1>2, Places
<1>6. ASSUME NEW m \in 1..Cardinality(kept)
      PROVE  place(m) \in kept /\ Cardinality(kept \cap 1..place(m)) = m
  <2>1. \E i \in kept : Cardinality(kept \cap 1..i) = m
    BY <1>5
  <2> QED
    BY <2>1
<1>7. ASSUME NEW i \in kept
      PROVE  \E m \in 1..Cardinality(kept) : place(m) = i
  <2> DEFINE m == Cardinality(kept \cap 1..i)
  <2>1. m \in 1..Cardinality(kept)
    BY <1>5
  <2>2. place(m) \in kept /\ Cardinality(kept \cap 1..place(m)) = m
    BY <1>6, <2>1
  <2> QED
    BY <1>5, <2>1, <2>2
<1> HIDE DEF place
<1>8. left \in Seq(1..n)
  <2>1. left \in [1..Cardinality(kept) -> 1..n]
    BY <1>1, <1>4, <1>6
  <2> QED
    BY <1>5, <2>1, SeqDef
<1>9. Sockets(left) = Sockets(audio) \ S
  <2>1. DOMAIN left = 1..Cardinality(kept)
    OBVIOUS
  <2>2. ASSUME NEW m \in DOMAIN left
        PROVE  left[m] \in Sockets(audio) \ S
    BY <1>4, <1>6, <2>1, <2>2 DEF Sockets
  <2>3. ASSUME NEW i \in DOMAIN audio, audio[i] \notin S
        PROVE  \E m \in DOMAIN left : left[m] = audio[i]
    BY <1>4, <1>7, <2>1, <2>3
  <2> QED
    BY <2>2, <2>3 DEF Sockets
<1> QED
  BY <1>3, <1>8, <1>9

-----------------------------------------------------------------------------
(* The audio list and the fanout *)

\* A socket that is gone never comes back, so that what a fanout noted down about
\* the sockets it has passed stays true while its sends are suspended.
FanInv ==
  /\ got \subseteq Socket
  /\ ~fan.on => fan = NoFan
  /\ fan.on =>
       /\ fan.list \in Seq(1..made)
       /\ fan.next \in 2..Len(fan.list) + 1
       /\ fan.drain = fan.list[fan.next - 1]
       /\ fan.dead \subseteq {s \in 1..made : conn[s] # "open"}
       /\ \A k \in 1..fan.next - 1 : fan.list[k] \in got \cup fan.dead

AudioInv ==
  /\ made \in 0..MaxSocket
  /\ conn \in [Socket -> {"none", "open", "lost", "closed"}]
  /\ audio \in Seq(1..made)
  /\ FanInv

LEMMA AudioInit == Init => AudioInv
<1> SUFFICES ASSUME Init
             PROVE  AudioInv
  OBVIOUS
<1>1. /\ made = 0 /\ conn = [s \in Socket |-> "none"] /\ audio = <<>> /\ ~fan.on
      /\ fan = NoFan /\ got = {}
  BY DEF Init, NoFan
<1>2. <<>> \in Seq(1..made)
  OBVIOUS
<1> QED
  BY <1>1, <1>2, RegistryAssumption DEF AudioInv, FanInv

\* A longer list of sockets is none the less one of sockets.
LEMMA MoreSockets ==
  ASSUME NEW m \in Nat, NEW n \in Nat, m <= n, NEW s \in Seq(1..m)
  PROVE  s \in Seq(1..n)
<1>1. 1..m \subseteq 1..n
  OBVIOUS
<1> QED
  BY <1>1, SeqMonotonic

\* Steps that leave the fanout alone and open no old socket.
LEMMA FanKept ==
  ASSUME AudioInv, made' \in 0..MaxSocket, made <= made', UNCHANGED <<fan, got>>,
         conn' \in [Socket -> {"none", "open", "lost", "closed"}],
         \A s \in 1..made : conn[s] # "open" => conn'[s] # "open",
         audio' \in Seq(1..made')
  PROVE  AudioInv'
<1>1. FanInv'
  <2> SUFFICES ASSUME fan.on
               PROVE  FanInv'
    BY DEF FanInv, AudioInv
  <2>1. made \in Nat /\ made' \in Nat
    BY RegistryAssumption DEF AudioInv
  <2>2. fan.list \in Seq(1..made')
    BY <2>1, MoreSockets DEF AudioInv, FanInv
  <2>3. fan.dead \subseteq {s \in 1..made' : conn'[s] # "open"}
    BY <2>1 DEF AudioInv, FanInv
  <2>4. /\ fan.next \in 2..Len(fan.list) + 1
        /\ fan.drain = fan.list[fan.next - 1]
        /\ \A k \in 1..fan.next - 1 : fan.list[k] \in got \cup fan.dead
        /\ got \subseteq Socket
    BY DEF AudioInv, FanInv
  <2> QED
    BY <2>2, <2>3, <2>4 DEF FanInv
<1> QED
  BY <1>1 DEF AudioInv

\* What a sweep over list does from place i on, when what it has passed was sent
\* to or found dead.
LEMMA SweepEffect ==
  ASSUME AudioInv, NEW list \in Seq(1..made), NEW i \in 1..Len(list) + 1, NEW dead,
         dead \subseteq {s \in 1..made : conn[s] # "open"},
         i # 1 => got \subseteq Socket /\ \A k \in 1..i - 1 : list[k] \in got \cup dead,
         Sweep(list, i, dead), UNCHANGED <<made, conn>>
  PROVE  /\ AudioInv'
         /\ \A s \in Sockets(audio) \ Sockets(audio') : conn[s] # "open"
         /\ ~fan'.on => \A s \in Sockets(list) : conn[s] = "open" => s \in got'
<1>1. PICK n \in i - 1..Len(list) :
        LET now == {list[k] : k \in i..n}
            broken == dead \cup {s \in now : conn[s] # "open"}
        IN /\ got' = (IF i = 1 THEN {} ELSE got) \cup (now \ broken)
           /\ \/ /\ n = Len(list)
                 /\ audio' = AudioWithout(broken)
                 /\ fan' = NoFan
              \/ /\ n >= i /\ conn[list[n]] = "open"
                 /\ fan' = [on |-> TRUE, list |-> list, next |-> n + 1, dead |-> broken,
                            drain |-> list[n]]
                 /\ UNCHANGED audio
  BY DEF Sweep
<1> DEFINE now == {list[k] : k \in i..n}
           broken == dead \cup {s \in now : conn[s] # "open"}
<1>2. /\ made \in Nat /\ 1..made \subseteq Socket /\ Len(list) \in Nat /\ i \in Nat /\ n \in Nat
      /\ DOMAIN list = 1..Len(list)
      /\ \A k \in 1..Len(list) : list[k] \in 1..made
  BY RegistryAssumption DEF AudioInv, Socket
<1>3. now \subseteq 1..made
  BY <1>2
<1>4. broken \subseteq {s \in 1..made : conn[s] # "open"}
  BY <1>3
<1>5. /\ got' = (IF i = 1 THEN {} ELSE got) \cup (now \ broken)
      /\ got' \subseteq Socket
  BY <1>1, <1>2, <1>3
<1>6. ASSUME NEW k \in 1..n
      PROVE  list[k] \in got' \cup broken
  <2>1. CASE k < i
    <3>1. i # 1 /\ k \in 1..i - 1
      BY <1>2, <2>1
    <3> QED
      BY <1>5, <3>1
  <2>2. CASE i <= k
    <3>1. list[k] \in now
      BY <1>2, <2>2
    <3> QED
      BY <1>5, <3>1
  <2> QED
    BY <1>2, <2>1, <2>2
<1>7. \/ n = Len(list) /\ audio' = AudioWithout(broken) /\ fan' = NoFan
      \/ /\ n >= i
         /\ fan' = [on |-> TRUE, list |-> list, next |-> n + 1, dead |-> broken,
                    drain |-> list[n]]
         /\ UNCHANGED audio
  BY <1>1
<1> HIDE DEF now, broken
<1>8. CASE n = Len(list) /\ audio' = AudioWithout(broken) /\ fan' = NoFan
  <2>1. audio' \in Seq(1..made) /\ Sockets(audio') = Sockets(audio) \ broken
    BY <1>2, <1>8, WithoutSockets DEF AudioInv
  <2>2. ~fan'.on
    BY <1>8 DEF NoFan
  <2>3. \A s \in Sockets(list) : conn[s] = "open" => s \in got'
    <3>1. ASSUME NEW k \in DOMAIN list, conn[list[k]] = "open"
          PROVE  list[k] \in got'
      BY <1>2, <1>4, <1>6, <1>8, <3>1
    <3> QED
      BY <3>1 DEF Sockets
  <2>4. AudioInv'
    BY <1>5, <1>8, <2>1, <2>2 DEF AudioInv, FanInv
  <2> QED
    BY <1>4, <2>1, <2>3, <2>4
<1>9. CASE /\ n >= i
           /\ fan' = [on |-> TRUE, list |-> list, next |-> n + 1, dead |-> broken,
                      drain |-> list[n]]
           /\ UNCHANGED audio
  <2>1. /\ fan'.on /\ fan'.list = list /\ fan'.next = n + 1 /\ fan'.dead = broken
        /\ fan'.drain = list[n]
    BY <1>9
  <2>2. n + 1 \in 2..Len(list) + 1 /\ (n + 1) - 1 = n
    BY <1>2, <1>9
  <2>3. FanInv'
    BY <1>4, <1>5, <1>6, <2>1, <2>2 DEF FanInv
  <2>4. AudioInv'
    BY <1>9, <2>3 DEF AudioInv
  <2> QED
    BY <1>9, <2>1, <2>4
<1> QED
  BY <1>7, <1>8, <1>9

LEMMA FanoutEffect ==
  ASSUME AudioInv, Fanout
  PROVE  /\ AudioInv'
         /\ \A s \in Sockets(audio) \ Sockets(audio') : conn[s] # "open"
<1>1. Sweep(audio, 1, {}) /\ UNCHANGED <<made, conn>>
  BY DEF Fanout
<1>2. audio \in Seq(1..made) /\ 1 \in 1..Len(audio) + 1
  BY DEF AudioInv
<1> QED
  BY <1>1, <1>2, SweepEffect

LEMMA ResumeEffect ==
  ASSUME AudioInv, FanoutResumes
  PROVE  /\ AudioInv'
         /\ \A s \in Sockets(audio) \ Sockets(audio') : conn[s] # "open"
         /\ ~fan'.on => \A s \in Sockets(fan.list) : conn[s] = "open" => s \in got'
<1> DEFINE dead == fan.dead \cup {s \in {fan.drain} : conn[s] # "open"}
<1>1. Sweep(fan.list, fan.next, dead) /\ UNCHANGED <<made, conn>> /\ fan.on
  BY DEF FanoutResumes, Walk
<1>2. /\ fan.list \in Seq(1..made)
      /\ fan.next \in 2..Len(fan.list) + 1
      /\ fan.drain = fan.list[fan.next - 1]
      /\ fan.dead \subseteq {s \in 1..made : conn[s] # "open"}
      /\ \A k \in 1..fan.next - 1 : fan.list[k] \in got \cup fan.dead
      /\ got \subseteq Socket
  BY <1>1 DEF AudioInv, FanInv
<1>3. /\ Len(fan.list) \in Nat /\ fan.next \in 1..Len(fan.list) + 1
      /\ fan.next - 1 \in 1..Len(fan.list)
      /\ \A k \in 1..Len(fan.list) : fan.list[k] \in 1..made
  <2> DEFINE l == fan.list
             k == fan.next
             n == Len(l)
             S == 1..made
  <2>1. l \in Seq(S)
    BY <1>2
  <2> HIDE DEF S, l
  <2>2. n \in Nat /\ \A j \in 1..n : l[j] \in S
    BY <2>1
  <2>3. k \in 2..n + 1
    BY <1>2 DEF l
  <2> HIDE DEF k, n
  <2>4. k \in 1..n + 1 /\ k - 1 \in 1..n
    BY <2>2, <2>3
  <2> QED
    BY <2>2, <2>4 DEF k, n, l, S
<1>4. dead \subseteq {s \in 1..made : conn[s] # "open"}
  BY <1>2, <1>3
<1>5. \A k \in 1..fan.next - 1 : fan.list[k] \in got \cup dead
  BY <1>2
<1> HIDE DEF dead
<1> QED
  BY <1>1, <1>2, <1>3, <1>4, <1>5, SweepEffect

\* A handler that ends takes its own socket from the list.
LEMMA EndEffect ==
  ASSUME AudioInv, NEW s \in Socket, End(s),
         handler \in [Socket -> {"none", "announce", "receive", "report", "over", "leaked"}]
  PROVE  /\ AudioInv'
         /\ \A t \in Sockets(audio) \ Sockets(audio') : handler'[t] = "over"
         /\ UNCHANGED fan
<1>1. /\ handler' = [handler EXCEPT ![s] = "over"]
      /\ conn' = [conn EXCEPT ![s] = "closed"]
      /\ audio' = audio \/ audio' = AudioWithout({s})
      /\ UNCHANGED <<made, fan, got>>
  BY DEF End
<1>2. made \in Nat /\ audio \in Seq(1..made) /\ made <= made'
  BY <1>1, RegistryAssumption DEF AudioInv
<1>3. audio' \in Seq(1..made) /\ Sockets(audio) \ Sockets(audio') \subseteq {s}
  BY <1>1, <1>2, WithoutSockets
<1>4. /\ conn' \in [Socket -> {"none", "open", "lost", "closed"}]
      /\ \A t \in 1..made : conn[t] # "open" => conn'[t] # "open"
  BY <1>1, RegistryAssumption DEF AudioInv, Socket
<1>5. AudioInv'
  BY <1>1, <1>2, <1>3, <1>4, FanKept DEF AudioInv
<1> QED
  BY <1>1, <1>3, <1>5

LEMMA ConnectEffect ==
  ASSUME AudioInv, NEW s \in Socket, ConnectCmd(s) \/ ConnectAudio(s)
  PROVE  AudioInv' /\ Sockets(audio) \subseteq Sockets(audio') /\ UNCHANGED fan
<1>1. /\ s = made + 1 /\ made' = s /\ conn' = [conn EXCEPT ![s] = "open"]
      /\ audio' = audio \/ audio' = Append(audio, s)
      /\ UNCHANGED <<fan, got>>
  BY DEF ConnectCmd, ConnectAudio
<1>2. made \in Nat /\ made' \in Nat /\ made <= made' /\ made' \in 0..MaxSocket
  BY <1>1, RegistryAssumption DEF AudioInv, Socket
<1>3. audio \in Seq(1..made')
  BY <1>2, MoreSockets DEF AudioInv
<1>4. audio' \in Seq(1..made') /\ Sockets(audio) \subseteq Sockets(audio')
  <2>1. s \in 1..made'
    BY <1>1, <1>2
  <2>2. CASE audio' = audio
    BY <1>3, <2>2
  <2>3. CASE audio' = Append(audio, s)
    <3>1. Append(audio, s) \in Seq(1..made')
      BY <1>3, <2>1
    <3>2. /\ DOMAIN audio \subseteq DOMAIN Append(audio, s)
          /\ \A i \in DOMAIN audio : Append(audio, s)[i] = audio[i]
      BY <1>3
    <3> QED
      BY <2>3, <3>1, <3>2 DEF Sockets
  <2> QED
    BY <1>1, <2>2, <2>3
<1>5. /\ conn' \in [Socket -> {"none", "open", "lost", "closed"}]
      /\ \A t \in 1..made : conn[t] # "open" => conn'[t] # "open"
  BY <1>1, <1>2, RegistryAssumption DEF AudioInv, Socket
<1> QED
  BY <1>1, <1>2, <1>4, <1>5, FanKept

\* Steps that only move a handler, the task closing a socket, or a connection on.
LEMMA MoveEffect ==
  ASSUME AudioInv, NEW s \in Socket,
         \/ Announced(s) \/ AnnounceRaises(s) \/ Report(s) \/ ReportEnds(s)
         \/ CloserRuns(s) \/ CloserEnds(s) \/ Lose(s)
  PROVE  AudioInv' /\ UNCHANGED <<audio, fan>>
<1>1. /\ UNCHANGED <<made, audio, fan, got>>
      /\ conn' = conn \/ \E to \in {"lost", "closed"} : conn' = [conn EXCEPT ![s] = to]
  BY DEF Announced, AnnounceRaises, Report, ReportEnds, At, CloserRuns, CloserEnds, Lose
<1>2. made \in Nat /\ made <= made'
  BY <1>1, RegistryAssumption DEF AudioInv
<1>3. /\ conn' \in [Socket -> {"none", "open", "lost", "closed"}]
      /\ \A t \in 1..made : conn[t] # "open" => conn'[t] # "open"
  <2>1. CASE conn' = conn
    BY <2>1 DEF AudioInv
  <2>2. ASSUME NEW to \in {"lost", "closed"}, conn' = [conn EXCEPT ![s] = to]
        PROVE  /\ conn' \in [Socket -> {"none", "open", "lost", "closed"}]
               /\ \A t \in 1..made : conn[t] # "open" => conn'[t] # "open"
    BY <2>2, RegistryAssumption DEF AudioInv, Socket
  <2> QED
    BY <1>1, <2>1, <2>2
<1> QED
  BY <1>1, <1>2, <1>3, FanKept DEF AudioInv

LEMMA AudioStep ==
  ASSUME CmdInv, AudioInv, [Next]_vars
  PROVE  /\ AudioInv'
         /\ \A s \in Sockets(audio) \ Sockets(audio') : conn[s] # "open" \/ handler'[s] = "over"
         /\ fan.on /\ ~fan'.on => \A s \in Sockets(fan.list) : conn[s] = "open" => s \in got'
<1>1. ASSUME NEW s \in Socket, ReceiveEnds(s) \/ ReportRaises(s)
      PROVE  /\ AudioInv'
             /\ \A t \in Sockets(audio) \ Sockets(audio') : handler'[t] = "over"
             /\ UNCHANGED fan
  BY <1>1, EndEffect DEF ReceiveEnds, ReportRaises, CmdInv, CmdTypes
<1>2. ASSUME NEW s \in Socket, ConnectCmd(s) \/ ConnectAudio(s)
      PROVE  AudioInv' /\ Sockets(audio) \subseteq Sockets(audio') /\ UNCHANGED fan
  BY <1>2, ConnectEffect
<1>3. ASSUME NEW s \in Socket,
             \/ Announced(s) \/ AnnounceRaises(s) \/ Report(s) \/ ReportEnds(s)
             \/ CloserRuns(s) \/ CloserEnds(s) \/ Lose(s)
      PROVE  AudioInv' /\ UNCHANGED <<audio, fan>>
  BY <1>3, MoveEffect
<1>4. CASE Fanout
  BY <1>4, FanoutEffect DEF Fanout
<1>5. CASE FanoutResumes
  BY <1>5, ResumeEffect
<1>6. CASE UNCHANGED vars
  BY <1>6 DEF vars, AudioInv, FanInv
<1>7. CASE \E s \in Socket : SocketStep(s)
  BY <1>1, <1>2, <1>3, <1>7 DEF SocketStep
<1> QED
  BY <1>4, <1>5, <1>6, <1>7 DEF Next

\* What holds of the audio list and of a fanout in progress, whoever comes or goes
\* while a send is suspended.
THEOREM AudioInvariant == Spec => []AudioInv
<1>1. CmdInv /\ AudioInv /\ [Next]_vars => AudioInv'
  BY AudioStep
<1>2. CmdInv /\ [Next]_vars => CmdInv'
  BY CmdStep
<1> QED
  BY <1>1, <1>2, CmdInit, AudioInit, PTL DEF Spec

\* The types of Registry.
THEOREM RegistryTypes == Spec => []RegistryTypeOK
<1> DEFINE CloserType == closer \in [Socket -> {"none", "called", "waiting", "over"}]
<1>1. Init => CloserType
  BY DEF Init
<1>2. CloserType /\ [Next]_vars => CloserType'
  <2> SUFFICES ASSUME CloserType, [Next]_vars
               PROVE  CloserType'
    OBVIOUS
  <2>1. ASSUME NEW s \in Socket, SocketStep(s)
        PROVE  closer' = closer \/ \E t, at : /\ at \in {"called", "waiting", "over"}
                                              /\ closer' = [closer EXCEPT ![t] = at]
    <3>1. CASE CloserRuns(s) \/ CloserEnds(s)
      BY <3>1 DEF CloserRuns, CloserEnds
    <3>2. CASE ConnectCmd(s)
      BY <3>2 DEF ConnectCmd, close_old
    <3> QED
      BY <2>1, <3>1, <3>2
      DEF SocketStep, ConnectAudio, ReceiveEnds, ReportRaises, End, Announced,
          AnnounceRaises, Report, ReportEnds, At, Lose
  <2> QED
    BY <2>1 DEF Next, Fanout, FanoutResumes, vars
<1>3. CmdInv /\ AudioInv /\ CloserType => RegistryTypeOK
  <2> SUFFICES ASSUME CmdInv, AudioInv, CloserType
               PROVE  RegistryTypeOK
    OBVIOUS
  <2>1. 1..made \subseteq Socket
    BY RegistryAssumption DEF AudioInv, Socket
  <2>2. audio \in Seq(Socket)
    BY <2>1, SeqMonotonic DEF AudioInv
  <2>3. fan.dead \cup Sockets(fan.list) \cup got \subseteq Socket
    <3>1. CASE fan.on
      <4>1. fan.list \in Seq(1..made) /\ fan.dead \subseteq 1..made /\ got \subseteq Socket
        BY <3>1 DEF AudioInv, FanInv
      <4>2. \A i \in DOMAIN fan.list : fan.list[i] \in 1..made
        BY <4>1, ElementOfSeq, LenProperties
      <4>3. Sockets(fan.list) \subseteq 1..made
        BY <4>2 DEF Sockets
      <4> QED
        BY <2>1, <4>1, <4>3
    <3>2. CASE ~fan.on
      <4>1. fan.dead = {} /\ fan.list = <<>> /\ got \subseteq Socket
        BY <3>2 DEF AudioInv, FanInv, NoFan
      <4>2. Sockets(fan.list) = {}
        BY <4>1 DEF Sockets
      <4> QED
        BY <4>1, <4>2
    <3> QED
      BY <3>1, <3>2
  <2> QED
    BY <2>2, <2>3 DEF RegistryTypeOK, CmdInv, CmdTypes, AudioInv
<1>4. CmdInv /\ [Next]_vars => CmdInv'
  BY CmdStep
<1> HIDE DEF CloserType
<1> QED
  BY <1>1, <1>2, <1>3, <1>4, CmdInit, AudioInvariant, PTL DEF Spec

\* Every socket that was in the list when a frame's fanout began and is still open
\* when it ends was sent the frame, for any number of sockets and of suspended sends.
THEOREM FramesReachAll == Spec => FrameReachesAll
<1>1. CmdInv /\ AudioInv /\ [Next]_vars
      => [fan.on /\ ~fan'.on =>
            \A s \in Sockets(fan.list) \cap Sockets(audio') :
              conn[s] = "open" => s \in got']_vars
  BY AudioStep
<1>2. CmdInv /\ [Next]_vars => CmdInv'
  BY CmdStep
<1> QED
  BY <1>1, <1>2, CmdInit, AudioInvariant, PTL DEF Spec, FrameReachesAll

\* An open socket leaves the list with its own handler only, however many sockets
\* of its address there are.
THEOREM OpenAudioNeverDropped == Spec => OpenAudioStays
<1>1. CmdInv /\ AudioInv /\ [Next]_vars
      => [\A s \in Sockets(audio) \ Sockets(audio') :
            conn[s] # "open" \/ handler'[s] = "over"]_vars
  BY AudioStep
<1>2. CmdInv /\ [Next]_vars => CmdInv'
  BY CmdStep
<1> QED
  BY <1>1, <1>2, CmdInit, AudioInvariant, PTL DEF Spec, OpenAudioStays
=============================================================================
