------------------------------ MODULE Registry ------------------------------
(***************************************************************************)
(* The connection registry (registry.py) with the handlers that fill it    *)
(* (cmd_handler, audio_handler) and the fanout that reads it.  A device    *)
(* may come back while the handler of its old socket still runs: the new   *)
(* one replaces it, a task closes the old one, and the old handler's       *)
(* clean-up comes later.  On /audio sockets stand for themselves, since    *)
(* several devices may come from one address.                              *)
(*                                                                         *)
(* ws.close() of a socket whose handler is in receive() first lets that    *)
(* receive() end; otherwise the socket counts as closed at once.           *)
(*                                                                         *)
(* Left out: _cmd_since and device_list, which only inform the web page,   *)
(* and the broadcaster's slot, which is in module LiveControl.             *)
(***************************************************************************)
EXTENDS Naturals, Sequences, FiniteSets

CONSTANTS
  Device,      \* device ids (on /audio: addresses)
  MaxSocket    \* bound: sockets ever made

ASSUME RegistryAssumption == MaxSocket \in Nat

Socket == 1..MaxSocket

VARIABLES
  made,     \* sockets so far; they are numbered as they are registered
  owner,    \* per socket its device
  chan,     \* per socket its channel
  conn,     \* "open"; "lost": the transport is closing; "closed": ws.closed
  handler,  \* per socket where its handler is suspended: in the announcement
            \* of a LIVE, in receive(), in _handle_report
  closer,   \* per socket: the _close_old task, created or awaiting ws.close()
  cmd,      \* _cmd: device to socket, 0 for none
  audio,    \* _audio_socks
  fan,      \* the fanout of one frame: the list it walks, the next place, the
            \* sockets found dead and the one it is suspended on
  got       \* the sockets that frame was sent to

vars == <<made, owner, chan, conn, handler, closer, cmd, audio, fan, got>>

Sockets(s) == {s[i] : i \in DOMAIN s}

NoFan == [on |-> FALSE, list |-> <<>>, next |-> 1, dead |-> {}, drain |-> 0]

RegistryTypeOK ==
  /\ made \in 0..MaxSocket
  /\ owner \in [Socket -> Device]
  /\ chan \in [Socket -> {"cmd", "audio"}]
  /\ conn \in [Socket -> {"none", "open", "lost", "closed"}]
  /\ handler \in [Socket -> {"none", "announce", "receive", "report", "over", "leaked"}]
  /\ closer \in [Socket -> {"none", "called", "waiting", "over"}]
  /\ cmd \in [Device -> 0..MaxSocket]
  /\ audio \in Seq(Socket)
  /\ fan.dead \cup Sockets(fan.list) \cup got \subseteq Socket

Init ==
  /\ made = 0
  /\ owner \in [Socket -> Device]     \* whoever will connect
  /\ chan \in [Socket -> {"cmd", "audio"}]
  /\ conn = [s \in Socket |-> "none"]
  /\ handler = [s \in Socket |-> "none"]
  /\ closer = [s \in Socket |-> "none"]
  /\ cmd = [d \in Device |-> 0]
  /\ audio = <<>>
  /\ fan = NoFan
  /\ got = {}

-----------------------------------------------------------------------------
(* Registration *)

no_close_old(old) == closer' = closer     \* mutant: the old socket is left alone

\* The task that closes a replaced socket.
close_old(old) ==
  closer' = IF old # 0 /\ conn[old] # "closed"
            THEN [closer EXCEPT ![old] = "called"] ELSE closer

\* add_cmd, then the announcement of a LIVE in progress, if there is one.
ConnectCmd(s) ==
  /\ s = made + 1 /\ chan[s] = "cmd"
  /\ made' = s
  /\ close_old(cmd[owner[s]])
  /\ cmd' = [cmd EXCEPT ![owner[s]] = s]
  /\ conn' = [conn EXCEPT ![s] = "open"]
  /\ \E at \in {"announce", "receive"} : handler' = [handler EXCEPT ![s] = at]
  /\ UNCHANGED <<owner, chan, audio, fan, got>>

\* add_audio
ConnectAudio(s) ==
  /\ s = made + 1 /\ chan[s] = "audio"
  /\ made' = s
  /\ audio' = Append(audio, s)
  /\ conn' = [conn EXCEPT ![s] = "open"]
  /\ handler' = [handler EXCEPT ![s] = "receive"]
  /\ UNCHANGED <<owner, chan, closer, cmd, fan, got>>

remove_cmd_any(s) ==     \* mutant: whatever socket the device has
  cmd' = [cmd EXCEPT ![owner[s]] = 0]
remove_cmd_other(s) ==     \* mutant: the test inverted
  cmd' = IF cmd[owner[s]] # s THEN [cmd EXCEPT ![owner[s]] = 0] ELSE cmd
remove_cmd(s) ==
  cmd' = IF cmd[owner[s]] = s THEN [cmd EXCEPT ![owner[s]] = 0] ELSE cmd

AudioWithoutOwners(S) ==     \* mutant: all sockets of their device
  SelectSeq(audio, LAMBDA t : \A s \in S : owner[t] # owner[s])

\* The audio sockets without those of S, in their order: SelectSeq, written by the
\* places of those kept so that it can be proved about.
AudioWithout(S) ==
  LET kept == {i \in DOMAIN audio : audio[i] \notin S}
  IN [n \in 1..Cardinality(kept) |->
        audio[CHOOSE i \in kept : Cardinality(kept \cap 1..i) = n]]

-----------------------------------------------------------------------------
(* Handlers *)

\* The finally block, after which aiohttp closes the socket for good.
End(s) ==
  /\ handler' = [handler EXCEPT ![s] = "over"]
  /\ conn' = [conn EXCEPT ![s] = "closed"]
  /\ IF chan[s] = "cmd" THEN remove_cmd(s) /\ UNCHANGED audio
                        ELSE audio' = AudioWithout({s}) /\ UNCHANGED cmd
  /\ UNCHANGED <<made, owner, chan, closer, fan, got>>

\* receive() tells of the end of the connection, or of the close() under way.
ReceiveEnds(s) ==
  /\ handler[s] = "receive"
  /\ conn[s] # "open" \/ closer[s] = "waiting"
  /\ End(s)

At(s, from, to) ==
  /\ handler[s] = from
  /\ handler' = [handler EXCEPT ![s] = to]
  /\ UNCHANGED <<made, owner, chan, conn, closer, cmd, audio, fan, got>>

Announced(s) == At(s, "announce", "receive")

\* The announcement raises, outside the try block.
AnnounceRaises(s) == conn[s] # "open" /\ At(s, "announce", "leaked")

\* A report that makes _handle_report await something, e.g. runtime.stop().  It
\* may have been read before the end of the connection was.
Report(s) == chan[s] = "cmd" /\ conn[s] # "closed" /\ At(s, "receive", "report")

ReportEnds(s) == At(s, "report", "receive")

ReportRaises(s) == handler[s] = "report" /\ End(s)

\* _close_old, up to its first suspension.
CloserRuns(s) ==
  /\ closer[s] = "called"
  /\ closer' = [closer EXCEPT ![s] = IF conn[s] = "closed" THEN "over" ELSE "waiting"]
  /\ conn' = IF handler[s] = "receive" THEN conn ELSE [conn EXCEPT ![s] = "closed"]
  /\ UNCHANGED <<made, owner, chan, handler, cmd, audio, fan, got>>

\* The receive() it broke into has returned; the peer answers, or 3 s pass.
CloserEnds(s) ==
  /\ closer[s] = "waiting"
  /\ conn[s] = "closed" \/ handler[s] # "receive"
  /\ closer' = [closer EXCEPT ![s] = "over"]
  /\ conn' = [conn EXCEPT ![s] = "closed"]
  /\ UNCHANGED <<made, owner, chan, handler, cmd, audio, fan, got>>

\* The peer goes away, or the heartbeat gives it up.
Lose(s) ==
  /\ conn[s] = "open"
  /\ conn' = [conn EXCEPT ![s] = "lost"]
  /\ UNCHANGED <<made, owner, chan, handler, closer, cmd, audio, fan, got>>

-----------------------------------------------------------------------------
(* make_fanout *)

WalkLive == audio         \* mutant: the list itself instead of a copy
Walk == fan.list

\* The frame goes to the sockets of list from place i on, until a send suspends
\* or all are done and the dead are removed.
Sweep(list, i, dead) ==
  \E n \in i - 1..Len(list) :
    LET now == {list[k] : k \in i..n}
        broken == dead \cup {s \in now : conn[s] # "open"}
    IN /\ got' = (IF i = 1 THEN {} ELSE got) \cup (now \ broken)
       /\ \/ /\ n = Len(list)
             /\ audio' = AudioWithout(broken)
             /\ fan' = NoFan
          \/ /\ n >= i /\ conn[list[n]] = "open"
             /\ fan' = [on |-> TRUE, list |-> list, next |-> n + 1, dead |-> broken,
                        drain |-> list[n]]
             /\ UNCHANGED audio

Fanout ==
  /\ ~fan.on
  /\ Sweep(audio, 1, {})
  /\ UNCHANGED <<made, owner, chan, conn, handler, closer, cmd>>

\* The suspended send returns, or raises because the connection broke.
FanoutResumes ==
  /\ fan.on
  /\ Sweep(Walk, fan.next, fan.dead \cup {s \in {fan.drain} : conn[s] # "open"})
  /\ UNCHANGED <<made, owner, chan, conn, handler, closer, cmd>>

-----------------------------------------------------------------------------

SocketStep(s) ==
  \/ ConnectCmd(s) \/ ConnectAudio(s)
  \/ ReceiveEnds(s) \/ Announced(s) \/ AnnounceRaises(s)
  \/ Report(s) \/ ReportEnds(s) \/ ReportRaises(s)
  \/ CloserRuns(s) \/ CloserEnds(s) \/ Lose(s)

Next == (\E s \in Socket : SocketStep(s)) \/ Fanout \/ FanoutResumes

Spec == Init /\ [][Next]_vars

\* The event loop runs every ready coroutine, what a report awaits ends, and the
\* time-outs pass.  ReceiveEnds is strong, since a handler reads only finitely many
\* messages that came before the end.  Devices promise nothing.
Fairness ==
  /\ \A s \in Socket : /\ WF_vars(Announced(s) \/ AnnounceRaises(s))
                       /\ WF_vars(ReportEnds(s) \/ ReportRaises(s))
                       /\ SF_vars(ReceiveEnds(s))
                       /\ WF_vars(CloserRuns(s))
                       /\ WF_vars(CloserEnds(s))
  /\ WF_vars(FanoutResumes)

FairSpec == Spec /\ Fairness

-----------------------------------------------------------------------------

Newest(s) == \A t \in s + 1..made : ~(chan[t] = "cmd" /\ owner[t] = owner[s])

\* The socket a device connected last is the one commands go to, as long as its
\* handler runs: neither the clean-up of an older handler nor the task that closes
\* the older socket takes it out, in whatever order they come.
NewestServed ==
  \A s \in 1..made :
    chan[s] = "cmd" /\ handler[s] # "over" /\ Newest(s) => cmd[owner[s]] = s

\* A frame reaches every socket that was there when its fanout began, unless it
\* broke or left: sockets that come, go or fail while a send is suspended make
\* it neither skip nor lose others.
FrameReachesAll ==
  [][fan.on /\ ~fan'.on =>
       \A s \in Sockets(fan.list) \cap Sockets(audio') : conn[s] = "open" => s \in got']_vars

\* An open /audio socket leaves the list with its own handler only, although
\* other sockets of the same address come and go.
OpenAudioStays ==
  [][\A s \in Sockets(audio) \ Sockets(audio') :
       conn[s] # "open" \/ handler'[s] = "over"]_vars

\* The handler of a replaced socket ends, wherever it was when the device came
\* back; no zombie keeps running.
ReplacedEnds ==
  \A s \in Socket :
    s <= made /\ chan[s] = "cmd" /\ ~Newest(s) ~> handler[s] \in {"over", "leaked"}

\* A socket whose connection is dead leaves the registry.  The exception is the
\* one whose announcement raised: no handler is left to remove it, and it stays
\* until its device comes back.
DeadLeave ==
  \A s \in Socket :
    conn[s] \in {"lost", "closed"}
      ~> s \notin Sockets(audio) /\ (cmd[owner[s]] # s \/ handler[s] = "leaked")
=============================================================================
