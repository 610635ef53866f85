------------------------------- MODULE Bridge -------------------------------
(***************************************************************************)
(* The Python bridge: one event loop in which the router, its in-process   *)
(* channels and its peers run.  Every action is one callback of that loop, *)
(* or one step of another process.                                         *)
(***************************************************************************)
EXTENDS Channel, Peer

vars == <<routerVars, chan, peerVars>>

TypeOK == RouterTypeOK /\ ChannelTypeOK /\ PeerTypeOK

Init == RouterInit /\ ChannelInit /\ PeerInit

-----------------------------------------------------------------------------
(* transport_control_received() of a "kill" for a group of channels, or    *)
(* for all: router.do_kill() goes through every endpoint.  A channel       *)
(* outside the group ignores it, a peer passes it on, and a frozen         *)
(* endpoint holds it back.                                                 *)
Kill(S) ==
    LET locals == live \cap Channels \cap S
        peers == live \cap Peers
        k == [chs |-> S, cmd |-> "kill"]
        after == [c \in Channels |-> IF c \in locals \ frozen
                                     THEN RunCalls(chan[c], <<k>>) ELSE chan[c]]
        gone == {c \in locals : Ends(c, after[c])}
    IN  /\ Reading
        /\ \A e \in (locals \cup peers) \cap frozen : Len(queue[e]) < MaxQueue
        /\ \A p \in peers \ frozen : Len(toPeer[p]) < MaxQueue
        /\ chan' = after
        /\ RemoveEndpoints(gone) /\ CloseView(gone, view) /\ CloseAfterLast(gone)
        /\ queue' = [e \in Endpoint |-> IF e \in (locals \cup peers) \cap frozen
                                        THEN Append(queue[e], k) ELSE queue[e]]
        /\ toPeer' = [p \in Peers |-> IF p \in peers \ frozen
                                      THEN Append(toPeer[p], k) ELSE toPeer[p]]
        /\ UNCHANGED <<frozen, session, stray, peer, fromPeer, remote>>

(* Router.eof_received(): do_close() of every endpoint, which no execution *)
(* queue holds back.  Peers are gone at once, channels when they can be.   *)
CloseEndpoints ==
    LET after == [c \in Channels |-> IF c \in live THEN DoClose(chan[c]) ELSE chan[c]]
        gone == {c \in live \cap Channels : Ends(c, after[c])} \cup (live \cap Peers)
    IN  /\ chan' = after
        /\ RemoveEndpoints(gone) /\ CloseView(gone, view) /\ Release(gone)
        /\ ForgetPeers(live \cap Peers)
        /\ UNCHANGED stray

(* EOF on stdin, which a later turn of the loop reads than the one that    *)
(* read the last "open": its task has begun.  The transport stays open     *)
(* while endpoints remain.                                                 *)
Eof ==
    /\ Reading
    /\ \A c \in Channels : chan[c].run # "new"
    /\ CloseEndpoints
    /\ eof' = TRUE
    /\ link' = IF live' = {} THEN "closing" ELSE link
    /\ UNCHANGED <<closed, done, exited>>

(* CockpitProtocol.close() of the router, then Router.do_closed(), which   *)
(* does what EOF would have done if there was none yet.                    *)
CloseRouter ==
    /\ closed' = TRUE
    /\ done' = TRUE
    /\ eof' = TRUE
    /\ IF eof THEN UNCHANGED <<tables, hold, view, stray, chan, peerVars>>
              ELSE CloseEndpoints
    /\ UNCHANGED exited

(* A frame the router cannot accept: CockpitProtocolError, for instance    *)
(* because the channel of an "open" is in use.  It may have been read      *)
(* together with an "open" whose task has not begun.                       *)
ProtocolError ==
    /\ Reading
    /\ CloseRouter
    /\ link' = "closing"

(* connection_lost() of the stdio transport.  When a write failed, it is   *)
(* due before the tasks of the "open"s read after that in the same block.  *)
LinkLost ==
    /\ link = "closing"
    /\ link' = "lost"
    /\ IF closed THEN UNCHANGED <<tables, hold, session, view, stray, chan, peerVars>>
                 ELSE CloseRouter

-----------------------------------------------------------------------------
FrameCommands == {"data", "done", "close", "options"}

ClientStep ==
    \/ \E c \in Channels :
          \/ OpenRefused(c) /\ UNCHANGED peerVars
          \/ \E cls \in Classes : OpenLocal(c, cls) /\ UNCHANGED peerVars
          \/ \E p \in Peers : OpenPeer(c, p) /\ UNCHANGED chan
          \/ \E cmd \in FrameCommands :
                \/ LocalFrame(c, cmd) /\ UNCHANGED peerVars
                \/ \E p \in Peers : PeerFrame(c, p, cmd) /\ UNCHANGED chan
    \/ \E S \in Groups \cup {Channels} : Kill(S)
    \/ \E p \in Peers : KillHost(p) /\ UNCHANGED chan
    \/ Eof
    \/ ProtocolError

ChannelStep(c) ==
    /\ \/ RunBegins(c) \/ Ready(c) \/ RunEnds(c) \/ RunDone(c) \/ TaskDone(c)
       \/ SocketConnected(c) \/ SocketData(c) \/ SocketGarbage(c)
       \/ SocketEof(c) \/ SocketLost(c)
    /\ UNCHANGED peerVars

PeerStep(p) ==
    /\ \/ PeerGone(p) \/ PeerInitReceived(p) \/ PeerUp(p) \/ RemoteRead(p)
       \/ \E c \in Channels : RemoteSay(p, c)
       \/ PeerReceived(p)
    /\ UNCHANGED chan

LinkStep ==
    \/ LinkLost
    \/ (Exit \/ LinkAbort) /\ UNCHANGED <<chan, peerVars>>

Next ==
    \/ ClientStep
    \/ \E c \in Channels : ChannelStep(c)
    \/ \E p \in Peers : PeerStep(p)
    \/ LinkStep

Spec == Init /\ [][Next]_vars

(* The event loop runs every callback that is due.  A cancelled run() gets *)
(* its CancelledError; the D-Bus calls that get_ready() and the handler    *)
(* tasks wait for are answered; an attempt to connect succeeds or fails; a *)
(* closed transport reports its loss, which for stdio means that the       *)
(* client reads what is still queued for it or goes away.  Nothing else is *)
(* assumed of the client, nor of a run() that was not cancelled, of peers, *)
(* or of the servers that sockets are connected to.                        *)
SetUp(c) == chan[c].cls = "tasks" /\ (Ready(c) \/ RunEnds(c)) /\ UNCHANGED peerVars
RunBeginsStep(c) == RunBegins(c) /\ UNCHANGED peerVars
CancelledEnds(c) == chan[c].run = "cancelled" /\ RunEnds(c) /\ UNCHANGED peerVars
TaskDoneStep(c) == TaskDone(c) /\ UNCHANGED peerVars
SocketLostStep(c) == chan[c].conn = "closing" /\ SocketLost(c) /\ UNCHANGED peerVars
SocketReadyStep(c) == chan[c].conn # "none" /\ Ready(c) /\ UNCHANGED peerVars
ConnectStep(c) ==
    chan[c].cls = "socket" /\ (SocketConnected(c) \/ RunEnds(c)) /\ UNCHANGED peerVars
ExitStep == Exit /\ UNCHANGED <<chan, peerVars>>

Fairness ==
    /\ \A c \in Channels : /\ WF_vars(SetUp(c)) /\ WF_vars(CancelledEnds(c))
                           /\ WF_vars(RunBeginsStep(c)) /\ WF_vars(TaskDoneStep(c))
                           /\ WF_vars(SocketLostStep(c)) /\ WF_vars(SocketReadyStep(c))
                           /\ WF_vars(ConnectStep(c))
    /\ WF_vars(LinkLost) /\ WF_vars(ExitStep)

FairSpec == Spec /\ Fairness

-----------------------------------------------------------------------------
(* The two tables of the router are inverse to each other: the endpoint    *)
(* that open_channels names for a channel is in endpoints and lists the    *)
(* channel, and no other endpoint does.  Closes, peer exits, kills and EOF *)
(* each update both tables in their own way (router.py 100, 171, 209).     *)
TablesAgree ==
    /\ \A e \in Endpoint : endpoints[e] = {c \in Channels : openChannels[c] = e}
    /\ \A e \in Endpoint : endpoints[e] # {} => e \in live

(* no_endpoints is set exactly when the endpoints dict is empty: it is the *)
(* event that communicate() waits for before the bridge exits.             *)
EventAgrees == noEndpoints <=> live = {}

(* The client counts a channel as open exactly while the router routes it: *)
(* no close is lost and no channel leaks, whichever of the two ends, a     *)
(* peer or EOF closed it.                                                  *)
ClientAgrees ==
    \A c \in Channels :
        openChannels[c] # NoEndpoint <=> view[c] \in {"open", "ready", "done"}

(* A channel object is shut down exactly when it is closing and its last   *)
(* task is gone (channel.py, close() and _task_done()): never twice, never *)
(* with a task running that has yet to answer, and never forgotten.        *)
ShutDownOnce ==
    \A c \in Channels :
        c \in live <=> chan[c].cls # "none" /\ ~Finished(chan[c])

(* Execution queues belong to endpoints the router knows, and a peer is    *)
(* frozen exactly until its start() is over, so that no call is held back  *)
(* for ever by a queue nobody will run.                                    *)
HeldBack ==
    /\ frozen \subseteq live
    /\ \A e \in Endpoint \ frozen : queue[e] = <<>>
    /\ \A p \in Peers : /\ p \in live <=> peer[p] # "absent"
                        /\ p \in frozen <=> peer[p] \in {"starting", "init"}

(* Freezing and thawing keep the order of calls: whatever is on its way to *)
(* the process of a peer comes after the "open" of its channel.            *)
Pipeline(p) == toPeer[p] \o queue[p]
OpenComesFirst(pipe, far) ==
    \A i \in 1..Len(pipe) : \A c \in pipe[i].chs :
        pipe[i].cmd \notin {"open", "kill"} =>
            far[c] # "unused" \/ \E j \in 1..(i - 1) : pipe[j] = call(c, "open")
OpenFirst == \A p \in Peers : OpenComesFirst(Pipeline(p), remote[p])

(* What a peer's process sends is about channels the router has given to   *)
(* that peer: Endpoint.send_channel_control() would raise KeyError for the *)
(* "close" of any other one.                                               *)
RepliesKnown ==
    \A p \in Peers : \A i \in 1..Len(fromPeer[p]) : fromPeer[p][i].ch \in endpoints[p]

(* communicate() returns only when nothing is left: no endpoint, no open   *)
(* channel, no peer, no task.                                              *)
ExitedClean ==
    exited => /\ live = {} /\ closed
              /\ \A c \in Channels : openChannels[c] = NoEndpoint /\ chan[c].tasks = 0
              /\ \A p \in Peers : peer[p] = "absent"

(* How the session ends: communicate() is told that it is over by the      *)
(* close of the router, which stops it reading, and it has waited for the  *)
(* endpoints when it returns.                                              *)
SessionAgrees ==
    /\ done => closed
    /\ closed => eof
    /\ exited => live = {} /\ closed

(* A channel is served by its own object or by a peer.  While an object    *)
(* waits to become ready the client has not heard of it, and the task that *)
(* will make it ready is counted.  Only an object with a transport of its  *)
(* own ever writes after the "close" of its channel.                       *)
ChannelAgrees(c) ==
    /\ openChannels[c] \in Peers \cup {c, NoEndpoint}
    /\ chan[c].cls \in Classes \cup {"none"}
    /\ chan[c].cls = "none" =>
          chan[c].tasks = 0 /\ chan[c].run = "none" /\ chan[c].conn = "none"
    /\ chan[c].conn # "none" => chan[c].cls = "socket"
    /\ chan[c].cls # "none" => view[c] # "unused" /\ openChannels[c] \notin Peers
    /\ c \in frozen /\ chan[c].cls # "socket" => view[c] = "open"
    /\ c \in stray => chan[c].cls = "socket"
    /\ chan[c].cls \in {"tasks", "async"} /\ Runs(chan[c]) => chan[c].tasks > 0

(* What the two ends of a peer's pipes know of each other, told from the   *)
(* calls on their way to its process (pipe), the frames on their way back  *)
(* (said), what the process has done with each channel (far), the channels *)
(* the router has given to the peer (chs) and the client's view (v).       *)
(* Every channel of chs was announced to the process, or one "open" for it *)
(* is on its way; the process has no other channels.                       *)
Announced(pipe, far, chs, v) ==
    /\ \A i \in 1..Len(pipe), c \in Channels :
          pipe[i] = call(c, "open") =>
              /\ c \in chs /\ v[c] = "open" /\ far[c] = "unused"
              /\ \A j \in 1..Len(pipe) : pipe[j] = call(c, "open") => j = i
    /\ \A c \in chs :
          far[c] # "unused" \/ \E i \in 1..Len(pipe) : pipe[i] = call(c, "open")
    /\ \A c \in Channels : /\ far[c] \in {"open", "ready", "done"} => c \in chs
                           /\ far[c] # "unused" => v[c] # "unused"

(* What the process says of a channel reaches the router in the order      *)
(* "ready", "done", "close", each once, and the client has not heard it.   *)
SaysInOrder(said, far, chs, v) ==
    \A i \in 1..Len(said) :
        /\ said[i].ch \in chs /\ far[said[i].ch] # "unused"
        /\ said[i].cmd = "ready" =>
              /\ v[said[i].ch] = "open"
              /\ \A j \in 1..(i - 1) : said[j].ch # said[i].ch
        /\ said[i].cmd = "done" =>
              /\ v[said[i].ch] \in {"open", "ready"}
              /\ far[said[i].ch] \in {"done", "closed"}
              /\ \A j \in 1..Len(said) : said[j] = said[i] => j = i
        /\ said[i].cmd = "close" =>
              /\ far[said[i].ch] = "closed"
              /\ \A j \in (i + 1)..Len(said) : said[j].ch # said[i].ch
HasSaid(said, far, v) ==
    \A c \in Channels :
        /\ far[c] = "open" =>
              v[c] = "open" /\ \A i \in 1..Len(said) : said[i].ch # c
        /\ far[c] = "ready" =>
              /\ v[c] \in {"open", "ready"}
              /\ \A i \in 1..Len(said) : said[i] # [ch |-> c, cmd |-> "done"]

BothEnds(pipe, said, far, chs, v) ==
    /\ Announced(pipe, far, chs, v) /\ OpenComesFirst(pipe, far)
    /\ SaysInOrder(said, far, chs, v) /\ HasSaid(said, far, v)
PeerAgrees(p) == BothEnds(Pipeline(p), fromPeer[p], remote[p], endpoints[p], view)

(* After EOF, a protocol error or a broken transport the bridge exits,     *)
(* unless a run task was cancelled before it began: nothing ever closes    *)
(* its channel, and communicate() waits for it in vain.                    *)
Abandoned == \E c \in Channels : chan[c].run = "dropped"
Exits == (eof \/ closed \/ link # "open") ~> (exited \/ Abandoned)

(* A channel whose run task had begun when it was cancelled is closed.     *)
CancelledCloses == \A c \in Channels : chan[c].run = "cancelled" ~> c \notin live

(* A closing channel that no run() holds open is closed.                   *)
ClosingCloses ==
    \A c \in Channels : (chan[c].cls = "tasks" /\ chan[c].closing) ~> c \notin live

(* The router, its endpoints and the client agree on which channels there  *)
(* are, in all the ways above, however closes, exits of peers, kills, EOF  *)
(* and frozen queues cross.                                                *)
RouterAgrees ==
    /\ TypeOK /\ TablesAgree /\ ClientAgrees /\ HeldBack /\ OpenFirst /\ RepliesKnown
    /\ ExitedClean /\ SessionAgrees
    /\ (\A c \in Channels : ChannelAgrees(c)) /\ (\A p \in Peers : PeerAgrees(p))

(* What is to end does: the bridge, cancelled channels and closing ones.   *)
BridgeEnds == Exits /\ CancelledCloses /\ ClosingCloses

(* The lifecycle the protocol promises for each channel.                   *)
Lifecycle == INSTANCE ChannelProtocol WITH Channels <- Channels, view <- view, stray <- stray
LifecycleSpec == Lifecycle!Spec
=============================================================================
