-------------------------------- MODULE Peer --------------------------------
(***************************************************************************)
(* Peer bridges (src/src/cockpit/peer.py, and SshPeer of remote.py): an    *)
(* endpoint that forwards the frames of its channels to another bridge     *)
(* process and back.  A peer is frozen until its init messages have been   *)
(* exchanged.  The other bridge, at the far end of two FIFO pipes, is      *)
(* modelled by the protocol it speaks.                                     *)
(***************************************************************************)
EXTENDS Router

VARIABLES
    peer,      \* "absent", or how far start() of the rule's current peer is
    toPeer,    \* frames written to the peer and not yet read by it
    fromPeer,  \* frames the peer has written and the router has not read
    remote     \* what the process of each peer has done with each channel

peerVars == <<peer, toPeer, fromPeer, remote>>

Reply == [ch : Channels, cmd : {"ready", "data", "done", "close"}]

NoneServed == [c \in Channels |-> "unused"]

PeerTypeOK ==
    /\ peer \in [Peers -> {"absent", "starting", "init", "up"}]
    /\ toPeer \in [Peers -> Seq(Call)]
    /\ fromPeer \in [Peers -> Seq(Reply)]
    /\ remote \in [Peers -> [Channels -> View]]

PeerInit ==
    /\ peer = [p \in Peers |-> "absent"]
    /\ toPeer = [p \in Peers |-> <<>>]
    /\ fromPeer = [p \in Peers |-> <<>>]
    /\ remote = [p \in Peers |-> NoneServed]

-----------------------------------------------------------------------------
(* do_channel_control(), do_channel_data() or do_kill() of peer p: held    *)
(* back while p is frozen, else written to its transport.                  *)
Forward(p, k) ==
    \/ Enqueue(p, k) /\ UNCHANGED toPeer
    \/ /\ p \notin frozen
       /\ Len(toPeer[p]) < MaxQueue
       /\ toPeer' = [toPeer EXCEPT ![p] = Append(@, k)]
       /\ UNCHANGED hold

(* The first channel of a rule starts its peer: Peer.__init__() freezes    *)
(* it, start_in_background() runs start(), and the "open" is held back.    *)
(* Later channels find it running.                                         *)
OpenPeer(c, p) ==
    /\ Reading /\ view[c] = "unused"
    /\ AddRoute(c, p)
    /\ view' = [view EXCEPT ![c] = "open"]
    /\ IF peer[p] = "absent"
       THEN /\ peer' = [peer EXCEPT ![p] = "starting"]
            /\ frozen' = frozen \cup {p}
            /\ queue' = [queue EXCEPT ![p] = <<call(c, "open")>>]
            /\ UNCHANGED toPeer
       ELSE Forward(p, call(c, "open")) /\ UNCHANGED peer
    /\ UNCHANGED <<session, link, stray, fromPeer, remote>>

(* A frame for a channel that peer p serves.                               *)
PeerFrame(c, p, cmd) ==
    /\ Reading /\ openChannels[c] = p
    /\ Forward(p, call(c, cmd))
    /\ UNCHANGED <<tables, session, link, view, stray, peer, fromPeer, remote>>

(* close() and do_closed() of every peer in S, for whatever reason; their  *)
(* transports stop reading, their rules forget them (done_callbacks).      *)
ForgetPeers(S) ==
    /\ peer' = [p \in Peers |-> IF p \in S THEN "absent" ELSE peer[p]]
    /\ toPeer' = [p \in Peers |-> IF p \in S THEN <<>> ELSE toPeer[p]]
    /\ fromPeer' = [p \in Peers |-> IF p \in S THEN <<>> ELSE fromPeer[p]]
    /\ remote' = [p \in Peers |-> IF p \in S THEN NoneServed ELSE remote[p]]

(* The peer never connects, exits, breaks the protocol, or its rule is     *)
(* shut down.                                                              *)
PeerGone(p) ==
    /\ peer[p] # "absent"
    /\ ForgetPeers({p})
    /\ ShutdownEndpoints({p})
    /\ UNCHANGED <<session, stray>>

(* A "kill" for the host of SshPeer p closes the connection to it.         *)
KillHost(p) ==
    /\ Reading /\ peer[p] # "absent"
    /\ \/ /\ Enqueue(p, [chs |-> {}, cmd |-> "killhost"])
          /\ UNCHANGED <<tables, session, link, view, stray, peerVars>>
       \/ /\ p \notin frozen
          /\ ForgetPeers({p})
          /\ ShutdownEndpoints({p})
          /\ UNCHANGED <<session, stray>>

(* transport_control_received() of "init" resolves init_future ...         *)
PeerInitReceived(p) ==
    /\ peer[p] = "starting"
    /\ peer' = [peer EXCEPT ![p] = "init"]
    /\ UNCHANGED <<routerVars, toPeer, fromPeer, remote>>

(* A mutant of PeerUp: the execution queue runs its last call first.       *)
PeerUpReversed(p) ==
    /\ peer[p] = "init"
    /\ peer' = [peer EXCEPT ![p] = "up"]
    /\ toPeer' = [toPeer EXCEPT ![p] =
          [i \in 1..Len(queue[p]) |-> queue[p][Len(queue[p]) + 1 - i]]]
    /\ Release({p})
    /\ UNCHANGED <<tables, session, link, view, stray, fromPeer, remote>>

(* ... and start() resumes later: it answers with "init" and thaws p.  A   *)
(* held back "kill" of its host closes p, and the calls run after it write *)
(* to a closed transport.                                                  *)
PeerUp(p) ==
    /\ peer[p] = "init"
    /\ \/ /\ \A i \in 1..Len(queue[p]) : queue[p][i].cmd # "killhost"
          /\ peer' = [peer EXCEPT ![p] = "up"]
          /\ toPeer' = [toPeer EXCEPT ![p] = @ \o queue[p]]
          /\ Release({p})
          /\ UNCHANGED <<tables, session, link, view, stray, fromPeer, remote>>
       \/ /\ \E i \in 1..Len(queue[p]) : queue[p][i].cmd = "killhost"
          /\ ForgetPeers({p})
          /\ ShutdownEndpoints({p})
          /\ UNCHANGED <<session, stray>>

-----------------------------------------------------------------------------
(* The other bridge.  It has a channel from the "open" it reads to the     *)
(* "close" it writes, and ignores frames for channels it does not have.    *)
Serving(p, c) == remote[p][c] \in {"open", "ready", "done"}

Say(p, c, cmd, became) ==
    /\ Len(fromPeer[p]) < MaxQueue
    /\ fromPeer' = [fromPeer EXCEPT ![p] = Append(@, [ch |-> c, cmd |-> cmd])]
    /\ remote' = [remote EXCEPT ![p][c] = became]

RemoteRead(p) ==
    /\ toPeer[p] # <<>>
    /\ toPeer' = [toPeer EXCEPT ![p] = Tail(@)]
    /\ remote' = [remote EXCEPT ![p] =
                    [c \in Channels |-> IF Head(toPeer[p]) = call(c, "open")
                                        THEN "open" ELSE @[c]]]
    /\ UNCHANGED <<routerVars, peer, fromPeer>>

RemoteSay(p, c) ==
    /\ \/ remote[p][c] = "open" /\ Say(p, c, "ready", "ready")
       \/ remote[p][c] = "ready" /\ Say(p, c, "data", "ready")
       \/ remote[p][c] = "ready" /\ Say(p, c, "done", "done")
       \/ Serving(p, c) /\ Say(p, c, "close", "closed")
    /\ UNCHANGED <<routerVars, peer, toPeer>>

(* channel_control_received() or channel_data_received() of peer p passes  *)
(* the frame on to the client.  A "close" also drops the channel.          *)
PeerReceived(p) ==
    /\ fromPeer[p] # <<>>
    /\ LET m == Head(fromPeer[p])
       IN  IF m.cmd = "close"
           THEN DropChannel(m.ch, p) /\ Write(m.ch, "closed")
           ELSE /\ Write(m.ch, IF m.cmd = "data" THEN view[m.ch] ELSE m.cmd)
                /\ UNCHANGED tables
    /\ fromPeer' = [fromPeer EXCEPT ![p] = Tail(@)]
    /\ UNCHANGED <<hold, session, link, peer, toPeer, remote>>
=============================================================================
