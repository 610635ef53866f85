--------------------------- MODULE PacketChannel ----------------------------
(***************************************************************************)
(* Channels to sockets that keep the boundaries of packets                 *)
(* (bridge/cockpitpacketchannel.c), with the part of CockpitChannel that   *)
(* holds back text which ends within a character.                          *)
(*                                                                         *)
(* The messages of the client are counted from when the channel is ready,  *)
(* before that the transport keeps them.  No caller has the input of these *)
(* channels throttled, and packets are not cut to "max-size".              *)
(***************************************************************************)
EXTENDS Naturals, Sequences, SequencesExt

CONSTANTS
    FromClient,  \* the largest number of messages of the client
    FromPeer,    \* the largest number of packets of the peer
    Pressure,    \* QUEUE_PRESSURE, in messages
    Text,        \* is the channel without "binary"
    Empty,       \* may the peer send packets without data
    Polite       \* does the peer end its output only after that of the channel

(* What an instance has to satisfy.                                       *)
PacketAssumption == Pressure \in Nat \ {0} /\ {Text, Empty, Polite} \subseteq BOOLEAN

VARIABLE p  \* the channel and its peer, a record with the fields
    \* state    "created", "connecting", "relaying", "closed"; problem: why it was closed
    \* insrc, outsrc    in_source and out_source; indone, outdone: in_done and out_done
    \* queue    out_queue; pressed: the pressure that was emitted last
    \* held     out_buffer of the channel: the packets that wait for the rest of a character
    \* told     what the client was sent: packets that make a message, "done", "close"
    \* wire     what comes from the peer; eof: it ends there; sent: all that the peer sent
    \* got      what the peer has received, shut: the output of the channel was shut down
    \* typed    the number of messages of the client, asked: the client closed the channel

vars == p

Init ==
    p = [state |-> "created", problem |-> "none", insrc |-> FALSE, outsrc |-> FALSE, indone |-> FALSE,
         outdone |-> FALSE, queue |-> <<>>, pressed |-> FALSE, held |-> <<>>, told |-> <<>>,
         wire |-> <<>>, eof |-> FALSE, sent |-> <<>>, got |-> <<>>, shut |-> FALSE, typed |-> 0, asked |-> FALSE]

\* A packet of the peer; cut: its text ends within a character.
Packet(n, cut) == [n |-> n, cut |-> cut]
Told(s, kind, body) == [s EXCEPT !.told = Append(@, [k |-> kind, body |-> body])]
Bodies(seq) == FoldLeft(LAMBDA acc, m : acc \o m.body, <<>>, seq)

(***************************************************************************)
(* The channel.                                                            *)
(***************************************************************************)
\* flush_buffer
Flush(s) == IF s.held = <<>> THEN s ELSE [Told(s, "msg", s.held) EXCEPT !.held = <<>>]

\* cockpit_channel_send: text that ends within a character waits for the next message.
ChannelSend(s, body) ==
    LET all == s.held \o body
    IN  IF Text /\ all # <<>> /\ Last(all).cut THEN [s EXCEPT !.held = all]
        ELSE [Told(s, "msg", all) EXCEPT !.held = <<>>]

\* cockpit_packet_channel_close and cockpit_channel_real_close
PacketClose(s, problem) ==
    IF s.state = "closed" THEN s
    ELSE Told(Flush([s EXCEPT !.state = "closed", !.problem = problem, !.insrc = FALSE, !.indone = TRUE,
                              !.outsrc = FALSE, !.outdone = TRUE]), "close", <<>>)

\* close_maybe
CloseMaybe(s) == IF s.indone /\ s.outdone THEN PacketClose(s, "none") ELSE s

\* cockpit_packet_channel_recv
Recv(s, m) ==
    [s EXCEPT !.queue = Append(@, m), !.outsrc = TRUE,
              !.pressed = IF Len(s.queue) < Pressure /\ Len(s.queue) + 1 >= Pressure THEN TRUE ELSE @]

\* The end of the input, in dispatch_input: the empty packet is sent all the same.
InputEnds(s) ==
    LET r == [Told(s, "done", <<>>) EXCEPT !.indone = TRUE, !.insrc = FALSE]
    IN  CloseMaybe(ChannelSend(r, <<>>))

\* A mutant of Written: the pressure is lifted only by an empty queue.
WrittenDry(s, n) ==
    [s EXCEPT !.got = @ \o SubSeq(s.queue, 1, n), !.queue = SubSeq(@, n + 1, Len(@)),
              !.pressed = IF n = Len(s.queue) THEN FALSE ELSE @]

\* The loop of dispatch_output, until nothing is left or the socket takes no more.
Written(s, n) ==
    [s EXCEPT !.got = @ \o SubSeq(s.queue, 1, n), !.queue = SubSeq(@, n + 1, Len(@)),
              !.pressed = IF Len(s.queue) >= Pressure /\ Len(s.queue) - n < Pressure THEN FALSE ELSE @]

\* The end of dispatch_output, with an empty queue: after "done" the output is shut down.
OutputEmpty(s, fails) ==
    LET r == [s EXCEPT !.outsrc = FALSE]
    IN  CASE ~s.outdone -> CloseMaybe(r)
          [] s.outdone /\ ~fails -> CloseMaybe([r EXCEPT !.shut = TRUE])
          [] OTHER -> PacketClose(r, "internal-error")

(***************************************************************************)
(* Actions.                                                                *)
(***************************************************************************)
\* cockpit_packet_channel_prepare, with packet_channel_connect.
Prepare(state) ==
    /\ p.state = "created"
    /\ p' = [p EXCEPT !.state = state, !.insrc = TRUE, !.outsrc = TRUE]

\* The same with options that are not valid, or without a connection.
PrepareFails(problem) ==
    /\ p.state = "created"
    /\ p' = PacketClose(p, problem)

Ready == p.state \in {"connecting", "relaying"}

ClientSends ==
    /\ Ready /\ ~p.outdone /\ p.typed < FromClient
    /\ p' = Recv([p EXCEPT !.typed = @ + 1], p.typed + 1)

\* cockpit_packet_channel_control
ClientDone ==
    /\ Ready /\ ~p.outdone
    /\ p' = [p EXCEPT !.outdone = TRUE, !.outsrc = TRUE]

ClientOptionsInvalid ==
    /\ Ready
    /\ p' = PacketClose(p, "protocol-error")

ClientCloses ==
    /\ Ready
    /\ p' = PacketClose([p EXCEPT !.asked = TRUE], "none")

\* dispatch_input
DispatchInput ==
    /\ p.insrc /\ p.state = "relaying" /\ (p.wire # <<>> \/ p.eof)
    /\ p' = IF p.wire = <<>> THEN InputEnds(p)
            ELSE LET r == [p EXCEPT !.wire = Tail(@)]
                 IN  IF Head(p.wire).n = 0 THEN InputEnds(r) ELSE ChannelSend(r, <<Head(p.wire)>>)

\* dispatch_connect
DispatchConnect(ok) ==
    /\ p.outsrc /\ p.state = "connecting"
    /\ p' = IF ok THEN [p EXCEPT !.state = "relaying"] ELSE PacketClose(p, "not-found")

\* dispatch_output: n messages are written.
DispatchOutput(n, fails) ==
    /\ p.outsrc /\ p.state = "relaying"
    /\ n \in 0..Len(p.queue) /\ (n = 0 => p.queue = <<>>) /\ (fails => p.outdone /\ n = Len(p.queue))
    /\ LET r == Written(p, n) IN p' = IF r.queue # <<>> THEN r ELSE OutputEmpty(r, fails)

\* close_with_errno, from dispatch_input or dispatch_output.
SocketError ==
    /\ p.state = "relaying" /\ (p.insrc \/ p.outsrc)
    /\ p' = PacketClose(p, "internal-error")

\* The time-out for the rest of a character.
HeldTimeout ==
    /\ p.held # <<>> /\ p.state # "closed"
    /\ p' = Flush(p)

\* The peer: packets, of which one may be empty (n = 0), and the end.
PeerSends(cut) ==
    /\ p.state = "relaying" /\ ~p.eof /\ Len(p.sent) < FromPeer
    /\ LET m == Packet(Len(p.sent) + 1, cut) IN p' = [p EXCEPT !.wire = Append(@, m), !.sent = Append(@, m)]
PeerSendsEmpty ==
    /\ Empty /\ p.state = "relaying" /\ ~p.eof /\ Len(p.wire) < FromPeer
    /\ p' = [p EXCEPT !.wire = Append(@, Packet(0, FALSE))]
PeerEnds ==
    /\ p.state = "relaying" /\ ~p.eof /\ (Polite => p.shut)
    /\ p' = [p EXCEPT !.eof = TRUE]

Next ==
    \/ \E state \in {"connecting", "relaying"} : Prepare(state)
    \/ \E problem \in {"protocol-error", "not-found", "access-denied", "internal-error"} : PrepareFails(problem)
    \/ ClientSends \/ ClientDone \/ ClientOptionsInvalid \/ ClientCloses
    \/ DispatchInput \/ SocketError \/ HeldTimeout
    \/ \E ok \in BOOLEAN : DispatchConnect(ok)
    \/ \E n \in 0..FromClient, fails \in BOOLEAN : DispatchOutput(n, fails)
    \/ \E cut \in {FALSE, Text} : PeerSends(cut)
    \/ PeerSendsEmpty \/ PeerEnds

Spec == Init /\ [][Next]_vars

(***************************************************************************)
(* Properties.                                                             *)
(***************************************************************************)
\* Whatever is still to be written, a message or the end, has the output source that writes it;
\* a closed channel has no source.
TypeOK ==
    /\ p.state = "closed" => ~p.insrc /\ ~p.outsrc
    /\ Ready => (p.insrc <=> ~p.indone)
    /\ Ready /\ (p.queue # <<>> \/ (p.outdone /\ ~p.shut)) => p.outsrc

\* The pressure that was emitted last is that of the queue, in both directions.
PressureExact == Ready => (p.pressed <=> Len(p.queue) >= Pressure)

\* The client is sent every packet with data once and in order, also text in pieces; however
\* the channel closes, nothing that was read is missing.
PacketsKept ==
    LET coming == SelectSeq(p.wire, LAMBDA m : m.n # 0)
    IN  /\ p.state # "closed" => Bodies(p.told) \o p.held \o coming = p.sent
        /\ p.state = "closed" => Bodies(p.told) \o coming = p.sent

\* A channel that closes without a problem, and not because the client did, has passed on every
\* message of the client and then the end.
DoneHonoured ==
    p.state = "closed" /\ p.problem = "none" /\ ~p.asked =>
        p.shut /\ p.got = [i \in 1..p.typed |-> i]

\* A channel whose client is done comes to an end: InputOver ~> ChannelOver.
InputOver == Ready /\ p.outdone
ChannelOver == p.state = "closed"

=============================================================================
