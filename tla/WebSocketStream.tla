-------------------------- MODULE WebSocketStream ---------------------------
(***************************************************************************)
(* Channels that are WebSocket clients (bridge/cockpitwebsocketstream.c).  *)
(* The socket is connected first, then a WebSocketConnection (module       *)
(* WebSocket) does the handshake; until that is done the transport keeps   *)
(* what the client sends.  A channel that is closed is let go when the     *)
(* handler returns, unless the connecting socket still has a reference.    *)
(*                                                                         *)
(* Flow control, which is that of PipeChannel and WebSocket, and the loss  *)
(* of the transport, after which nobody listens, are left out.             *)
(***************************************************************************)
EXTENDS Naturals, Sequences, SequencesExt

CONSTANTS
    FromClient,  \* the largest number of messages of the client
    FromServer,  \* the largest number of messages of the server
    Codes,       \* the codes of the close frames of the server
    Reasons,     \* the data of these frames
    Unruly,      \* may the client close the channel before it is ready, and send after "done"
    Kills        \* may the channel be killed with its group

(* What an instance has to satisfy.                                       *)
StreamAssumption == FromClient \in Nat /\ FromServer \in Nat

VARIABLE w  \* the channel, its connection and both ends, a record with the fields
    \* connect    "new", "pending" (the socket is connecting), "done"
    \* closed     sent_close, with the problem given; disposed: the channel was let go
    \* ready      the transport was thawed; frozen: what it keeps until then
    \* rdone      received_done; sdone: sent_done
    \* told       what the client was sent
    \* ws         the state of the connection; "shut": its stream is being closed
    \* hooked     the signals of the connection are connected
    \* sent, got  close_sent and close_received; timer: close_timeout
    \* code, data, err   the peer's close code and data, last_error_code
    \* outq, out  what is queued for the server, what was written
    \* wire, eof  what comes from the server, and whether it ends there
    \* typed, said, bad, asked   how many messages the client and the server sent, whether
    \*            the server sent a frame that is not valid, the client's orderly close
    \* early      calls of recv without an open connection

vars == w

Init ==
    w = [connect |-> "new", closed |-> FALSE, problem |-> "none", disposed |-> FALSE,
         ready |-> FALSE, frozen |-> <<>>, rdone |-> FALSE, sdone |-> FALSE, told |-> <<>>,
         ws |-> "none", hooked |-> FALSE, sent |-> FALSE, got |-> FALSE, timer |-> FALSE,
         code |-> "0", data |-> "", err |-> "0", outq |-> <<>>, out |-> <<>>,
         wire |-> <<>>, eof |-> FALSE, typed |-> 0, said |-> 0, bad |-> FALSE, asked |-> FALSE, early |-> FALSE]

Msg(i) == [k |-> "msg", n |-> i]
Ctl(k) == [k |-> k, n |-> 0]
Messages(seq) == SelectSeq(seq, LAMBDA m : m.k = "msg")
Tell(s, k) == [s EXCEPT !.told = Append(@, Ctl(k))]

(***************************************************************************)
(* Closing.                                                                *)
(***************************************************************************)
\* on_web_socket_closing: cockpit_channel_control with "done", which is sent once.
OnClosing(s) == IF s.hooked /\ ~s.sdone THEN [Tell(s, "done") EXCEPT !.sdone = TRUE] ELSE s

\* web_socket_connection_close: a connection without a handshake has its stream closed.
WsClose(s) ==
    LET r == OnClosing(s)
    IN  IF s.ws = "open"
           THEN [r EXCEPT !.outq = Append(@, Ctl("close")), !.ws = "closing", !.sent = TRUE, !.timer = TRUE]
           ELSE [r EXCEPT !.ws = "shut"]

EndWs(s) == IF s.ws \in {"connecting", "open"} THEN WsClose(s) ELSE s

\* cockpit_channel_real_close
RealClose(s, problem) ==
    IF s.closed THEN s ELSE [Tell(s, "close") EXCEPT !.closed = TRUE, !.problem = problem]

\* cockpit_web_socket_stream_close
StreamClose(s, problem) == RealClose(EndWs(s), problem)

\* web_socket_connection_dispose, when its last reference goes: what is queued is not written.
WsDispose(s) == IF s.ws \in {"none", "closed"} THEN s ELSE [s EXCEPT !.ws = "shut", !.outq = <<>>]

\* cockpit_web_socket_stream_dispose
Dispose(s) == WsDispose([EndWs(s) EXCEPT !.hooked = FALSE, !.disposed = TRUE])

\* The end of a handler: a closed channel is let go.
Settle(s) == IF s.closed /\ ~s.disposed /\ s.connect # "pending" THEN Dispose(s) ELSE s

(***************************************************************************)
(* Messages of the client.                                                 *)
(***************************************************************************)
\* process_recv and cockpit_web_socket_stream_recv
Recv(s, m) ==
    CASE s.rdone -> StreamClose(s, "protocol-error")
      [] ~s.rdone /\ s.ws \in {"none", "connecting"} -> [s EXCEPT !.early = TRUE]
      [] ~s.rdone /\ s.ws = "open" -> [s EXCEPT !.outq = Append(@, m)]
      [] OTHER -> s

\* cockpit_web_socket_stream_control, "done"
Control(s) == IF s.ws = "open" THEN WsClose(s) ELSE s

\* process_control: a second "done" is an error, and is handled all the same.
ProcessDone(s) == Control(IF s.rdone THEN StreamClose(s, "protocol-error") ELSE [s EXCEPT !.rdone = TRUE])

\* What the channel does with a message of the client; a closed one is not connected.
Process(s, m) ==
    CASE s.closed -> s
      [] ~s.closed /\ m.k = "msg" -> Recv(s, m)
      [] ~s.closed /\ m.k = "done" -> ProcessDone(s)
      [] OTHER -> StreamClose(s, "none")

\* A mutant of Thaw: the latest message first.
ThawBack(s) == FoldLeft(Process, [s EXCEPT !.ready = TRUE, !.frozen = <<>>], Reverse(s.frozen))

\* cockpit_transport_thaw
Thaw(s) == FoldLeft(Process, [s EXCEPT !.ready = TRUE, !.frozen = <<>>], s.frozen)

(***************************************************************************)
(* Signals of the connection.                                              *)
(***************************************************************************)
\* on_web_socket_open and cockpit_channel_ready: "ready" follows what was thawed.
OnOpen(s) == Tell(Thaw(Tell([s EXCEPT !.ws = "open"], "response")), "ready")

\* on_web_socket_message
OnMessage(s, m) == [s EXCEPT !.told = Append(@, m)]

\* on_web_socket_error
OnError(s, code) == [s EXCEPT !.err = code]

\* The problem of on_web_socket_close: what the server says, or a problem for its code, or for
\* the code of the last error.
CloseProblem(s) ==
    LET code == IF s.code = "0" THEN s.err ELSE s.code
    IN  CASE s.code \in {"normal", "going-away"} -> "none"
          [] s.code \notin {"normal", "going-away"} /\ s.data # "" -> s.data
          [] s.data = "" /\ code \in {"no-status", "abnormal"} -> "disconnected"
          [] s.data = "" /\ code \in {"protocol", "unsupported-data", "bad-data", "policy", "too-big", "tls"} ->
                "protocol-error"
          [] s.data = "" /\ code = "no-extension" -> "unsupported"
          [] OTHER -> "internal-error"

\* on_web_socket_close
OnClose(s) == StreamClose(s, CloseProblem(s))

(***************************************************************************)
(* Actions.                                                                *)
(***************************************************************************)
\* cockpit_web_socket_stream_prepare
Prepare ==
    /\ w.connect = "new" /\ ~w.closed
    /\ w' = [w EXCEPT !.connect = "pending"]

\* The same with options that are not valid (module Connect), or without a path.
PrepareFails ==
    /\ w.connect = "new" /\ ~w.closed
    /\ w' = Settle(StreamClose([w EXCEPT !.connect = "done"], "protocol-error"))

\* on_socket_connect, without a connection or with "protocols" that are not valid.
ConnectFails(problem) ==
    /\ w.connect = "pending"
    /\ w' = Settle(StreamClose([w EXCEPT !.connect = "done"], problem))

\* on_socket_connect, with "headers" that are not valid: no signal is connected yet.
HeadersInvalid ==
    /\ w.connect = "pending"
    /\ w' = Settle(StreamClose([w EXCEPT !.connect = "done", !.ws = "connecting"], "protocol-error"))

\* on_socket_connect, also for a channel that was closed in the meantime.
Connected ==
    /\ w.connect = "pending"
    /\ w' = Settle([w EXCEPT !.connect = "done", !.ws = "connecting", !.hooked = TRUE])

\* The client sends something, which the transport keeps until the channel is ready.
ClientSends(m) ==
    /\ w.connect # "new" /\ ~w.closed
    /\ LET r == [w EXCEPT !.typed = IF m.k = "msg" THEN @ + 1 ELSE @, !.asked = @ \/ m.k = "close"]
       IN  w' = IF w.ready THEN Settle(Process(r, m)) ELSE [r EXCEPT !.frozen = Append(@, m)]

IsDone == w.rdone \/ Contains(w.frozen, Ctl("done"))
ClientMessage ==
    /\ w.typed < FromClient /\ ~w.asked /\ (Unruly \/ ~IsDone)
    /\ ClientSends(Msg(w.typed + 1))
ClientDone == ~w.asked /\ ~Contains(w.frozen, Ctl("done")) /\ (Unruly \/ ~IsDone) /\ ClientSends(Ctl("done"))
ClientCloses == ~w.asked /\ (Unruly \/ w.ready) /\ ClientSends(Ctl("close"))

\* process_kill of the router, which the transport does not keep.
Kill ==
    /\ Kills /\ ~w.closed
    /\ w' = Settle(StreamClose(w, "terminated"))

\* on_web_socket_output: one frame is written.
WriteFrame ==
    /\ w.ws \in {"open", "closing"} /\ w.outq # <<>>
    /\ w' = [w EXCEPT !.out = Append(@, Head(w.outq)), !.outq = Tail(@)]

Reading == w.ws \in {"connecting", "open", "closing"}

\* receive_close_rfc6455: the answer to a close frame, or a close frame that is answered.
ReceiveClose(s, f) ==
    LET r == [s EXCEPT !.got = TRUE, !.code = f.code, !.data = f.data]
    IN  IF s.sent THEN r ELSE WsClose(r)

\* A frame that is not valid: the error is remembered and a close frame goes first.
BadFrame(s) ==
    LET r == OnError(s, "bad-data")
    IN  IF s.ws = "open" THEN [r EXCEPT !.outq = <<Ctl("close")>> \o @, !.ws = "closing", !.sent = TRUE] ELSE r

\* parse_handshake_response and process_frame_rfc6455: the next part of the input.
ReadFrame ==
    /\ Reading /\ w.wire # <<>>
    /\ LET f == Head(w.wire)
           s == [w EXCEPT !.wire = Tail(@)]
       IN  w' = Settle(CASE f.k = "101" -> OnOpen(s)
                         [] f.k = "404" -> [OnError(s, "protocol") EXCEPT !.ws = "shut"]
                         [] f.k = "close" -> ReceiveClose(s, f)
                         [] f.k = "bad" -> BadFrame(s)
                         [] f.k = "msg" -> IF s.got THEN s ELSE OnMessage(s, f))

\* The end of the input.
ReadEnd ==
    /\ Reading /\ w.wire = <<>> /\ w.eof
    /\ w' = [w EXCEPT !.ws = "shut"]

\* _web_socket_connection_error_and_close, for a connection that fails.
ConnectionError ==
    /\ Reading
    /\ w' = [OnError(w, "0") EXCEPT !.ws = "shut", !.wire = <<>>, !.eof = TRUE]

\* The same for TLS.
TlsError ==
    /\ w.ws = "connecting" /\ w.wire = <<>>
    /\ w' = [OnError(w, "0") EXCEPT !.ws = "shut", !.eof = TRUE, !.code = "tls", !.data = "unknown-hostkey"]

\* on_timeout_close_io, five seconds after a close frame was sent.
CloseTimeout ==
    /\ w.timer /\ w.ws = "closing"
    /\ w' = [w EXCEPT !.ws = "shut"]

\* on_iostream_closed
IoClosed ==
    /\ w.ws = "shut"
    /\ LET r == [w EXCEPT !.ws = "closed"] IN w' = IF w.hooked THEN Settle(OnClose(r)) ELSE r

\* The server answers the handshake, sends messages, and ends the connection.
Answered == w.wire # <<>> \/ w.ws \in {"open", "closing"} \/ w.got
Ended == w.eof \/ w.got \/ \E i \in DOMAIN w.wire : w.wire[i].k \in {"close", "404"}
ServerHandshake(k) ==
    /\ w.ws = "connecting" /\ w.wire = <<>> /\ ~w.eof
    /\ w' = [w EXCEPT !.wire = <<Ctl(k)>>]
ServerSends ==
    /\ Reading /\ Answered /\ ~Ended /\ w.said < FromServer
    /\ w' = [w EXCEPT !.said = @ + 1, !.wire = Append(@, Msg(w.said + 1))]
ServerErrs ==
    /\ Reading /\ Answered /\ ~Ended /\ ~w.bad
    /\ w' = [w EXCEPT !.bad = TRUE, !.wire = Append(@, Ctl("bad"))]
ServerCloses(code, data) ==
    /\ Reading /\ Answered /\ ~Ended
    /\ w' = [w EXCEPT !.wire = Append(@, [k |-> "close", n |-> 0, code |-> code, data |-> data])]
ServerEnds ==
    /\ Reading /\ ~w.eof
    /\ w' = [w EXCEPT !.eof = TRUE]

Next ==
    \/ Prepare \/ PrepareFails \/ HeadersInvalid \/ Connected
    \/ \E problem \in {"not-found", "protocol-error"} : ConnectFails(problem)
    \/ ClientMessage \/ ClientDone \/ ClientCloses \/ Kill
    \/ WriteFrame \/ ReadFrame \/ ReadEnd \/ ConnectionError \/ TlsError \/ CloseTimeout \/ IoClosed
    \/ \E k \in {"101", "404"} : ServerHandshake(k)
    \/ ServerSends \/ ServerErrs
    \/ \E code \in Codes, data \in Reasons : ServerCloses(code, data)
    \/ ServerEnds

Spec == Init /\ [][Next]_vars

(***************************************************************************)
(* Properties.                                                             *)
(***************************************************************************)
\* A channel that was let go was closed, has no connecting socket that refers to it, and no
\* signals of a connection.
TypeOK ==
    /\ w.ws \in {"none", "connecting", "open", "closing", "shut", "closed"}
    /\ w.disposed => w.closed /\ w.connect # "pending" /\ ~w.hooked
    /\ w.hooked => w.ws # "none" /\ w.connect = "done"

\* The connection does not outlive its channel: nothing more is read from the server.
Released == w.disposed => w.ws \in {"none", "shut", "closed"}

\* recv is called with a handshake done ("Should never be called before
\* cockpit_channel_ready()"), also for what was sent before the channel was ready.
RecvReady == ~w.early

\* As long as both ends are open every message of the client is kept, queued or written, in the
\* order in which it was sent.
NothingDropped ==
    ~w.closed /\ w.ws \in {"none", "connecting", "open"} =>
        Messages(w.out) \o Messages(w.outq) \o Messages(w.frozen) = [i \in 1..w.typed |-> Msg(i)]

\* A channel that ends without a problem, and not because the client closed it, was ended by the
\* server's close frame, and the client has every message that came before.
CompleteEnd ==
    w.closed /\ w.problem = "none" /\ ~w.asked =>
        /\ w.got /\ w.code \in {"normal", "going-away"}
        /\ Messages(w.told) = [i \in 1..w.said |-> Msg(i)]

\* Nothing follows the "close" message of a channel, if the client waits for "ready" before it
\* closes, sends nothing after "done", and nobody kills the channel.
CloseLast == \A i \in DOMAIN w.told : w.told[i].k = "close" => i = Len(w.told)

\* A connection that the server ends, or to which a close frame was sent, ends the channel:
\* ConnectionOver ~> ChannelOver.
ConnectionOver == w.ws # "none" /\ (w.eof \/ w.timer)
ChannelOver == w.closed

=============================================================================
