----------------------------- MODULE WebSocket ------------------------------
(***************************************************************************)
(* WebSocketConnection (src/src/websocket): the two ends of one connection,*)
(* each running this code in its own process, with a bounded byte stream   *)
(* in either direction.  An end can also be foreign: a browser or a server *)
(* that sends fragments, invalid text or oversized frames.                 *)
(*                                                                         *)
(* A frame is what was queued with one call of _web_socket_connection_     *)
(* queue().  The HTTP requests of the handshake are frames, too.  Masking, *)
(* the length encoding and close codes are left out.                       *)
(***************************************************************************)
EXTENDS Integers, Sequences, SequencesExt

CONSTANTS
    QueuePressure,  \* frames queued at which back pressure is applied
    WireSize,       \* frames the operating system buffers per direction
    MaxSaid,        \* bound on the messages each end sends
    Protocols,      \* the lists of subprotocols an end can be configured with
    Faults,         \* what can go wrong in this instance
    Foreign         \* the ends that are not this code, but a browser or a server

Side == {"client", "server"}
Peer(s) == IF s = "client" THEN "server" ELSE "client"

(* What an instance has to satisfy.                                       *)
SocketAssumption ==
    /\ QueuePressure \in Nat \ {0} /\ WireSize \in Nat \ {0} /\ MaxSaid \in Nat
    /\ Faults \subseteq {"timeout", "io", "refused", "throttle", "connect"}
    /\ Foreign \subseteq Side /\ Protocols \subseteq Seq(STRING)

Ops == {"hello", "badline", "badheaders", "put", "accept", "refuse", "text", "first", "middle", "end", "badtext",
        "toobig", "badcontrol", "ping", "pong", "close"}
Frame == [op : Ops, n : Nat, last : BOOLEAN, sent : BOOLEAN, list : Seq(STRING)]
frame(op, n, last) == [op |-> op, n |-> n, last |-> last, sent |-> FALSE, list |-> <<>>]

VARIABLES
    ws,    \* the private state of either connection object
    wire   \* frames written by an end and not yet read by the other

vars == <<ws, wire>>

(* stream, open, closed: io_stream is set, io_open, io_closed              *)
(* up: handshake_done       reading, writing: input_source, output_source  *)
(* timer: close_timeout     shut: the writing half of the socket is shut   *)
(* protocols, chosen: the subprotocols configured (<<>> is NULL) and chosen *)
(* partial: message_data    out: outgoing      pressed: pressure was last  *)
(* signalled on             closes: emissions of the "close" signal        *)
(* said: frames the application queued       msgs, got: messages queued and *)
(* the last one delivered                    gap: one of those went missing *)
WsState ==
    [server : BOOLEAN, stream : BOOLEAN, open : BOOLEAN, closed : BOOLEAN, up : BOOLEAN,
     reading : BOOLEAN, writing : BOOLEAN, timer : BOOLEAN, shut : BOOLEAN,
     closeSent : BOOLEAN, closeReceived : BOOLEAN, dirty : BOOLEAN, partial : BOOLEAN,
     out : Seq(Frame), pressed : BOOLEAN, closes : Nat,
     said : Nat, msgs : Nat, got : Nat, gap : BOOLEAN,
     protocols : Seq(STRING), chosen : Seq(STRING)]

(* The types, and what is written fits the buffers of the socket.          *)
TypeOK ==
    /\ ws \in [Side -> WsState] /\ wire \in [Side -> Seq(Frame)]
    /\ \A s \in Side : Len(wire[s]) <= WireSize

(* The server has been given its stream, the client is yet to connect.     *)
Init ==
    /\ \E lists \in [Side -> Protocols] : ws = [s \in Side |->
         [server |-> s = "server", stream |-> s = "server", open |-> s = "server",
          closed |-> FALSE, up |-> FALSE, reading |-> s = "server", writing |-> FALSE,
          timer |-> FALSE, shut |-> FALSE, closeSent |-> FALSE, closeReceived |-> FALSE,
          dirty |-> FALSE, partial |-> FALSE, out |-> <<>>, pressed |-> FALSE,
          closes |-> 0, said |-> 0, msgs |-> 0, got |-> 0, gap |-> FALSE,
          protocols |-> lists[s], chosen |-> <<>>]]
    /\ wire = [s \in Side |-> <<>>]

-----------------------------------------------------------------------------
(* web_socket_connection_get_ready_state()                                 *)
ReadyState(r) ==
    CASE r.closed -> "closed"
      [] ~r.closed /\ ((r.stream /\ ~r.open) \/ r.closeSent) -> "closing"
      [] ~r.closed /\ ~(r.stream /\ ~r.open) /\ ~r.closeSent /\ r.up -> "open"
      [] OTHER -> "connecting"

(* close_io_stream()                                                       *)
CloseIo(r) ==
    IF ~r.stream /\ ~r.closed
    THEN [r EXCEPT !.timer = FALSE, !.closed = TRUE, !.closes = @ + 1]
    ELSE IF r.open
    THEN [r EXCEPT !.timer = FALSE, !.open = FALSE, !.reading = FALSE, !.writing = FALSE]
    ELSE [r EXCEPT !.timer = FALSE]

(* shutdown_wr_io_stream()                                                 *)
ShutWr(r) == [r EXCEPT !.writing = FALSE, !.shut = TRUE]

(* An urgent frame goes to the front, but never into a frame half sent.    *)
Insert(q, f, urgent) ==
    IF ~urgent THEN Append(q, f)
    ELSE IF q # <<>> /\ Head(q).sent THEN <<Head(q), f>> \o Tail(q)
    ELSE <<f>> \o q

(* A mutant of Queue: frames are still taken after the close frame.        *)
QueueAfterClose(r, f, urgent) ==
    [r EXCEPT !.out = Insert(@, f, urgent), !.writing = TRUE,
              !.pressed = @ \/ Len(r.out) + 1 = QueuePressure]

(* _web_socket_connection_queue(); after a close frame, nothing is taken.  *)
Queue(r, f, urgent) ==
    IF r.closeSent THEN r
    ELSE [r EXCEPT !.out = Insert(@, f, urgent), !.writing = TRUE,
                   !.pressed = @ \/ Len(r.out) + 1 = QueuePressure]

(* send_close_rfc6455()                                                    *)
SendClose(r, urgent, last) ==
    [Queue(r, frame("close", 0, last), urgent) EXCEPT !.closeSent = TRUE]

(* _web_socket_connection_error_and_close()                                *)
ErrorAndClose(r, prejudice) ==
    LET r1 == [r EXCEPT !.dirty = TRUE]
    IN  IF ReadyState(r) = "closed" THEN r
        ELSE IF prejudice \/ ~r.up THEN CloseIo(r1)
        ELSE IF ReadyState(r) = "closing" THEN r1
        ELSE SendClose(r1, TRUE, TRUE)

(* web_socket_connection_close(), with the default "closing" handler.      *)
Close(r) ==
    IF r.up THEN [SendClose(r, FALSE, r.server /\ r.closeReceived) EXCEPT !.timer = TRUE]
    ELSE CloseIo(r)

(* receive_close_rfc6455()                                                 *)
ReceiveClose(r0) ==
    LET r == [r0 EXCEPT !.closeReceived = TRUE]
    IN  IF ~r.closeSent THEN Close(r)
        ELSE IF r.server THEN CloseIo(ShutWr(r))
        ELSE ShutWr(r)

(* The "message" signal.                                                   *)
Deliver(r, f) ==
    [r EXCEPT !.partial = FALSE, !.got = f.n, !.gap = @ \/ (f.n # r.got + 1 /\ ~r.dirty)]

(* Whether the fragments come in order.                                    *)
Misplaced(r, f) ==
    IF r.partial THEN f.op \in {"first", "text", "badtext"} ELSE f.op \in {"middle", "end"}

(* process_contents_rfc6455()                                              *)
Contents(r, f) ==
    CASE f.op = "badcontrol" -> ErrorAndClose(r, FALSE)
      [] f.op = "close" -> ReceiveClose(r)
      [] f.op = "ping" -> Queue(r, frame("pong", 0, FALSE), TRUE)
      [] f.op = "pong" -> r
      [] OTHER ->
           IF r.closeReceived THEN r
           ELSE IF Misplaced(r, f) THEN ErrorAndClose(r, FALSE)
           ELSE IF f.op = "badtext" THEN ErrorAndClose([r EXCEPT !.partial = FALSE], FALSE)
           ELSE IF f.op \in {"text", "end"} THEN Deliver(r, f)
           ELSE [r EXCEPT !.partial = TRUE]

(* process_frame_rfc6455(): an oversized frame ends the loop for good.     *)
ProcessFrame(r, f) ==
    IF f.op = "toobig" THEN [ErrorAndClose(r, TRUE) EXCEPT !.reading = FALSE]
    ELSE Contents(r, f)

FirstOf(list) == IF list = <<>> THEN <<>> ELSE <<Head(list)>>

(* _web_socket_connection_choose_protocol(): what the peer names first of  *)
(* the list protocols, where an empty list stands for NULL on either side. *)
Choose(protocols, value) ==
    LET agreed == SelectSeq(value, LAMBDA v : protocols = <<>> \/ v \in Range(protocols))
    IN  IF value = <<>> THEN [ok |-> TRUE, list |-> FirstOf(protocols)]
        ELSE [ok |-> agreed # <<>>, list |-> FirstOf(agreed)]

(* respond_handshake_bad(), respond_handshake_forbidden()                  *)
Refuse(r) == Queue([r EXCEPT !.dirty = TRUE], frame("refuse", 0, TRUE), TRUE)

(* web_socket_util_parse_req_line() and web_socket_util_parse_headers()    *)
LineParses(f) == f.op # "badline"
HeadersParse(f) == f.op # "badheaders"

(* respond_handshake_rfc6455()                                             *)
Respond(r, f) ==
    LET choice == Choose(r.protocols, f.list)
    IN  IF ~choice.ok THEN Refuse(r)
        ELSE Queue([r EXCEPT !.up = TRUE, !.chosen = choice.list],
                   [frame("accept", 0, FALSE) EXCEPT !.list = choice.list], TRUE)

(* parse_handshake_request(): a request other than GET gets no answer.     *)
ServerHandshake(r, f) ==
    IF ~LineParses(f) \/ ~HeadersParse(f) THEN Refuse(r)
    ELSE IF f.op = "put" THEN r
    ELSE Respond(r, f)

(* verify_handshake_rfc6455()                                              *)
Verify(r, f) ==
    LET choice == Choose(r.protocols, f.list)
    IN  IF ~choice.ok THEN ErrorAndClose(r, TRUE)
        ELSE [r EXCEPT !.up = TRUE, !.chosen = choice.list]

(* parse_handshake_response(): a status other than 101 is no reason to     *)
(* hurry, but without a handshake the stream is closed at once in any case.*)
ClientHandshake(r, f) == IF f.op = "accept" THEN Verify(r, f) ELSE ErrorAndClose(r, FALSE)

(* One round of the loop in process_incoming().                            *)
Process(r, f) ==
    IF r.up THEN ProcessFrame(r, f)
    ELSE IF r.server THEN ServerHandshake(r, f) ELSE ClientHandshake(r, f)

-----------------------------------------------------------------------------
Become(s, r) == ws' = [ws EXCEPT ![s] = r]

(* What the end s wrote is all there will be.                              *)
Ended(s) == ws[s].shut \/ (ws[s].stream /\ ~ws[s].open)

(* on_web_socket_input(): reads what there is, processes it, and closes at *)
(* the end of the stream.                                                  *)
Input(s) ==
    LET w == wire[Peer(s)]
    IN  /\ ws[s].reading
        /\ \E k \in 0..Len(w) :
             LET r == FoldLeft(Process, ws[s], SubSeq(w, 1, k))
                 end == k = Len(w) /\ Ended(Peer(s))
             IN  /\ k > 0 \/ end
                 /\ Become(s, IF ~end THEN r
                              ELSE CloseIo([r EXCEPT !.dirty =
                                              @ \/ ~r.closeSent \/ ~r.closeReceived]))
                 /\ wire' = [wire EXCEPT ![Peer(s)] = SubSeq(@, k + 1, Len(@))]

(* A read or a write fails.                                                *)
IoError(s) ==
    /\ "io" \in Faults
    /\ ws[s].reading \/ ws[s].writing
    /\ Become(s, ErrorAndClose(ws[s], TRUE))
    /\ UNCHANGED wire

(* The frame in front has been written.                                    *)
Written(r) ==
    LET r1 == [r EXCEPT !.out = Tail(@), !.pressed = @ /\ Len(r.out) # QueuePressure]
    IN  IF ~Head(r.out).last THEN r1
        ELSE IF r.server THEN CloseIo(r1)
        ELSE [ShutWr(r1) EXCEPT !.timer = TRUE]

(* The socket is writable.                                                 *)
Room(s) == Len(wire[s]) < WireSize

(* on_web_socket_output(): writes a part or all of the frame in front.     *)
(* Writing to an end that has closed its stream fails.                     *)
Output(s) ==
    LET r == ws[s]
    IN  /\ r.writing
        /\ \/ /\ r.out = <<>>
              /\ Become(s, [r EXCEPT !.writing = FALSE]) /\ UNCHANGED wire
           \/ /\ r.out # <<>> /\ ~Head(r.out).sent /\ Room(s)
              /\ Become(s, [r EXCEPT !.out[1].sent = TRUE]) /\ UNCHANGED wire
           \/ /\ r.out # <<>> /\ Room(s)
              /\ Become(s, Written(r))
              /\ wire' = [wire EXCEPT ![s] = Append(@, [Head(r.out) EXCEPT !.sent = FALSE])]
           \/ /\ r.out # <<>> /\ ~ws[Peer(s)].open
              /\ Become(s, ErrorAndClose(r, TRUE)) /\ UNCHANGED wire

(* on_iostream_closed()                                                    *)
IoClosed(s) ==
    /\ ws[s].stream /\ ~ws[s].open /\ ~ws[s].closed
    /\ Become(s, [ws[s] EXCEPT !.closed = TRUE, !.closes = @ + 1])
    /\ UNCHANGED wire

(* on_timeout_close_io()                                                   *)
Timeout(s) ==
    /\ "timeout" \in Faults /\ ws[s].timer
    /\ Become(s, CloseIo([ws[s] EXCEPT !.timer = FALSE]))
    /\ UNCHANGED wire

(* _web_socket_connection_take_io_stream()                                 *)
TakeStream(r) == [r EXCEPT !.stream = TRUE, !.open = TRUE, !.reading = TRUE]

(* request_handshake()                                                     *)
Request(r, op) ==
    Queue(TakeStream(r), [frame(op, 0, FALSE) EXCEPT !.list = r.protocols], TRUE)

(* on_connect_to_uri(): the client has a stream, and asks to upgrade.      *)
Connect ==
    LET r == ws["client"]
    IN  /\ ~r.stream /\ ~r.closed
        /\ \/ \E op \in {"hello"} \cup IF "refused" \in Faults THEN {"badline", "badheaders", "put"} ELSE {} :
                 Become("client", Request(r, op))
           \/ "connect" \in Faults /\ Become("client", ErrorAndClose(r, TRUE))
        /\ UNCHANGED wire

(* web_socket_connection_send()                                            *)
Say(r, op) ==
    LET n == r.msgs + IF op \in {"text", "end"} THEN 1 ELSE 0
    IN  Queue([r EXCEPT !.said = @ + 1, !.msgs = n], frame(op, n, FALSE), FALSE)

Send(s) ==
    /\ ReadyState(ws[s]) = "open" /\ ws[s].said < MaxSaid
    /\ Become(s, Say(ws[s], "text"))
    /\ UNCHANGED wire

(* A frame of a foreign end.                                               *)
ForeignSend(s) ==
    /\ s \in Foreign
    /\ ReadyState(ws[s]) = "open" /\ ws[s].said < MaxSaid
    /\ \E op \in {"first", "middle", "end", "badtext", "toobig", "badcontrol", "ping"} :
          Become(s, Say(ws[s], op))
    /\ UNCHANGED wire

(* The application calls web_socket_connection_close().                    *)
AppClose(s) ==
    /\ ReadyState(ws[s]) \in {"connecting", "open"}
    /\ Become(s, Close(ws[s]))
    /\ UNCHANGED wire

(* on_throttle_pressure(): the flow that input goes to is full, or not.    *)
Throttle(s) ==
    /\ "throttle" \in Faults /\ ws[s].open
    /\ Become(s, [ws[s] EXCEPT !.reading = ~@])
    /\ UNCHANGED wire

Next ==
    \/ Connect
    \/ \E s \in Side :
          \/ Input(s) \/ Output(s) \/ IoError(s) \/ IoClosed(s) \/ Timeout(s)
          \/ Send(s) \/ ForeignSend(s) \/ AppClose(s) \/ Throttle(s)

Spec == Init /\ [][Next]_vars

-----------------------------------------------------------------------------
(* The "close" signal is emitted once, exactly when the connection is      *)
(* closed, whichever of error, timeout, end of stream, close frame and     *)
(* application came first ("This signal will be emitted once").            *)
CloseOnce == \A s \in Side : ws[s].closes = IF ws[s].closed THEN 1 ELSE 0

(* Urgent frames never cut into one that is half sent.                     *)
OnlyHeadSplit == \A s \in Side : \A i \in 2..Len(ws[s].out) : ~ws[s].out[i].sent

(* The last pressure signal agrees with the queue: the flow that feeds it  *)
(* is neither left throttled nor unthrottled for good.                     *)
PressureAgrees == \A s \in Side : ws[s].pressed <=> Len(ws[s].out) >= QueuePressure

(* Messages arrive in order and without gaps, pongs and closes in between  *)
(* or not, unless the connection is given up with an error.                *)
NoGap == \A s \in Side : ~ws[s].gap

(* Both ends mean the same subprotocol, and one that both allow.           *)
ProtocolAgreed ==
    LET c == ws["client"]  v == ws["server"]
    IN  c.up /\ v.up =>
          /\ c.chosen = v.chosen
          /\ \A s \in Side : ws[s].protocols # <<>> => Range(c.chosen) \subseteq Range(ws[s].protocols)

(* Nothing is written after a close frame.                                 *)
CloseIsLast ==
    \A s \in Side : \A i \in 1..(Len(wire[s]) - 1) : wire[s][i].op # "close"

(* A connection that is closing becomes closed: Closing(s) ~> IsClosed(s). *)
Closing(s) == ReadyState(ws[s]) = "closing"
IsClosed(s) == ReadyState(ws[s]) = "closed"

=============================================================================
