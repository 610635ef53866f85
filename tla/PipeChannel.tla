---------------------------- MODULE PipeChannel -----------------------------
(***************************************************************************)
(* CockpitChannel (src/src/common/cockpitchannel.c) with CockpitPipeChannel *)
(* (src/src/bridge/cockpitpipechannel.c) as its implementation: a stream   *)
(* channel of the C bridge, from its open message until it is closed.      *)
(* The transport and the pipe are seen through their contracts, which      *)
(* Transport and Pipe check.                                               *)
(***************************************************************************)
EXTENDS Integers, Sequences, SequencesExt, FiniteSets

CONSTANTS
    FlowPing,    \* CHANNEL_FLOW_PING, in bytes
    FlowWindow,  \* CHANNEL_FLOW_WINDOW, in bytes
    MaxOut,      \* bound on the bytes that the process writes
    MaxIn,       \* bound on the messages that the client sends
    MaxRead,     \* bound on the bytes that one read of the pipe returns
    Client,      \* the kinds of messages that the client sends
    OpenOptions  \* the options with which the channel may be opened

Kinds == {"data", "done", "close", "ping", "options", "badoptions"}
Options == [open : {"ok", "bad", "incapable", "missing"},
            binary : BOOLEAN, flow : BOOLEAN, batch : BOOLEAN]

(* Options for the runs: every way to fail, with and without flow control; *)
(* and streams that have to be sent in pieces.                             *)
PlainOptions == {o \in Options : ~o.binary /\ (o.open # "ok" => ~o.flow /\ ~o.batch)}
FlowOptions == {o \in Options : o.open = "ok" /\ o.flow}

(* What an instance has to satisfy.                                       *)
PipeChannelAssumption ==
    /\ FlowPing \in Nat \ {0} /\ FlowWindow \in Nat /\ FlowPing <= FlowWindow
    /\ MaxOut \in Nat /\ MaxIn \in Nat /\ MaxRead \in Nat \ {0}
    /\ Client \subseteq Kinds /\ OpenOptions \subseteq Options

(* A byte of text: a character of its own, the first or the second byte of *)
(* a character of two; "?" is the replacement character, of three bytes.   *)
Bytes == {"a", "h", "t"}
Texts(k) == UNION {[1..i -> Bytes] : i \in 1..k}

VARIABLES
    c,     \* the channel and its pipe
    out,   \* what it sent to the transport, in order
    peer   \* the client: messages sent, pings answered; and the process

vars == <<c, out, peer>>

(* prepared, sentClose, emittedClose, transportClosed, sentDone,           *)
(* receivedDone, binary, flow, buffer, timer (buffer_timeout), outSequence,*)
(* outWindow: as in CockpitChannelPrivate    listening: the signals of the *)
(* transport are connected    ready: thawed    frozen: messages that the   *)
(* transport keeps    throttled, held: the queue of pings                  *)
(* pipe: the state of the pipe    read: bytes in its buffer                *)
(* open, closing, batch, batchTimer: as in CockpitPipeChannel              *)
(* pressed: the pipe was told to stop reading    input: written to it      *)
(* ended: times "closed" was emitted    problem: the problem of the first  *)
(* late: the timer of the buffer fired                                     *)
Message == [kind : Kinds \cup {"pong"}, n : Int]
msg(kind, n) == [kind |-> kind, n |-> n]

TypeOK ==
    /\ c.outSequence \in 0..(3 * MaxOut) /\ c.outWindow \in Nat
    /\ c.pipe \in {"none", "open", "closing", "closed"} /\ c.ended \in 0..1
    /\ c.buffer \in Seq(Bytes) /\ c.timer = (c.buffer # <<>>)
    /\ c.read \in Seq(Bytes) /\ c.frozen \in Seq(Message)
    /\ c.held \in Seq(Int) /\ (c.held # <<>> => c.throttled)
    /\ c.batchTimer => c.read # <<>> \/ c.pipe = "closed"
    /\ c.option \in Options

Init ==
    /\ \E o \in OpenOptions :
          c = [option |-> o, prepared |-> FALSE, sentClose |-> FALSE,
               emittedClose |-> FALSE, transportClosed |-> FALSE, sentDone |-> FALSE,
               receivedDone |-> FALSE, binary |-> FALSE, flow |-> FALSE,
               buffer |-> <<>>, timer |-> FALSE, outSequence |-> 0,
               outWindow |-> FlowWindow, listening |-> TRUE, ready |-> FALSE,
               frozen |-> <<>>, throttled |-> FALSE, held |-> <<>>,
               pipe |-> "none", read |-> <<>>, open |-> FALSE, closing |-> FALSE,
               batch |-> FALSE, batchTimer |-> FALSE, pressed |-> FALSE,
               input |-> <<>>, ended |-> 0, problem |-> "", late |-> FALSE,
               disposed |-> FALSE, out |-> <<>>]
    /\ out = <<>>
    /\ peer = [sent |-> <<>>, answered |-> 0, produced |-> <<>>, eof |-> FALSE]

-----------------------------------------------------------------------------
(* What g_utf8_validate() finds: the text with every invalid byte replaced,*)
(* and whether it ends in one.                                             *)
Scan(b) ==
    FoldLeft(LAMBDA a, x :
               CASE x = "a" -> [text |-> a.text \o (IF a.head THEN <<"?", "a">> ELSE <<"a">>),
                                head |-> FALSE, bad |-> FALSE]
                 [] x = "h" -> [text |-> a.text \o (IF a.head THEN <<"?">> ELSE <<>>),
                                head |-> TRUE, bad |-> TRUE]
                 [] x = "t" -> [text |-> a.text \o (IF a.head THEN <<"h", "t">> ELSE <<"?">>),
                                head |-> FALSE, bad |-> ~a.head],
             [text |-> <<>>, head |-> FALSE, bad |-> FALSE], b)

(* cockpit_unicode_has_incomplete_ending()                                 *)
HasIncompleteEnding(b) == Scan(b).bad

(* cockpit_unicode_force_utf8()                                            *)
Completed(scan) == scan.text \o (IF scan.head THEN <<"?">> ELSE <<>>)
ForceUtf8(b) == Completed(Scan(b))

Size(text) == Len(text) + 2 * Len(SelectSeq(text, LAMBDA x : x = "?"))

-----------------------------------------------------------------------------
(* cockpit_transport_send(): a closed transport drops the message.         *)
Transmit(r, m) == IF r.transportClosed THEN r ELSE [r EXCEPT !.out = Append(@, m)]

control(command, n) == [kind |-> command, n |-> n, bytes |-> <<>>, raw |-> <<>>]

(* cockpit_channel_actual_send(): this message takes it over the window.   *)
Trigger(r, after) == r.outSequence <= r.outWindow /\ after > r.outWindow

(* A mutant of PingDue: no ping when the pressure begins.                  *)
PingDueRarely(r, after) == after \div FlowPing # r.outSequence \div FlowPing

PingDue(r, after) ==
    after \div FlowPing # r.outSequence \div FlowPing \/ Trigger(r, after)

(* The bytes of a message are counted, and a ping is sent when one is due. *)
Counted(r, after) ==
    [(IF PingDue(r, after) THEN Transmit(r, control("ping", after)) ELSE r)
       EXCEPT !.outSequence = after, !.pressed = @ \/ Trigger(r, after)]

SendText(r, text, b) ==
    LET data == [kind |-> "data", n |-> 0, bytes |-> text, raw |-> b]
    IN  IF r.flow THEN Counted(Transmit(r, data), r.outSequence + Size(text))
        ELSE Transmit(r, data)

ActualSend(r, b) == SendText(r, IF r.binary THEN b ELSE ForceUtf8(b), b)

(* flush_buffer()                                                          *)
FlushBuffer(r) ==
    IF r.buffer = <<>> THEN r
    ELSE ActualSend([r EXCEPT !.buffer = <<>>, !.timer = FALSE], r.buffer)

(* cockpit_channel_send(): text that ends within a character is kept back. *)
SendAll(r, all) ==
    IF ~r.binary /\ HasIncompleteEnding(all)
    THEN [r EXCEPT !.buffer = all, !.timer = TRUE]
    ELSE ActualSend([r EXCEPT !.buffer = <<>>, !.timer = FALSE], all)

Send(r, b) == SendAll(r, r.buffer \o b)

(* cockpit_channel_control(), for all commands but "close".                *)
Control(r, command) ==
    Transmit(IF command = "done" THEN [r EXCEPT !.sentDone = TRUE] ELSE r, control(command, 0))

(* cockpit_channel_real_close()                                            *)
SendClose(r) ==
    IF r.transportClosed THEN r ELSE Transmit(FlushBuffer(r), control("close", 0))

RealClose(r, problem) ==
    IF r.sentClose THEN r
    ELSE [SendClose([r EXCEPT !.sentClose = TRUE]) EXCEPT
            !.ended = @ + 1, !.problem = problem]

-----------------------------------------------------------------------------
(* process_pipe_buffer()                                                   *)
ProcessPipeBuffer(r) ==
    IF r.read = <<>> THEN [r EXCEPT !.batchTimer = FALSE]
    ELSE Send([r EXCEPT !.batchTimer = FALSE, !.read = <<>>], r.read)

(* cockpit_channel_close(), up to the call of the implementation.          *)
Closing(r) == [r EXCEPT !.listening = FALSE, !.emittedClose = TRUE, !.closing = TRUE]

(* on_pipe_close(), with the channel's close that it calls.                *)
DoneUnless(r, problem) == IF problem = "" THEN Control(r, "done") ELSE r

OnPipeClose(r, problem) ==
    LET r1 == [ProcessPipeBuffer(r) EXCEPT !.open = FALSE, !.pipe = "closed"]
    IN  RealClose(Closing(DoneUnless(r1, problem)), problem)

(* cockpit_pipe_close(): with a problem the pipe closes at once, without   *)
(* one when it has written everything and its process has ended.           *)
PipeClose(r, problem) ==
    IF problem # "" THEN OnPipeClose(r, problem)
    ELSE [r EXCEPT !.pipe = "closing"]

(* cockpit_channel_close() with cockpit_pipe_channel_close()               *)
ClosePipe(r, problem) == IF r.open THEN PipeClose(r, problem) ELSE RealClose(r, problem)

ChannelClose(r, problem) == ClosePipe(ProcessPipeBuffer(Closing(r)), problem)

(* cockpit_channel_fail()                                                  *)
Fail(r, problem) == ChannelClose(r, problem)

-----------------------------------------------------------------------------
(* process_ping()                                                          *)
ProcessPing(r, n) ==
    IF r.throttled THEN [r EXCEPT !.held = Append(@, n)]
    ELSE Transmit(r, control("pong", n))

(* process_pong()                                                          *)
ProcessPong(r, n) ==
    IF ~r.flow \/ n < r.outWindow THEN r
    ELSE [r EXCEPT !.outWindow = n + FlowWindow,
                   !.pressed = @ /\ r.outSequence > n + FlowWindow]

(* process_recv(), with cockpit_pipe_channel_recv()                        *)
ProcessRecv(r, n) ==
    IF r.receivedDone THEN Fail(r, "protocol-error")
    ELSE IF r.open THEN [r EXCEPT !.input = Append(@, n)] ELSE r

(* "done" is given to the implementation even if it is the second one.     *)
EndInput(r) == IF r.open THEN PipeClose(r, "") ELSE r

Done(r) ==
    LET r1 == IF r.receivedDone THEN Fail(r, "protocol-error")
              ELSE [r EXCEPT !.receivedDone = TRUE]
    IN  EndInput(ProcessPipeBuffer([r1 EXCEPT !.closing = TRUE]))

(* cockpit_pipe_channel_control() with "options"                           *)
SetOptions(r, kind) ==
    IF kind = "badoptions" THEN Fail(r, "protocol-error")
    ELSE ProcessPipeBuffer([r EXCEPT !.batch = ~@])

(* on_transport_recv(), on_transport_control() and process_control()       *)
Dispatch(r, m) ==
    IF ~r.listening THEN r
    ELSE CASE m.kind = "data" -> ProcessRecv(r, m.n)
           [] m.kind = "close" -> ChannelClose(r, IF m.n = 0 THEN "" ELSE "problem")
           [] m.kind = "ping" -> ProcessPing(r, m.n)
           [] m.kind = "pong" -> ProcessPong(r, m.n)
           [] m.kind = "done" -> Done(r)
           [] OTHER -> SetOptions(r, m.kind)

(* The transport keeps the messages of a channel that is not ready.        *)
Emit(r, m) == IF r.ready THEN Dispatch(r, m) ELSE [r EXCEPT !.frozen = Append(@, m)]

(* cockpit_channel_ready(): the messages kept are delivered before "ready" *)
(* is sent.                                                                *)
Ready(r) ==
    Control(FoldLeft(Dispatch, [r EXCEPT !.ready = TRUE, !.frozen = <<>>], r.frozen), "ready")

-----------------------------------------------------------------------------
Becomes(r) == c' = [r EXCEPT !.out = <<>>] /\ out' = out \o r.out

(* cockpit_channel_real_prepare() and cockpit_channel_ensure_capable()     *)
RealPrepare(r) ==
    LET r1 == [r EXCEPT !.prepared = TRUE]
    IN  CASE r.option.open = "bad" -> Fail(r1, "protocol-error")
          [] r.option.open = "incapable" -> ChannelClose(r1, "not-supported")
          [] OTHER -> [r1 EXCEPT !.binary = r.option.binary, !.flow = r.option.flow]

(* cockpit_pipe_channel_prepare()                                          *)
PipeChannelPrepare(r) ==
    IF r.closing THEN r
    ELSE IF r.option.open = "missing" THEN ChannelClose(r, "not-found")
    ELSE Ready([r EXCEPT !.batch = r.option.batch, !.pipe = "open", !.open = TRUE])

(* on_idle_prepare()                                                       *)
Prepare ==
    /\ ~c.prepared /\ ~c.disposed
    /\ Becomes(IF c.emittedClose THEN [c EXCEPT !.prepared = TRUE]
               ELSE PipeChannelPrepare(RealPrepare(c)))
    /\ UNCHANGED peer

(* on_pipe_read(): a batch of two bytes is waited for, if there are to be  *)
(* batches.                                                                *)
BatchRead(r) ==
    IF r.batch /\ Len(r.read) < 2 THEN [r EXCEPT !.batchTimer = TRUE] ELSE ProcessPipeBuffer(r)

OnPipeRead(r, b, end) ==
    IF end THEN EndInput(ProcessPipeBuffer(r)) ELSE BatchRead([r EXCEPT !.read = @ \o b])

(* The process writes, and the pipe reads unless the channel is under      *)
(* pressure.                                                               *)
PipeReads ==
    /\ c.pipe \in {"open", "closing"} /\ ~c.pressed /\ ~peer.eof
    /\ \E b \in Texts(MaxRead) :
          /\ Len(peer.produced) + Len(b) <= MaxOut
          /\ Becomes(OnPipeRead(c, b, FALSE))
          /\ peer' = [peer EXCEPT !.produced = @ \o b]

(* The pipe reads the end of the output.                                   *)
PipeReadsEnd ==
    /\ c.pipe \in {"open", "closing"} /\ ~c.pressed /\ ~peer.eof
    /\ Becomes(OnPipeRead(c, <<>>, TRUE))
    /\ peer' = [peer EXCEPT !.eof = TRUE]

(* The pipe is closed: it was asked to, and its output is read to the end. *)
PipeEnds ==
    /\ c.pipe = "closing" /\ peer.eof /\ Becomes(OnPipeClose(c, ""))
    /\ UNCHANGED peer

(* The pipe is closed because of a problem.                                *)
PipeFails ==
    /\ c.pipe \in {"open", "closing"} /\ Becomes(OnPipeClose(c, "problem"))
    /\ UNCHANGED peer

(* on_throttle_pressure()                                                  *)
OnThrottlePressure(r, throttle) ==
    IF throttle THEN [r EXCEPT !.throttled = TRUE]
    ELSE FoldLeft(ProcessPing, [r EXCEPT !.throttled = FALSE, !.held = <<>>], r.held)

(* The pipe's queue becomes too long, or short enough again.               *)
PipePressure ==
    /\ c.pipe \in {"open", "closing"}
    /\ \/ ~c.throttled /\ c.input # <<>> /\ Becomes(OnThrottlePressure(c, TRUE))
       \/ c.throttled /\ Becomes(OnThrottlePressure(c, FALSE))
    /\ UNCHANGED peer

(* on_batch_timeout()                                                      *)
BatchTimeout ==
    /\ c.batchTimer /\ c.pipe \in {"open", "closing"}
    /\ Becomes(ProcessPipeBuffer(c)) /\ UNCHANGED peer

(* flush_buffer() when buffer_timeout is over.                             *)
BufferTimeout ==
    /\ c.timer /\ Becomes([FlushBuffer(c) EXCEPT !.late = TRUE])
    /\ UNCHANGED peer

(* on_transport_closed()                                                   *)
TransportCloses ==
    /\ ~c.transportClosed
    /\ LET r == [c EXCEPT !.transportClosed = TRUE]
       IN  Becomes(IF c.emittedClose \/ ~c.listening THEN r ELSE ChannelClose(r, "disconnected"))
    /\ UNCHANGED peer

(* cockpit_pipe_channel_dispose() and cockpit_channel_dispose()            *)
Dispose ==
    /\ ~c.disposed
    /\ LET r == IF c.open \/ ~c.emittedClose THEN ChannelClose(c, "terminated") ELSE c
       IN  Becomes([r EXCEPT !.disposed = TRUE, !.listening = FALSE, !.buffer = <<>>,
                             !.timer = FALSE, !.held = <<>>, !.throttled = FALSE,
                             !.batchTimer = FALSE])
    /\ UNCHANGED peer

-----------------------------------------------------------------------------
(* The client sends a message on the channel; it numbers them.             *)
ClientSends ==
    /\ ~c.disposed /\ ~c.transportClosed /\ Len(peer.sent) < MaxIn
    /\ \E kind \in Client, n \in {0, Len(peer.sent) + 1} :
          /\ (n = 0) => kind = "close"
          /\ Becomes(Emit(c, msg(kind, n)))
          /\ peer' = [peer EXCEPT !.sent = Append(@, msg(kind, n))]

Of(kind) == SelectSeq(out, LAMBDA m : m.kind = kind)

(* The client answers the pings that it gets, in order.                    *)
ClientAnswers ==
    /\ ~c.disposed /\ ~c.transportClosed /\ peer.answered < Len(Of("ping"))
    /\ Becomes(Emit(c, msg("pong", Of("ping")[peer.answered + 1].n)))
    /\ peer' = [peer EXCEPT !.answered = @ + 1]

Terminated == c.disposed /\ UNCHANGED vars

Next ==
    \/ Prepare \/ PipeReads \/ PipeReadsEnd \/ PipeEnds \/ PipeFails \/ PipePressure
    \/ BatchTimeout \/ BufferTimeout \/ TransportCloses \/ Dispose
    \/ ClientSends \/ ClientAnswers \/ Terminated

Spec == Init /\ [][Next]_vars

-----------------------------------------------------------------------------
Concat(f(_)) == FoldLeft(LAMBDA a, m : a \o f(m), <<>>, Of("data"))
SentRaw == LET raw(m) == m.raw IN Concat(raw)
SentText == LET text(m) == m.bytes IN Concat(text)
Indices(kind) == {i \in 1..Len(out) : out[i].kind = kind}

(* The pipe is told to stop exactly while more than the window was sent:   *)
(* the signals of cockpit_channel_actual_send() and process_pong(), which  *)
(* are sent on edges, keep up with the numbers.                            *)
PressureExact == c.flow => (c.pressed <=> c.outSequence > c.outWindow)

(* Under pressure there is always a ping that, once it is answered, moves  *)
(* the window (cockpit_channel_actual_send()): no other data will be sent  *)
(* to cause one.                                                           *)
PressureWillEnd ==
    c.pressed /\ c.listening /\ ~c.transportClosed =>
      \E i \in (peer.answered + 1)..Len(Of("ping")) : Of("ping")[i].n >= c.outWindow

(* Nothing that was read is lost, sent twice or out of order: it was sent, *)
(* or is kept back, or waits for its batch, whatever the order of timers,  *)
(* options and ends.                                                       *)
OutputKept ==
    ~c.transportClosed /\ ~c.disposed => SentRaw \o c.buffer \o c.read = peer.produced

(* Characters are not broken up by the reads, the batches and the end of   *)
(* the output: unless the timer had to fire, the messages are the output   *)
(* with only its invalid bytes replaced (cockpit_channel_send()).          *)
CharactersWhole ==
    ~c.late /\ ~c.binary /\ ~c.transportClosed /\ c.ended = 1 /\ c.problem = "" =>
      SentText = ForceUtf8(peer.produced)

(* The channel is closed once, and its data comes before that, however     *)
(* the client, the process, the transport and the owner end it.            *)
ClosedOnce ==
    /\ Cardinality(Indices("close")) <= 1 /\ c.ended <= 1
    /\ \A i \in Indices("data"), j \in Indices("close") : i < j

(* Pings are answered in the order in which they came and each once, also  *)
(* when they came before the channel was ready or while it was throttled.  *)
PongsInOrder ==
    LET pings == SelectSeq(peer.sent, LAMBDA m : m.kind = "ping")
        numbers == [i \in 1..Len(pings) |-> pings[i].n]
        pongs == [i \in 1..Len(Of("pong")) |-> Of("pong")[i].n]
    IN  /\ IsPrefix(pongs, numbers)
        /\ c.listening /\ c.ready => pongs \o c.held = numbers

(* The process gets the client's messages in order and without a gap, the  *)
(* ones that came before the channel was ready included.                   *)
InputInOrder ==
    LET data == SelectSeq(peer.sent, LAMBDA m : m.kind = "data")
        numbers == [i \in 1..Len(data) |-> data[i].n]
    IN  /\ IsPrefix(c.input, numbers)
        /\ c.open /\ c.listening /\ ~c.receivedDone => c.input = numbers

(* The channel is closed once its process ends its output, flow control or *)
(* not, as long as the client answers and leaves the closing to it:        *)
(* Piped ~> ChannelOver.                                                   *)
Piped == c.pipe # "none"
ChannelOver == c.ended = 1

=============================================================================
