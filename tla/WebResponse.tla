----------------------------- MODULE WebResponse ----------------------------
(***************************************************************************)
(* An HTTP response, cockpitwebresponse.c (src/src/common), and the        *)
(* channel of the bridge that is served through it,                        *)
(* cockpitchannelresponse.c (src/src/ws).  The response queues blocks,     *)
(* frames them by length or as chunks, writes them as the browser takes    *)
(* them, gives back pressure to the channel, and says in the end whether   *)
(* the connection can be used for another request.                         *)
(***************************************************************************)
EXTENDS Integers, Sequences, SequencesExt, FiniteSets

CONSTANTS
    MaxBlocks,   \* bound on the payloads of the channel
    MaxSize,     \* bound on the size of one payload
    Pressure,    \* QUEUE_PRESSURE
    Window,      \* payloads that the bridge sends although it is throttled
    Methods,     \* the methods of the request
    Kinds,       \* the payload types of the channel
    Honest,      \* whether the bridge sends what it says it sends
    Faults       \* whether the browser's connection may fail

(* What an instance has to satisfy.                                       *)
WebResponseAssumption ==
    /\ MaxBlocks \in Nat /\ MaxSize \in Nat /\ Pressure \in Nat \ {0} /\ Window \in Nat
    /\ Kinds \subseteq {"plain", "http-stream1", "http-stream2"}
    /\ Methods \subseteq {"GET", "HEAD"} /\ Honest \in BOOLEAN /\ Faults \in BOOLEAN

VARIABLES
    w,   \* the CockpitWebResponse
    c,   \* the CockpitChannelResponse
    b    \* the channel in the bridge

vars == <<w, c, b>>

(* w: queue, queued (out_queued), queueable (out_queueable), offset        *)
(* (partial_offset), source, count (whether it is not 0), complete,        *)
(* failed, done, chunked, keep (keep_alive), inject (filters: none, to be  *)
(* injected, injected), flush (one is under way), method, status; wire:    *)
(* the blocks that are sent; press: the last "pressure" signal; reusable:  *)
(* the argument of "done"; critical: an assertion of the code failed       *)
(* c: kind, prefix (http_stream1_prefix), closed                           *)
(* b: state, hint (the size announced), sent (units), blocks, over (how    *)
(* many payloads were sent while throttled), ended ("done" was sent)       *)
Unknown == -1
Unlimited == MaxBlocks * MaxSize + 10
Block(k, n) == [kind |-> k, size |-> n]

(* cockpit_web_response_new()                                              *)
NewResponse(method, keep) ==
    [queue |-> <<>>, queued |-> 0, queueable |-> Unlimited, offset |-> 0,
     source |-> FALSE, count |-> FALSE, complete |-> FALSE, failed |-> FALSE,
     done |-> FALSE, chunked |-> FALSE, keep |-> keep, inject |-> "none",
     flush |-> FALSE, method |-> method, status |-> 0, length |-> Unknown,
     wire |-> <<>>, press |-> FALSE, reusable |-> FALSE, critical |-> FALSE]

(* cockpit_channel_response_serve() for a file of a package, which opens a *)
(* channel "http-stream1", or cockpit_channel_response_open() for any      *)
Init ==
    /\ \E method \in Methods, kind \in Kinds, inject \in {"none", "wanted"}, keep \in BOOLEAN :
         /\ w = [NewResponse(method, keep) EXCEPT !.inject = inject]
         /\ c = [kind |-> kind, prefix |-> kind = "http-stream1", closed |-> FALSE]
    /\ b = [state |-> "open", hint |-> Unknown, sent |-> 0, blocks |-> 0, over |-> 0,
            ended |-> FALSE]

-----------------------------------------------------------------------------
(* A handler of the response maps it to another one.                       *)

(* cockpit_web_response_done(): asserts that it is not done yet.           *)
Done(r) ==
    [r EXCEPT !.critical = @ \/ r.done \/ (~r.complete /\ ~r.failed), !.done = TRUE,
              !.source = FALSE, !.reusable = r.complete /\ ~r.failed /\ r.keep]

(* queue_bytes()                                                           *)
QueueBytes(r, block) ==
    [r EXCEPT !.queued = @ + block.size, !.queue = Append(@, block), !.count = TRUE,
              !.source = TRUE,
              !.press = IF r.queued < Pressure /\ r.queued + block.size >= Pressure
                        THEN TRUE ELSE @]

(* queue_block()                                                           *)
QueueBlock(r, n) ==
    IF n = 0 THEN r
    ELSE IF r.queueable < n THEN [r EXCEPT !.critical = TRUE]
    ELSE LET r1 == [r EXCEPT !.queueable = @ - n]
         IN  IF ~r.chunked THEN QueueBytes(r1, Block("data", n))
             ELSE FoldLeft(QueueBytes, r1, <<Block("size", 1), Block("data", n), Block("crlf", 1)>>)

(* queue_filter(): what is injected follows the block that has the marker. *)
QueueFilter(r, n) ==
    IF r.inject # "wanted" \/ n = 0 THEN QueueBlock(r, n)
    ELSE QueueBlock(QueueBlock([r EXCEPT !.inject = "injected"], n), 1)

(* cockpit_web_response_queue(): asserts that it is not complete.          *)
Queue(r, n) ==
    IF r.complete THEN [r EXCEPT !.critical = TRUE]
    ELSE IF r.failed \/ r.method = "HEAD" THEN r
    ELSE QueueFilter(r, n)

(* A mutant of Complete: the last chunk is forgotten.                      *)
CompleteOpen(r) ==
    IF r.complete THEN [r EXCEPT !.critical = TRUE]
    ELSE IF r.failed THEN r
    ELSE [r EXCEPT !.complete = TRUE, !.flush = ~r.source]

(* cockpit_web_response_complete(): asserts that it is not complete.       *)
Complete(r) ==
    IF r.complete THEN [r EXCEPT !.critical = TRUE]
    ELSE IF r.failed THEN r
    ELSE LET r1 == [r EXCEPT !.complete = TRUE]
             r2 == IF r.chunked THEN QueueBytes(r1, Block("end", 1)) ELSE r1
         IN  [r2 EXCEPT !.flush = ~r2.source]

(* cockpit_web_response_abort()                                            *)
Abort(r) ==
    IF r.complete THEN [r EXCEPT !.critical = TRUE]
    ELSE IF r.failed THEN r
    ELSE Done([r EXCEPT !.complete = TRUE, !.failed = TRUE])

(* cockpit_web_response_headers(), cockpit_web_response_headers_full() and *)
(* finish_headers()                                                        *)
Headers(r, status, length) ==
    IF r.count THEN [r EXCEPT !.critical = TRUE]
    ELSE LET chunked == status # 304 /\ (length < 0 \/ r.inject # "none")
             r1 == [r EXCEPT !.chunked = chunked, !.status = status,
                             !.length = IF chunked THEN Unknown ELSE length,
                             !.queueable = IF chunked \/ status = 304 THEN @ ELSE length]
         IN  QueueBytes(r1, Block("head", 1))

(* cockpit_web_response_error_with_body(): a page of one block.            *)
Error(r, status) == Complete(Queue(Headers(r, status, Unknown), 1))

(* cockpit_web_response_content() with one block                           *)
Content(r, n) == Complete(Queue(Headers(r, 200, n), n))

(* cockpit_web_response_get_state()                                        *)
GetState(r) ==
    IF r.done THEN "SENT" ELSE IF r.complete THEN "COMPLETE"
    ELSE IF ~r.count THEN "READY" ELSE "QUEUING"

-----------------------------------------------------------------------------
(* on_response_output() when n units of the first block were written       *)
Wrote(r, n) ==
    LET block == Head(r.queue)
        r1 == IF r.offset + n < block.size THEN [r EXCEPT !.offset = @ + n]
              ELSE [r EXCEPT !.offset = 0, !.queue = Tail(@), !.queued = @ - block.size,
                             !.wire = Append(@, block)]
    IN  [r1 EXCEPT !.press = IF r.queued >= Pressure /\ r1.queued < Pressure
                             THEN FALSE ELSE @]

OnOutput ==
    /\ w.source /\ w.queue # <<>>
    /\ \E n \in 1..(Head(w.queue).size - w.offset) : w' = Wrote(w, n)
    /\ UNCHANGED <<c, b>>

(* on_response_output(): the write fails.                                  *)
OutputFails ==
    /\ Faults /\ w.source /\ w.queue # <<>>
    /\ w' = Done([w EXCEPT !.failed = TRUE])
    /\ UNCHANGED <<c, b>>

(* on_response_output() with nothing left                                  *)
OutputIdle ==
    /\ w.source /\ w.queue = <<>>
    /\ w' = [w EXCEPT !.source = FALSE, !.flush = w.complete]
    /\ UNCHANGED <<c, b>>

(* on_output_flushed()                                                     *)
OnFlushed ==
    /\ w.flush
    /\ \E failed \in IF Faults THEN BOOLEAN ELSE {FALSE} :
         w' = Done([w EXCEPT !.flush = FALSE, !.failed = @ \/ failed])
    /\ UNCHANGED <<c, b>>

-----------------------------------------------------------------------------
(* ensure_headers()                                                        *)
EnsureHeaders(r, status, length) ==
    IF GetState(r) = "READY" THEN Headers(r, status, length) ELSE r

(* cockpit_channel_response_control() with "ready" and a "size-hint"       *)
ControlReady(r, hint) == IF hint = Unknown THEN r ELSE EnsureHeaders(r, 200, hint)

(* cockpit_channel_response_control() with "done"                          *)
ControlDone(r) == Complete(EnsureHeaders(r, 200, 0))

(* process_httpstream1_recv(), and "response" of http-stream2: the headers *)
(* of the other side, or something that makes no sense.  A length of 0 is  *)
(* taken for one that is not known.                                        *)
HttpResponse(r, ok, length) ==
    IF ok THEN EnsureHeaders(r, 200, IF length > 0 THEN length ELSE Unknown)
    ELSE Error(r, 500)

(* cockpit_channel_response_close()                                        *)
ResponseClose(r, problem) ==
    LET state == GetState(r)
    IN  IF ~problem /\ state = "READY" THEN Complete(EnsureHeaders(r, 204, 0))
        ELSE IF state = "READY" THEN Error(r, 502)
        ELSE IF state = "QUEUING" THEN Abort(r) ELSE r

-----------------------------------------------------------------------------
(* The bridge: "ready" with or without a size, the headers of an HTTP      *)
(* stream, payloads, "done", "close".  Honest: as many units as it said.   *)
Sends(state) == b.state = state /\ ~c.closed /\ (w.press => b.over < Window)

BridgeReady ==
    /\ Sends("open")
    /\ \E hint \in {Unknown} \cup 0..(MaxBlocks * MaxSize) :
         /\ b' = [b EXCEPT !.hint = hint, !.state = IF c.kind = "plain" THEN "data" ELSE "head"]
         /\ w' = IF c.kind = "plain" THEN ControlReady(w, hint) ELSE w
    /\ UNCHANGED c

BridgeHead ==
    /\ Sends("head")
    /\ \E ok \in IF Honest THEN {TRUE} ELSE BOOLEAN : w' = HttpResponse(w, ok, b.hint)
    /\ c' = [c EXCEPT !.prefix = FALSE]
    /\ b' = [b EXCEPT !.state = "data"]

(* cockpit_channel_response_recv()                                         *)
BridgeData ==
    /\ Sends("data") /\ ~b.ended /\ b.blocks < MaxBlocks
    /\ \E n \in 0..MaxSize :
         /\ Honest /\ b.hint > 0 => b.sent + n <= b.hint
         /\ Honest /\ b.hint = 0 => n = 0
         /\ w' = Queue(EnsureHeaders(w, 200, Unknown), n)
         /\ b' = [b EXCEPT !.sent = @ + n, !.blocks = @ + 1,
                           !.over = IF w.press THEN @ + 1 ELSE 0]
    /\ UNCHANGED c

BridgeDone ==
    /\ Sends("data") /\ ~b.ended
    /\ Honest /\ b.hint >= 0 => b.sent = b.hint
    /\ w' = ControlDone(w)
    /\ b' = [b EXCEPT !.ended = TRUE]
    /\ UNCHANGED c

BridgeClose ==
    /\ ~c.closed
    /\ \E problem \in BOOLEAN : w' = ResponseClose(w, problem)
    /\ c' = [c EXCEPT !.closed = TRUE]
    /\ UNCHANGED b

(* Nothing is served from the bridge: one call makes the whole response.   *)
OneShot ==
    /\ b.state = "open" /\ ~c.closed /\ w.inject = "none"
    /\ \/ \E n \in 0..MaxSize : w' = Content(w, n) /\ b' = [b EXCEPT !.sent = n]
       \/ w' = Error(w, 404) /\ UNCHANGED b
       \/ w' = Complete(Headers(w, 304, 0)) /\ UNCHANGED b
    /\ c' = [c EXCEPT !.closed = TRUE]

Next ==
    \/ OnOutput \/ OutputFails \/ OutputIdle \/ OnFlushed
    \/ BridgeReady \/ BridgeHead \/ BridgeData \/ BridgeDone \/ BridgeClose \/ OneShot

Spec == Init /\ [][Next]_vars

-----------------------------------------------------------------------------
TypeOK ==
    /\ w.queued \in 0..Unlimited + 20 /\ w.queueable \in 0..Unlimited
    /\ w.queue \in Seq([kind : {"head", "size", "data", "crlf", "end"}, size : 1..(MaxSize + 1)])
    /\ w.offset \in 0..MaxSize
    /\ w.offset > 0 => w.queue # <<>> /\ w.offset < Head(w.queue).size
    /\ b.over \in 0..Window

(* Units of the body among blocks                                          *)
Units(blocks) ==
    FoldLeft(LAMBDA n, x : IF x.kind = "data" THEN n + x.size ELSE n, 0, blocks)

(* The bytes that follow the head say where the body ends.                 *)
Delimited ==
    IF w.chunked
    THEN /\ Last(w.wire).kind = "end"
         /\ \A i \in 2..Len(w.wire) - 1 :
              w.wire[i].kind = CASE i % 3 = 2 -> "size" [] i % 3 = 0 -> "data" [] OTHER -> "crlf"
    ELSE w.status = 304 \/ Units(w.wire) = w.length

(* What follows the head of the answer to a HEAD.  There should be         *)
(* nothing; of a chunked response the last chunk is sent all the same.     *)
StrayChunk == IF w.chunked THEN <<Block("end", 1)>> ELSE <<>>

(* A connection is used for another request only after a response that the *)
(* browser can tell the end of, and that has everything the channel sent.  *)
(* After a HEAD it may have to skip a last chunk that is not its due.      *)
ReusedWhenWhole ==
    w.reusable =>
      /\ w.queue = <<>> /\ w.wire # <<>> /\ w.wire[1].kind = "head"
      /\ IF w.method = "HEAD" THEN Tail(w.wire) = StrayChunk
         ELSE /\ Delimited
              /\ Honest /\ w.status = 200 =>
                   Units(w.wire) = b.sent + IF w.inject = "injected" THEN 1 ELSE 0

(* What was queued is sent in order: one head, and then the body.          *)
HeadFirst ==
    \A i \in 1..Len(w.wire \o w.queue) : ((w.wire \o w.queue)[i].kind = "head") <=> (i = 1)

(* Back pressure is on exactly while the queue is long.                    *)
PressureFollows == ~w.done => (w.press <=> w.queued >= Pressure)

(* With a bridge that keeps to the protocol no assertion of the response   *)
(* fails, whatever the browser does: nothing is queued after the end,      *)
(* nothing is ended twice.                                                 *)
NoCriticals == ~w.critical

(* A channel that is closed before it said "done" leaves a response that   *)
(* failed: its body never looks complete and its connection is not used    *)
(* again.                                                                  *)
CutShort ==
    c.closed /\ b.state = "data" /\ ~b.ended /\ w.status = 200 => w.failed /\ ~w.reusable

(* Once the channel is closed the response ends and lets go of its         *)
(* connection: ChannelClosed ~> ResponseDone.                              *)
ChannelClosed == c.closed
ResponseDone == w.done

-----------------------------------------------------------------------------
(***************************************************************************)
(* External channels over a WebSocket of their own                         *)
(* (ws/cockpitchannelsocket.c): a channel of cockpit-ws, on one side of    *)
(* which is the browser's socket and on the other the bridge.  The socket  *)
(* (module WebSocket) appears here as its state, what the browser sends,   *)
(* and what the browser is sent.  Flow control is left out.                *)
(***************************************************************************)
CONSTANTS
    FromBrowser,  \* the largest number of messages of the browser
    FromBridge,   \* the largest number of messages of the bridge
    Leaves        \* may the browser close the socket

(* What an instance has to satisfy.                                       *)
SocketAssumption == FromBrowser \in Nat /\ FromBridge \in Nat /\ Leaves \in BOOLEAN

VARIABLE e  \* the channel and both ends, a record with the fields
    \* ws       the state of the socket: "connecting", "open", "closing" (a close frame was
    \*          sent), "closed"
    \* closed   closed of the channel, after which the transport is not listened to
    \* told     what the bridge was sent; answer: what it sends, in order
    \* typed, said      how many messages the browser and the bridge have sent
    \* wire     what comes from the browser; code: its close code, or "0"
    \* shown    what the browser was sent
    \* ended    the bridge has closed the channel; lost: the transport to it is closed

socketVars == e

SocketInit ==
    e = [ws |-> "connecting", closed |-> FALSE, told |-> <<>>, answer |-> <<>>, typed |-> 0, said |-> 0,
         wire |-> <<>>, code |-> "0", shown |-> <<>>, ended |-> FALSE, lost |-> FALSE]

Msg(i) == [k |-> "msg", n |-> i]
Ctl(k) == [k |-> k, n |-> 0]
Messages(seq) == SelectSeq(seq, LAMBDA m : m.k = "msg")
Tell(s, m) == IF s.lost THEN s ELSE [s EXCEPT !.told = Append(@, m)]
Opened == Contains(e.told, Ctl("open"))

\* cockpit_channel_socket_close, which is all that closing the channel does.
SocketClose(s) ==
    LET r == [s EXCEPT !.closed = TRUE]
    IN  CASE s.ws = "open" -> [r EXCEPT !.ws = "closing", !.shown = Append(@, Ctl("close"))]
          [] s.ws = "connecting" -> [r EXCEPT !.ws = "closed"]
          [] OTHER -> r

\* cockpit_channel_socket_recv
Recv(s, m) == IF s.ws = "open" THEN [s EXCEPT !.shown = Append(@, m)] ELSE s

\* on_socket_open: "We wait until the WebSocket is open before doing this".
SocketOpen ==
    /\ e.ws = "connecting"
    /\ e' = Tell(Tell([e EXCEPT !.ws = "open"], Ctl("open")), Ctl("ready"))

\* on_socket_message, and the close frame of the browser, which the library answers.  What
\* comes after the channel was closed is sent to the bridge all the same.
SocketInput ==
    /\ e.ws \in {"open", "closing"} /\ e.wire # <<>>
    /\ LET m == Head(e.wire)
           r == [e EXCEPT !.wire = Tail(@)]
       IN  e' = IF m.k = "msg" THEN Tell(r, m)
                ELSE [r EXCEPT !.code = m.k, !.ws = "closing",
                               !.shown = IF e.ws = "open" THEN Append(@, Ctl("close")) ELSE @]

\* on_socket_close
OnClose(s) ==
    CASE s.closed -> s
      [] ~s.closed /\ s.code = "normal" -> SocketClose(Tell(s, Ctl("done")))
      [] OTHER -> SocketClose(s)

\* The stream of the socket is closed: after the close handshake, a time-out or an error.
SocketGone ==
    /\ e.ws \in {"open", "closing"}
    /\ e' = OnClose([e EXCEPT !.ws = "closed", !.wire = <<>>])

\* The handshake fails.
HandshakeFails ==
    /\ e.ws = "connecting"
    /\ e' = OnClose([e EXCEPT !.ws = "closed"])

\* The transport delivers what the bridge sent, until the channel is closed.
Deliver ==
    /\ e.answer # <<>> /\ ~e.closed
    /\ LET m == Head(e.answer)
           r == [e EXCEPT !.answer = Tail(@)]
       IN  e' = IF m.k = "msg" THEN Recv(r, m) ELSE SocketClose(r)

\* on_transport_closed
TransportClosed ==
    /\ ~e.lost
    /\ LET r == [e EXCEPT !.lost = TRUE, !.answer = <<>>]
       IN  e' = IF e.closed THEN r ELSE SocketClose(r)

BrowserSends ==
    /\ e.ws = "open" /\ e.typed < FromBrowser /\ e.code = "0"
    /\ ~\E i \in DOMAIN e.wire : e.wire[i].k # "msg"
    /\ e' = [e EXCEPT !.typed = @ + 1, !.wire = Append(@, Msg(e.typed + 1))]
BrowserCloses(code) ==
    /\ Leaves \/ Contains(e.shown, Ctl("close"))
    /\ e.ws \in {"open", "closing"} /\ e.code = "0"
    /\ ~\E i \in DOMAIN e.wire : e.wire[i].k # "msg"
    /\ e' = [e EXCEPT !.wire = Append(@, Ctl(code))]

BridgeSends ==
    /\ Opened /\ ~e.ended /\ ~e.lost /\ e.said < FromBridge
    /\ e' = [e EXCEPT !.said = @ + 1, !.answer = Append(@, Msg(e.said + 1))]
BridgeCloses ==
    /\ Opened /\ ~e.ended /\ ~e.lost
    /\ e' = [e EXCEPT !.ended = TRUE, !.answer = Append(@, Ctl("close"))]

SocketNext ==
    \/ SocketOpen \/ SocketInput \/ SocketGone \/ HandshakeFails \/ Deliver \/ TransportClosed
    \/ BrowserSends \/ BridgeSends \/ BridgeCloses
    \/ \E code \in {"normal", "going-away"} : BrowserCloses(code)

SocketSpec == SocketInit /\ [][SocketNext]_socketVars

(***************************************************************************)
(* Properties.                                                             *)
(***************************************************************************)
\* The bridge is told to open the channel before anything else, and with that the socket is
\* open: "so we don't receive messages from the bridge before the websocket is open".
OpenFirst ==
    /\ e.told # <<>> => Head(e.told) = Ctl("open")
    /\ e.answer # <<>> => e.ws # "connecting"

\* The messages reach either side in order and without gaps.
InOrder ==
    /\ Messages(e.told) = [i \in 1..Len(Messages(e.told)) |-> Msg(i)]
    /\ Messages(e.shown) = [i \in 1..Len(Messages(e.shown)) |-> Msg(i)]

\* A browser that does not close the socket is sent every message that the bridge sent before
\* it closed the channel, and then the close frame.
AllShown ==
    e.closed /\ e.ended /\ ~e.lost /\ e.ws = "closing" /\ e.code = "0" =>
        e.shown = [i \in 1..e.said + 1 |-> IF i <= e.said THEN Msg(i) ELSE Ctl("close")]

\* "done" stands for an orderly end: the bridge has every message of the browser.
DoneComplete ==
    Contains(e.told, Ctl("done")) => e.code = "normal" /\ Len(Messages(e.told)) = e.typed

\* A channel whose browser ended normally is told so, unless the bridge closed it.
NormalIsDone ==
    e.closed /\ ~e.ended /\ ~e.lost /\ e.ws = "closed" /\ e.code = "normal" => Contains(e.told, Ctl("done"))

\* When the bridge closes the channel, or the transport to it ends, the socket of the browser is
\* closed: BridgeOver ~> SocketOver.
BridgeOver == e.ended \/ e.lost
SocketOver == e.ws = "closed"

=============================================================================
