------------------------------ MODULE Transport -----------------------------
(***************************************************************************)
(* CockpitTransport and CockpitPipeTransport (src/src/common): messages    *)
(* are handed to whoever listens, except those of channels that are frozen *)
(* because the channel is not ready or waits behind a fence.  A handler    *)
(* may freeze the channel again while its messages are being thawed.       *)
(***************************************************************************)
EXTENDS Integers, Sequences, SequencesExt, FiniteSets, FiniteSetsExt

CONSTANTS
    Channels,   \* the channels that the other side opens
    MaxData,    \* bound on the messages it sends on each
    MaxPings,   \* bound on the pings it sends
    Broken      \* the broken messages it may send: subset of BrokenKinds

BrokenKinds == {"noprefix", "badlength", "badcommand"}

(* What an instance has to satisfy.                                       *)
TransportAssumption ==
    MaxData \in Nat /\ MaxPings \in Nat /\ Broken \subseteq BrokenKinds

Kinds == {"open", "data", "ping", "pong"} \cup BrokenKinds
NoChannel == "none"
Message == [kind : Kinds, channel : Channels \cup {NoChannel}, n : Nat]
message(kind, c, n) == [kind |-> kind, channel |-> c, n |-> n]

VARIABLES
    t,     \* the transport, and what listens to it
    wire,  \* messages on their way
    sent   \* what the other side has sent: messages per channel, pings, end

vars == <<t, wire, sent>>

(* freeze: the key in the table of frozen channels, 0 if there is none     *)
(* keys: keys made so far    frozen: the queue of frozen messages, each    *)
(* with the key it was frozen under    fence: a fence group is open        *)
(* fenced: channels waiting for it    listens, ready: a channel object is  *)
(* there, and has called cockpit_channel_ready()                           *)
(* got: messages delivered    lost: a message found nobody to listen       *)
TransportState ==
    [closed : BOOLEAN, problem : STRING, ends : Nat, pipe : BOOLEAN,
     freeze : [Channels -> Nat], keys : Nat, frozen : Seq([key : Nat, m : Message]),
     fence : BOOLEAN, fenced : Seq(Channels),
     listens : SUBSET Channels, ready : SUBSET Channels,
     got : [Channels -> Seq(Nat)], lost : BOOLEAN, pongs : Nat]

TypeOK ==
    /\ t \in TransportState /\ wire \in Seq(Message)
    /\ sent \in [data : [Channels -> Nat], opened : SUBSET Channels, pings : Nat,
                 status : {"run", "eof", "truncated"}]

Init ==
    /\ \E fence \in BOOLEAN :
          t = [closed |-> FALSE, problem |-> "", ends |-> 0, pipe |-> TRUE,
               freeze |-> [c \in Channels |-> 0], keys |-> 0, frozen |-> <<>>,
               fence |-> fence, fenced |-> <<>>, listens |-> {}, ready |-> {},
               got |-> [c \in Channels |-> <<>>], lost |-> FALSE, pongs |-> 0]
    /\ wire = <<>>
    /\ sent = [data |-> [c \in Channels |-> 0], opened |-> {}, pings |-> 0, status |-> "run"]

-----------------------------------------------------------------------------
(* cockpit_transport_freeze()                                              *)
Freeze(r, c) == [r EXCEPT !.keys = @ + 1, !.freeze[c] = r.keys + 1]

(* The end of maybe_freeze_message().                                      *)
Push(r, m) == [r EXCEPT !.frozen = Append(@, [key |-> r.freeze[m.channel], m |-> m])]

(* cockpit_transport_close(), and on_pipe_close() at once if there is a    *)
(* problem.                                                                *)
CloseTransport(r, problem) ==
    IF r.closed \/ problem = "" THEN [r EXCEPT !.pipe = FALSE]
    ELSE [r EXCEPT !.pipe = FALSE, !.closed = TRUE, !.problem = problem, !.ends = @ + 1]

(* A mutant of Open: a new channel hears its messages at once.             *)
OpenEager(r, m) ==
    LET c == m.channel
    IN  IF r.fence THEN Push(Freeze([r EXCEPT !.fenced = Append(@, c)], c), m)
        ELSE [r EXCEPT !.listens = @ \cup {c}]

(* A new channel freezes its messages until it is ready; behind a fence,   *)
(* the router freezes the channel and emits the message again.             *)
Open(r, m) ==
    LET c == m.channel
    IN  IF r.fence THEN Push(Freeze([r EXCEPT !.fenced = Append(@, c)], c), m)
        ELSE Freeze([r EXCEPT !.listens = @ \cup {c}], c)

(* The signals "recv" and "control" with their default handlers.           *)
Deliver(r, m) ==
    CASE m.kind = "open" -> Open(r, m)
      [] m.kind = "data" ->
           [r EXCEPT !.got[m.channel] = Append(@, m.n),
                     !.lost = @ \/ m.channel \notin r.listens \/ m.channel \notin r.ready]
      [] m.kind = "ping" -> [r EXCEPT !.pongs = @ + 1]
      [] m.kind = "pong" -> r
      [] m.kind = "badcommand" -> CloseTransport(r, "protocol-error")

(* cockpit_transport_emit_recv() and cockpit_transport_emit_control()      *)
Emit(r, m) ==
    IF m.channel # NoChannel /\ r.freeze[m.channel] # 0 THEN Push(r, m) ELSE Deliver(r, m)

(* cockpit_transport_thaw(): the key is gone before the messages frozen    *)
(* under it are emitted one by one.                                        *)
Thawed(r, c) ==
    LET key == r.freeze[c]
        r1 == [r EXCEPT !.freeze[c] = 0,
                        !.frozen = SelectSeq(@, LAMBDA f : f.key # key)]
    IN  FoldLeft(LAMBDA a, f : Emit(a, f.m), r1,
                 SelectSeq(r.frozen, LAMBDA f : f.key = key))

(* One round of the loop in cockpit_transport_read_from_pipe().            *)
Process(r, m) ==
    IF r.closed \/ m.kind = "noprefix" THEN r
    ELSE IF m.kind = "badlength" THEN CloseTransport(r, "protocol-error")
    ELSE Emit(r, m)

-----------------------------------------------------------------------------
(* on_pipe_read(): some of what has arrived, or the end of it.             *)
Read ==
    /\ ~t.closed
    /\ \/ \E k \in 1..Len(wire) :
             /\ t' = FoldLeft(Process, t, SubSeq(wire, 1, k))
             /\ wire' = SubSeq(wire, k + 1, Len(wire))
       \/ /\ wire = <<>> /\ sent.status # "run"
          /\ t' = CloseTransport(t, IF sent.status = "eof" THEN "" ELSE "disconnected")
          /\ UNCHANGED wire
    /\ UNCHANGED sent

(* on_pipe_close(): the problem that an exit status stands for.            *)
Problem(status, bridge) ==
    CASE status \in {"term", "hup", "exit255"} -> "terminated"
      [] status = "exit127" /\ bridge -> "no-cockpit"
      [] status = "exit1" /\ bridge -> "access-denied"
      [] status = "exit0" -> ""
      [] OTHER -> "internal-error"

(* on_pipe_close() of a pipe that has ended by itself or was closed.       *)
PipeCloses(status) ==
    /\ ~t.closed /\ (~t.pipe \/ sent.status # "run")
    /\ \E bridge \in BOOLEAN :
          t' = [t EXCEPT !.closed = TRUE, !.pipe = FALSE, !.ends = @ + 1,
                         !.problem = Problem(status, bridge)]
    /\ UNCHANGED <<wire, sent>>

Statuses == {"exit0", "exit1", "exit127", "exit255", "term", "hup", "kill"}

(* The owner calls cockpit_transport_close().                              *)
Close ==
    /\ ~t.closed /\ t.pipe
    /\ \E problem \in {"", "terminated"} : t' = CloseTransport(t, problem)
    /\ UNCHANGED <<wire, sent>>

(* cockpit_channel_ready()                                                 *)
Ready(c) ==
    /\ c \in t.listens \ t.ready
    /\ t' = Thawed([t EXCEPT !.ready = @ \cup {c}], c)
    /\ UNCHANGED <<wire, sent>>

(* A mutant of FenceOpens: only the first channel is resumed.              *)
FenceOpensOnce ==
    /\ t.fence
    /\ t' = IF t.fenced = <<>> THEN [t EXCEPT !.fence = FALSE]
            ELSE Thawed([t EXCEPT !.fence = FALSE, !.fenced = <<>>], Head(t.fenced))
    /\ UNCHANGED <<wire, sent>>

(* The fence group closes: on_channel_closed() of the router.              *)
FenceOpens ==
    /\ t.fence
    /\ t' = FoldLeft(Thawed, [t EXCEPT !.fence = FALSE, !.fenced = <<>>], t.fenced)
    /\ UNCHANGED <<wire, sent>>

-----------------------------------------------------------------------------
(* The other side opens a channel before it uses it.                       *)
Arrives(m) == /\ sent.status = "run"
              /\ wire' = Append(wire, m) /\ UNCHANGED t

PeerOpens(c) ==
    /\ c \notin sent.opened /\ Arrives(message("open", c, 0))
    /\ sent' = [sent EXCEPT !.opened = @ \cup {c}]
PeerSends(c) ==
    /\ c \in sent.opened /\ sent.data[c] < MaxData
    /\ Arrives(message("data", c, sent.data[c] + 1))
    /\ sent' = [sent EXCEPT !.data[c] = @ + 1]
PeerPings ==
    /\ sent.pings < MaxPings /\ \E k \in {"ping", "pong"} : Arrives(message(k, NoChannel, 0))
    /\ sent' = [sent EXCEPT !.pings = @ + 1]
PeerBreaks ==
    /\ sent.pings < MaxPings /\ \E k \in Broken : Arrives(message(k, NoChannel, 0))
    /\ sent' = [sent EXCEPT !.pings = @ + 1]
PeerEnds ==
    /\ sent.status = "run"
    /\ \E e \in {"eof", "truncated"} : sent' = [sent EXCEPT !.status = e]
    /\ UNCHANGED <<t, wire>>

Next ==
    \/ Read \/ Close \/ FenceOpens \/ PeerPings \/ PeerBreaks \/ PeerEnds
    \/ \E status \in Statuses : PipeCloses(status)
    \/ \E c \in Channels : Ready(c) \/ PeerOpens(c) \/ PeerSends(c)

Spec == Init /\ [][Next]_vars

-----------------------------------------------------------------------------
(* The data messages of a channel in a sequence of messages.               *)
DataOf(c, s) ==
    LET mine == SelectSeq(s, LAMBDA m : m.channel = c /\ m.kind = "data")
    IN  [i \in 1..Len(mine) |-> mine[i].n]

(* What was delivered on a channel, what is frozen and what is on its way  *)
(* are together the messages sent, in order: "Any messages received before *)
(* the channel was ready will be delivered ... in the order that they were *)
(* received", even if the channel is frozen twice.                         *)
InOrder ==
    ~t.closed =>
      \A c \in Channels :
        t.got[c] \o DataOf(c, [i \in 1..Len(t.frozen) |-> t.frozen[i].m]) \o DataOf(c, wire)
          = [i \in 1..sent.data[c] |-> i]

(* Nothing is delivered to a channel before it listens and is ready.       *)
HeldUntilReady == ~t.lost

(* What is frozen can be thawed: its key is that of a channel in the table.*)
NothingStuck ==
    \A i \in 1..Len(t.frozen) : t.frozen[i].key = t.freeze[t.frozen[i].m.channel]

(* "closed" is emitted once, whether the end, a broken message or the owner   *)
(* comes first.                                                            *)
ClosedOnce == t.ends = IF t.closed THEN 1 ELSE 0

(* In the end every message is delivered, if the transport stays open:     *)
(* AllSent(c) ~> AllGot(c).                                                *)
AllSent(c) == sent.data[c] = MaxData
AllGot(c) == t.closed \/ ~t.pipe \/ Len(t.got[c]) = MaxData

-----------------------------------------------------------------------------
(***************************************************************************)
(* The length prefix of the C code (src/src/common/cockpitframe.c) and the *)
(* loop that cuts messages out of the buffer of a pipe                     *)
(* (cockpitpipetransport.c).  Two readers are given the same stream, one   *)
(* after the other since they share nothing, each reading in pieces of any *)
(* size: "pipe" uses the buffer, "block" is cockpit_frame_read() on a      *)
(* blocking descriptor, which must not read past the end of a frame.       *)
(***************************************************************************)
CONSTANTS
    MaxDigits,  \* MAX_FRAME_SIZE_BYTES
    Initial,    \* length of the initial read of cockpit_frame_read()
    Sizes,      \* the sizes of the frames in the stream
    MaxFrames,  \* bound on their number
    MaxBytes    \* bound on the sum of their sizes

(* What an instance has to satisfy.                                       *)
FrameAssumption ==
    /\ MaxDigits \in Nat /\ Initial \in Nat \ {0} /\ MaxDigits >= Initial
    /\ Sizes \subseteq 1..999 /\ MaxFrames \in Nat /\ MaxBytes \in Nat

(* Bytes: the digits, the newline, and anything else.                      *)
Newline == 10
Other == 11
Byte == 0..11

Digits(n) ==
    IF n < 10 THEN <<n>>
    ELSE IF n < 100 THEN <<n \div 10, n % 10>>
    ELSE <<n \div 100, (n \div 10) % 10, n % 10>>

(* cockpit_frame_write()                                                   *)
Encode(n) == Digits(n) \o <<Newline>> \o [i \in 1..n |-> i % 12]

(* What can follow the frames: nothing, the start of a frame, a prefix     *)
(* that is not a length, or one that is too long.                          *)
Tails == {<<>>, <<1>>, <<1, Newline>> , <<0, Newline, 1>>, <<0, 1, Newline, 1>>,
          <<Newline, 1, 1>>, <<1, Other, 1>>, <<1, 1, 1, 1, 1, Newline, 1>>, <<2, Newline, 1>>}

VARIABLES
    frames,  \* the sizes of the frames that were written
    stream,  \* the bytes of the stream
    buf,     \* in_buffer of the pipe
    pos,     \* bytes taken from the stream by either reader
    got,     \* sizes of the frames that either reader returned
    state,   \* "run", "end", "error" of either reader
    block    \* what cockpit_frame_read() is doing

frameVars == <<frames, stream, buf, pos, got, state, block>>

Reader == {"pipe", "block"}

(* phase: which of the reads  need: bytes it still needs  head: headerbuf  *)
Start == [phase |-> "initial", need |-> Initial, head |-> <<>>, size |-> 0]

FrameTypeOK ==
    /\ frames \in Seq(Sizes) /\ stream \in Seq(Byte) /\ buf \in Seq(Byte)
    /\ pos \in [Reader -> Nat] /\ got \in [Reader -> Seq(Nat)]
    /\ state \in [Reader -> {"run", "end", "error"}]
    /\ block.phase \in {"initial", "header", "body"} /\ block.need \in Nat
    /\ Len(block.head) <= MaxDigits + 1 /\ block.size \in Int

FrameInit ==
    /\ \E n \in 0..MaxFrames : frames \in [1..n -> Sizes]
    /\ FoldLeft(LAMBDA a, b : a + b, 0, frames) <= MaxBytes
    /\ \E tail \in Tails :
          stream = FoldLeft(LAMBDA s, n : s \o Encode(n), <<>>, frames) \o tail
    /\ buf = <<>> /\ pos = [r \in Reader |-> 0] /\ got = [r \in Reader |-> <<>>]
    /\ state = [r \in Reader |-> "run"] /\ block = Start

-----------------------------------------------------------------------------
(* cockpit_frame_parse(): the length, 0 if more is needed, or -1.          *)
FrameParse(input) ==
    LET i == CHOOSE k \in 0..Len(input) :
               /\ \A j \in 1..k : j <= MaxDigits /\ input[j] \in 0..9
               /\ k \in {Len(input), MaxDigits} \/ input[k + 1] \notin 0..9
        size == FoldLeft(LAMBDA s, d : 10 * s + d, 0, SubSeq(input, 1, i))
    IN  IF i = Len(input) THEN [size |-> 0, consumed |-> 0]
        ELSE IF size = 0 \/ input[i + 1] # Newline \/ input[1] = 0
        THEN [size |-> -1, consumed |-> 0]
        ELSE [size |-> size, consumed |-> i + 1]

(* One round of the loop in cockpit_transport_read_from_pipe().            *)
Cut(a, ignored) ==
    LET f == FrameParse(a.buf)
        end == f.consumed + f.size
    IN  IF a.error \/ f.size = 0 THEN a
        ELSE IF f.size < 0 THEN [a EXCEPT !.error = TRUE]
        ELSE IF Len(a.buf) < end THEN a
        ELSE [a EXCEPT !.buf = SubSeq(@, end + 1, Len(@)), !.got = Append(@, f.size)]

(* on_pipe_read() with n more bytes, or at the end of the data.  A frame   *)
(* has three bytes at least, which bounds the rounds.                      *)
PipeRead ==
    LET left == Len(stream) - pos["pipe"]
    IN  /\ state["pipe"] = "run"
        /\ \E n \in IF left = 0 THEN {0} ELSE 1..left :
             LET b == buf \o SubSeq(stream, pos["pipe"] + 1, pos["pipe"] + n)
                 a == FoldLeft(Cut, [buf |-> b, got |-> <<>>, error |-> FALSE],
                               [k \in 1..(Len(b) \div 3 + 1) |-> k])
             IN  /\ buf' = a.buf
                 /\ got' = [got EXCEPT !["pipe"] = @ \o a.got]
                 /\ pos' = [pos EXCEPT !["pipe"] = @ + n]
                 /\ state' = [state EXCEPT !["pipe"] =
                                IF a.error \/ (n = 0 /\ a.buf # <<>>) THEN "error"
                                ELSE IF n = 0 THEN "end" ELSE "run"]
    /\ UNCHANGED <<frames, stream, block>>

(* What cockpit_frame_read() does with a header it has read: read the rest *)
(* of it if need be, and then the rest of the body.                        *)
Header(b) ==
    LET f == FrameParse(b.head)
    IN  IF b.phase = "initial" /\ f.size = 0
        THEN [phase |-> "header", need |-> MaxDigits + 1 - Initial, head |-> b.head, size |-> 0]
        ELSE [phase |-> "body", need |-> f.size - (Len(b.head) - f.consumed),
              head |-> b.head, size |-> f.size]

(* Whether the end of the stream is fine, which it is between two frames.  *)
AtEnd(b) == IF b.phase = "initial" /\ b.need = Initial THEN "end" ELSE "error"

(* read_exactly(): one read() of at most what is needed.                   *)
BlockRead ==
    LET left == Len(stream) - pos["block"]
    IN  /\ state["pipe"] # "run" /\ state["block"] = "run" /\ block.need > 0 /\ left > 0
        /\ \E n \in 1..Min({left, block.need}) :
             LET bytes == SubSeq(stream, pos["block"] + 1, pos["block"] + n)
             IN  /\ pos' = [pos EXCEPT !["block"] = @ + n]
                 /\ block' = [block EXCEPT !.need = @ - n,
                                           !.head = IF block.phase = "body" THEN @ ELSE @ \o bytes]
    /\ UNCHANGED <<frames, stream, buf, got, state>>

(* read_exactly() at the end of the stream.                                *)
BlockEnd ==
    /\ state["pipe"] # "run" /\ state["block"] = "run" /\ block.need > 0 /\ pos["block"] = Len(stream)
    /\ state' = [state EXCEPT !["block"] = AtEnd(block)]
    /\ UNCHANGED <<frames, stream, buf, pos, got, block>>

(* cockpit_frame_read() has all that the last read was for.                *)
BlockStep ==
    /\ state["pipe"] # "run" /\ state["block"] = "run" /\ block.need = 0
    /\ IF block.phase = "body"
       THEN /\ got' = [got EXCEPT !["block"] = Append(@, block.size)]
            /\ block' = Start /\ UNCHANGED state
       ELSE LET b == Header(block)
            IN  IF b.phase = "body" /\ b.size = -1
                THEN /\ state' = [state EXCEPT !["block"] = "error"]
                     /\ UNCHANGED <<got, block>>
                ELSE block' = b /\ UNCHANGED <<got, state>>
    /\ UNCHANGED <<frames, stream, buf, pos>>

FrameNext == PipeRead \/ BlockRead \/ BlockEnd \/ BlockStep

FrameSpec == FrameInit /\ [][FrameNext]_frameVars

-----------------------------------------------------------------------------
(* Whatever the pieces, a reader returns the frames that were written, in  *)
(* order, and all of them before it gets to the end or to an error.        *)
FramesExact ==
    \A r \in Reader :
      /\ IsPrefix(got[r], frames)
      /\ state[r] # "run" => got[r] = frames

(* "avoiding to read() more than the frame (since we can't put bytes       *)
(* back)": what cockpit_frame_read() has taken never reaches into the next *)
(* frame.                                                                  *)
NeverPastFrame ==
    Len(got["block"]) < Len(frames) =>
      pos["block"] <= FoldLeft(LAMBDA s, n : s + Len(Encode(n)), 0,
                               SubSeq(frames, 1, Len(got["block"]) + 1))

(* Both readers agree on where the stream is broken.                       *)
ReadersAgree ==
    (\A r \in Reader : state[r] # "run") => state["pipe"] = state["block"]

(* "This should always result in a defined (non-zero) result": with the    *)
(* whole header read, no more data can be asked for.                       *)
HeaderSuffices ==
    Len(block.head) = MaxDigits + 1 => FrameParse(block.head).size # 0
=============================================================================
