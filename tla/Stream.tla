------------------------------- MODULE Stream -------------------------------
(***************************************************************************)
(* CockpitStream (bridge/cockpitstream.c): queued input and output on a    *)
(* socket that may still be connecting.  Closing with a problem is         *)
(* immediate; closing without one first sends what is queued, then closes  *)
(* the output, and waits for the other side to do the same.                *)
(*                                                                         *)
(* A block is a number of bytes, and bytes are numbered in the order in    *)
(* which they are written.  The socket takes any part of a block.          *)
(***************************************************************************)
EXTENDS Naturals, Sequences, FiniteSets, SequencesExt

CONSTANTS Blocks,     \* the sizes of blocks that are written
          MaxBytes,   \* bound on the bytes written
          MaxIn,      \* bound on the bytes of the other side
          Pressure,   \* QUEUE_PRESSURE
          Faults,     \* may connecting, reading, writing and closing fail
          Throttles,  \* may another flow throttle the input
          MaxToggles  \* bound on how often

(* What an instance has to satisfy.                                       *)
StreamAssumption == Blocks \subseteq Nat \ {0} /\ {MaxBytes, MaxIn, Pressure, MaxToggles} \subseteq Nat

VARIABLE s  \* the stream and its surroundings, a record with the fields
    \* connecting, io, closing, closed, problem, in_done, out_closed   as in the code
    \* in_source, out_source   whether the main loop watches the socket
    \* queue, partial          blocks to write, and how much of the first was written
    \* buffer                  bytes read
    \* closes                  output closes that the main loop is working on
    \* wrote, sent             bytes accepted, and bytes the other side has
    \* wire, got, eof          bytes to be read, all bytes that came, and whether the other side has closed
    \* pressure                the pressure this stream signals
    \* throttled, toggles      the pressure it is under
    \* eofs, ended             "read" signals with the end of the input, and "close" signals

vars == s

Sum(q) == FoldLeft(LAMBDA a, n : a + n, 0, q)

Start(connecting) ==
    [connecting |-> connecting, io |-> ~connecting, closing |-> FALSE, closed |-> FALSE, problem |-> FALSE,
     in_done |-> FALSE, out_closed |-> FALSE, in_source |-> ~connecting, out_source |-> ~connecting,
     queue |-> <<>>, partial |-> 0, buffer |-> 0, closes |-> 0, wrote |-> 0, sent |-> 0, wire |-> 0, got |-> 0,
     eof |-> FALSE, pressure |-> FALSE, throttled |-> FALSE, toggles |-> 0, eofs |-> 0, ended |-> 0]

\* close_immediately
CloseImmediately(r, problem) ==
    IF r.closed THEN r
    ELSE [r EXCEPT !.closed = TRUE, !.problem = @ \/ problem, !.connecting = FALSE, !.io = FALSE,
                   !.in_source = FALSE, !.out_source = FALSE, !.ended = @ + 1]

\* close_maybe
CloseMaybe(r) == IF r.in_done /\ r.out_closed THEN CloseImmediately(r, FALSE) ELSE r

\* close_output: done by the main loop, also when it was asked for before.
CloseOutput(r) ==
    CASE r.out_closed -> r
      [] ~r.out_closed /\ ~r.io -> CloseMaybe(r)
      [] OTHER -> [r EXCEPT !.closes = @ + 1]

\* start_output
StartOutput(r) ==
    IF r.connecting \/ r.out_closed \/ r.closed THEN r ELSE [r EXCEPT !.out_source = TRUE]

\* cockpit_stream_write: a stream that is closing takes nothing.
Write(n) ==
    /\ s.wrote + n <= MaxBytes
    /\ ~s.closing /\ ~s.closed
    /\ LET r == [s EXCEPT !.queue = Append(@, n), !.wrote = @ + n,
                          !.pressure = @ \/ (Sum(s.queue) < Pressure /\ Sum(s.queue) + n >= Pressure)]
       IN  s' = IF r.out_source THEN r ELSE StartOutput(r)

\* cockpit_stream_close
Close(problem) ==
    /\ ~s.closing
    /\ LET r == [s EXCEPT !.closing = TRUE]
       IN  s' = CASE problem -> CloseImmediately(r, TRUE)
                  [] ~problem /\ s.queue = <<>> -> CloseOutput(r)
                  [] OTHER -> r

\* on_throttle_pressure: the flow that takes the input signals pressure.
ThrottlePressure ==
    /\ Throttles /\ s.toggles < MaxToggles
    /\ LET r == [s EXCEPT !.throttled = ~@, !.toggles = @ + 1]
       IN  s' = IF r.throttled THEN [r EXCEPT !.in_source = FALSE]
                ELSE [r EXCEPT !.in_source = @ \/ (r.io /\ ~r.connecting)]

\* cockpit_stream_dispose, once no close of the output refers to the stream.
Dispose ==
    /\ s.closes = 0 /\ ~s.connecting /\ ~s.closed
    /\ s' = [CloseImmediately(s, TRUE) EXCEPT !.closing = TRUE]

(***************************************************************************)
(* What the main loop does.                                                *)
(***************************************************************************)
\* on_connect_stream, with initialize_io: "open" is signalled.
ConnectStream(ok) ==
    /\ s.connecting /\ (ok \/ Faults)
    /\ s' = IF ok THEN [s EXCEPT !.connecting = FALSE, !.io = TRUE, !.in_source = TRUE, !.out_source = TRUE]
            ELSE CloseImmediately(s, TRUE)

\* dispatch_input: everything there is to read, then one signal.
DispatchInput ==
    /\ s.in_source /\ (s.wire > 0 \/ s.eof)
    /\ LET r == [s EXCEPT !.wire = 0, !.buffer = @ + s.wire, !.in_done = s.eof, !.in_source = ~s.eof,
                          !.eofs = IF s.eof THEN @ + 1 ELSE @]
       IN  s' = IF s.eof THEN CloseMaybe(r) ELSE r

InputFails ==
    /\ Faults /\ s.in_source
    /\ s' = CloseImmediately(s, TRUE)

\* When all blocks are written the output is no longer watched, and closed if that was asked for.
OutputDrained(r) ==
    IF r.queue # <<>> THEN r
    ELSE LET q == [r EXCEPT !.out_source = FALSE]
         IN  IF q.closing THEN CloseOutput(q) ELSE CloseMaybe(q)

\* The blocks that are complete when n more bytes are written.
Complete(n) == Cardinality({i \in DOMAIN s.queue : Sum(SubSeq(s.queue, 1, i)) <= s.partial + n})

\* dispatch_output: the socket takes n bytes; blocks that are written leave the queue.
DispatchOutput(n) ==
    /\ s.out_source /\ n <= Sum(s.queue) - s.partial
    /\ (n = 0) = (s.queue = <<>>)
    /\ LET queue == SubSeq(s.queue, Complete(n) + 1, Len(s.queue))
       IN  s' = OutputDrained([s EXCEPT !.queue = queue, !.sent = @ + n,
                                        !.partial = @ + n - Sum(SubSeq(s.queue, 1, Complete(n))),
                                        !.pressure = @ /\ Sum(queue) >= Pressure])

OutputFails ==
    /\ Faults /\ s.out_source
    /\ s' = CloseImmediately(s, TRUE)

\* on_output_closed
OutputClosed(ok) ==
    /\ s.closes > 0 /\ (ok \/ Faults)
    /\ LET r == [s EXCEPT !.closes = @ - 1, !.out_closed = TRUE]
       IN  s' = CloseMaybe(IF ok THEN r ELSE CloseImmediately(r, TRUE))

\* The other side sends, and closes.
PeerSends ==
    /\ ~s.eof /\ ~s.connecting /\ s.got < MaxIn
    /\ s' = [s EXCEPT !.wire = @ + 1, !.got = @ + 1]

PeerCloses ==
    /\ ~s.eof /\ ~s.connecting
    /\ s' = [s EXCEPT !.eof = TRUE]

Init == \E connecting \in BOOLEAN : s = Start(connecting)

Next ==
    \/ \E n \in Blocks : Write(n)
    \/ \E problem \in BOOLEAN : Close(problem)
    \/ ThrottlePressure \/ Dispose \/ DispatchInput \/ InputFails \/ OutputFails
    \/ \E ok \in BOOLEAN : ConnectStream(ok) \/ OutputClosed(ok)
    \/ \E n \in 0..MaxBytes : DispatchOutput(n)
    \/ PeerSends \/ PeerCloses

Spec == Init /\ [][Next]_vars

(***************************************************************************)
(* Properties.                                                             *)
(***************************************************************************)
\* What the code asserts: nothing is watched after the end, or before there is a socket, and the
\* part that was written is less than its block.
TypeOK ==
    /\ s.closed => ~s.in_source /\ ~s.out_source /\ ~s.io
    /\ s.in_source \/ s.out_source => s.io /\ ~s.connecting
    /\ s.queue # <<>> => s.partial < Head(s.queue)
    /\ s.queue = <<>> => s.partial = 0

\* The "close" signal comes once.
ClosedOnce == s.ended = (IF s.closed THEN 1 ELSE 0)

\* No byte is lost or repeated, and a stream that ends without a problem has sent them all.
SentInOrder ==
    /\ s.sent + Sum(s.queue) - s.partial = s.wrote
    /\ s.buffer + s.wire = s.got
    /\ s.closed /\ ~s.problem => s.sent = s.wrote

\* While the stream lives, it signals pressure exactly when its queue is long.
PressureExact == ~s.closed => (s.pressure <=> Sum(s.queue) >= Pressure)

\* Output that waits is watched: nothing is left behind in the queue of a stream that works.
OutputWatched == s.io /\ s.queue # <<>> => s.out_source

\* A stream that its user closes comes to an end: Closing ~> Closed.
Closing == s.closing
Closed == s.closed

=============================================================================
