---------------------------- MODULE SpawnStream -----------------------------
(***************************************************************************)
(* A "stream" channel with a spawned process: SubprocessStreamChannel      *)
(* (src/src/cockpit/channels/stream.py), the ProtocolChannel it is, the    *)
(* SubprocessTransport it reads and writes through                         *)
(* (src/src/cockpit/transports.py), the process, and the client.           *)
(*                                                                         *)
(* Data is counted in bytes.  The process, with the children that inherit  *)
(* its pipes, reads, writes, closes pipes and exits as it likes.  The      *)
(* "pty" option, where one fd serves both directions, is not covered.      *)
(***************************************************************************)
EXTENDS Integers, Sequences, FiniteSets

CONSTANTS
    Frames,     \* sizes of the data frames the client sends
    PipeSize,   \* capacity of the pipe to the process
    IOV_MAX,    \* blocks that one writev() takes
    TotalIn,    \* bound on the bytes the client sends
    TotalOut    \* bound on the bytes the process writes

(* What an instance has to satisfy.                                       *)
StreamAssumption ==
    /\ Frames \subseteq Nat
    /\ PipeSize \in Nat \ {0} /\ IOV_MAX \in Nat \ {0}
    /\ TotalIn \in Nat /\ TotalOut \in Nat

VARIABLES
    st,            \* the channel and its transport, see StreamState
    proc,          \* the process: "running" or "exited"
    pipe,          \* bytes in the pipe to the process
    hasInput,      \* somebody has the reading end of that pipe
    consumed,      \* bytes read from it
    avail,         \* bytes in the pipe from the process
    hasOutput,     \* somebody has the writing end of that pipe
    produced,      \* bytes written to it
    clientDone,    \* the client has sent "done"
    clientClosed   \* the client has sent "close"

input == <<pipe, hasInput, consumed>>
output == <<avail, hasOutput, produced>>
client == <<clientDone, clientClosed>>
vars == <<st, proc, input, output, client>>

(* _Transport:       reading, inFd (_in_fd is not -1), queue (_queue, the  *)
(*                   sizes of its blocks; empty for None), eof, closing,   *)
(*                   lost (how often connection_lost() was scheduled)      *)
(* SubprocessTransport: stdin (still open), sigterm (terminate() called),  *)
(*                   reaped (_returncode is known)                         *)
(* ProtocolChannel:  closeOnEof, eofSeen (_eof), sendPongs, lastPing (its  *)
(*                   sequence, 0 for None)                                 *)
(* What was said to the client: delivered (bytes), done, ponged (the last  *)
(* pong), closed, status (whether the close has the exit status)           *)
(* The decoder of a text channel: held (the bytes it keeps of a character  *)
(* that is not complete), garbled (it has met what is not UTF-8)           *)
(* accepted counts the bytes that write() took, broken records EPIPE.      *)
StreamState ==
    [reading : BOOLEAN, inFd : BOOLEAN, queue : Seq(Nat), eof : BOOLEAN,
     closing : BOOLEAN, lost : Nat,
     stdin : BOOLEAN, sigterm : BOOLEAN, reaped : BOOLEAN,
     closeOnEof : BOOLEAN, eofSeen : BOOLEAN, sendPongs : BOOLEAN, lastPing : Nat,
     delivered : Nat, done : BOOLEAN, ponged : Nat, closed : BOOLEAN, status : BOOLEAN,
     held : 0..3, garbled : BOOLEAN, accepted : Nat, broken : BOOLEAN]

TypeOK ==
    /\ st \in StreamState
    /\ proc \in {"running", "exited"}
    /\ pipe \in 0..PipeSize /\ hasInput \in BOOLEAN /\ consumed \in Nat
    /\ avail \in Nat /\ hasOutput \in BOOLEAN /\ produced \in Nat
    /\ clientDone \in BOOLEAN /\ clientClosed \in BOOLEAN

(* The process has been spawned and the channel is ready.                  *)
Init ==
    /\ st = [reading |-> TRUE, inFd |-> TRUE, queue |-> <<>>, eof |-> FALSE,
             closing |-> FALSE, lost |-> 0,
             stdin |-> TRUE, sigterm |-> FALSE, reaped |-> FALSE,
             closeOnEof |-> FALSE, eofSeen |-> FALSE, sendPongs |-> TRUE, lastPing |-> 0,
             delivered |-> 0, done |-> FALSE, ponged |-> 0, closed |-> FALSE,
             status |-> FALSE, held |-> 0, garbled |-> FALSE, accepted |-> 0, broken |-> FALSE]
    /\ proc = "running"
    /\ pipe = 0 /\ hasInput = TRUE /\ consumed = 0
    /\ avail = 0 /\ hasOutput = TRUE /\ produced = 0
    /\ clientDone = FALSE /\ clientClosed = FALSE

-----------------------------------------------------------------------------
(* The blocks of the write queue.                                          *)
SumTo(q) == [i \in 0..Len(q) |->
               LET sum[k \in 0..i] == IF k = 0 THEN 0 ELSE sum[k - 1] + q[k] IN sum[i]]
Size(q) == SumTo(q)[Len(q)]

(* A mutant of Unwritten: a block that was written in part is gone.        *)
UnwrittenInPart(q, n) ==
    SubSeq(q, 1 + Cardinality({i \in 1..Len(q) : SumTo(q)[i - 1] < n}), Len(q))

(* What _write_ready() leaves of q after n bytes were written: it pops     *)
(* blocks only while bytes are left to account for.                        *)
Unwritten(q, n) ==
    LET whole == {i \in 1..Len(q) : SumTo(q)[i - 1] < n /\ SumTo(q)[i] <= n}
        k == Cardinality(whole)
        rest == SubSeq(q, k + 1, Len(q))
    IN  IF n > SumTo(q)[k] THEN [rest EXCEPT ![1] = @ - (n - SumTo(q)[k])] ELSE rest

(* write() joins the blocks when there are more than IOV_MAX.              *)
Enqueued(q, n) ==
    IF Len(q) >= IOV_MAX THEN <<Size(q) + n>> ELSE Append(q, n)

-----------------------------------------------------------------------------
(* What the methods of transport and channel do to their state s.          *)

CloseReader(s) == [s EXCEPT !.reading = FALSE, !.inFd = FALSE]

ResumeReading(s) == IF s.inFd THEN [s EXCEPT !.reading = TRUE] ELSE s

(* resume_writing() answers the ping that was put off.                     *)
ResumeWriting(s) ==
    [s EXCEPT !.sendPongs = TRUE, !.lastPing = 0,
              !.ponged = IF s.lastPing = 0 THEN @ ELSE s.lastPing]

RemoveWriteQueue(s) == [ResumeWriting(s) EXCEPT !.queue = <<>>]

CreateWriteQueue(s, n) == [s EXCEPT !.queue = <<n>>, !.sendPongs = FALSE]

(* send_signal() leaves a process alone that has been reaped.              *)
Terminate(s) == [s EXCEPT !.sigterm = @ \/ ~s.reaped]

(* abort(), with _close() of SubprocessTransport.                          *)
Abort(s) ==
    LET r == IF s.queue = <<>> THEN CloseReader(s) ELSE RemoveWriteQueue(CloseReader(s))
    IN  Terminate([r EXCEPT !.closing = TRUE, !.lost = @ + 1, !.stdin = FALSE])

(* close(): the write queue is written first.                              *)
Close(s) ==
    IF s.closing THEN s
    ELSE IF s.queue = <<>> THEN Abort(s)
    ELSE [CloseReader(s) EXCEPT !.closing = TRUE]

(* write_eof(), which also waits for the write queue.                      *)
WriteEofNow(s) == [s EXCEPT !.stdin = FALSE]
WriteEof(s) ==
    LET r == [s EXCEPT !.eof = TRUE] IN IF s.queue = <<>> THEN WriteEofNow(r) ELSE r

(* A mutant of Drained: the EOF that waits is forgotten.                   *)
DrainedNoEof(s) ==
    LET r == RemoveWriteQueue(s) IN IF s.closing THEN Abort(r) ELSE r

(* The write queue has been written.                                       *)
Drained(s) ==
    LET r == RemoveWriteQueue(s)
        r1 == IF s.eof THEN WriteEofNow(r) ELSE r
    IN  IF s.closing THEN Abort(r1) ELSE r1

BrokenPipe(s) == Abort([s EXCEPT !.broken = TRUE])

(* close_on_eof() and eof_received() of the channel.                       *)
CloseOnEof(s) ==
    LET r == [s EXCEPT !.closeOnEof = TRUE] IN IF s.eofSeen THEN Close(r) ELSE r

(* done() of a text channel decodes what is left.  A character that was    *)
(* cut off is an error there, which leaves eof_received() and _read_ready():*)
(* there is no "done", and no close() of the transport either.             *)
EofReceived(s) ==
    LET r == [CloseReader(s) EXCEPT !.eofSeen = TRUE]
        told == [r EXCEPT !.done = TRUE]
    IN  IF s.held > 0 THEN [r EXCEPT !.garbled = TRUE]
        ELSE IF s.closeOnEof THEN Close(told) ELSE told

-----------------------------------------------------------------------------
(* Frames from the client.  After its "close" come only pongs.             *)
Open == ~st.closed /\ ~clientClosed

(* do_data() and write(), which ignores data once the transport closes.    *)
ClientData(n) ==
    /\ Open /\ ~clientDone /\ ~st.closing
    /\ st.accepted + n <= TotalIn
    /\ LET s == [st EXCEPT !.accepted = @ + n]
       IN  \/ /\ st.queue # <<>>
              /\ st' = [s EXCEPT !.queue = Enqueued(@, n)]
              /\ UNCHANGED pipe
           \/ /\ st.queue = <<>> /\ (hasInput \/ n = 0)
              /\ \E m \in IF n <= PipeSize - pipe THEN {n} ELSE 0..(PipeSize - pipe) :
                    /\ pipe' = pipe + m
                    /\ st' = IF m = n THEN s ELSE CreateWriteQueue(s, n - m)
           \/ /\ st.queue = <<>> /\ ~hasInput /\ n # 0
              /\ st' = BrokenPipe(st)
              /\ UNCHANGED pipe
    /\ UNCHANGED <<proc, hasInput, consumed, output, client>>

(* do_done(): once _close() has run, can_write_eof() is false.             *)
ClientDone ==
    /\ Open /\ ~clientDone
    /\ clientDone' = TRUE
    /\ st' = IF st.lost > 0 THEN st ELSE WriteEof(st)
    /\ UNCHANGED <<proc, input, output, clientClosed>>

ClientClose ==
    /\ Open
    /\ clientClosed' = TRUE
    /\ st' = Close(st)
    /\ UNCHANGED <<proc, input, output, clientDone>>

(* do_ping(), of a ping that the client sends after the bytes so far.      *)
ClientPing ==
    /\ Open /\ st.accepted > st.ponged /\ st.accepted > st.lastPing
    /\ st' = IF st.sendPongs THEN [st EXCEPT !.ponged = st.accepted]
                             ELSE [st EXCEPT !.lastPing = st.accepted]
    /\ UNCHANGED <<proc, input, output, client>>

(* do_resume_send(), for a pong that opens the window again.               *)
ClientPong ==
    /\ ~st.closed /\ st.delivered > 0
    /\ st' = ResumeReading(st)
    /\ UNCHANGED <<proc, input, output, client>>

-----------------------------------------------------------------------------
(* Callbacks of the event loop.                                            *)

(* data_received() of n bytes.  A channel with text sends the characters   *)
(* that are complete, and reading pauses when the window is full; what is  *)
(* not UTF-8 is dropped and closes the channel, but not its transport.     *)
Received(n) ==
    \/ \E full \in BOOLEAN, h \in 0..3 :
          /\ h <= st.held + n
          /\ full => st.delivered + st.held + n > h
          /\ st' = [st EXCEPT !.delivered = @ + st.held + n - h, !.held = h, !.reading = ~full]
    \/ st' = [st EXCEPT !.garbled = TRUE, !.closed = TRUE]

(* _read_ready(): data or EOF.                                             *)
ReadReady ==
    /\ st.reading
    /\ \/ /\ avail > 0
          /\ Received(avail)
          /\ avail' = 0
       \/ /\ avail = 0 /\ ~hasOutput
          /\ st' = EofReceived(st)
          /\ UNCHANGED avail
    /\ UNCHANGED <<proc, input, hasOutput, produced, client>>

(* _write_ready().  Empty blocks alone make it run without any effect.     *)
WriteReady ==
    /\ Size(st.queue) > 0
    /\ \/ /\ hasInput
          /\ \E n \in 1..(PipeSize - pipe) :
                /\ n <= Size(st.queue)
                /\ pipe' = pipe + n
                /\ st' = IF Unwritten(st.queue, n) = <<>> THEN Drained(st)
                         ELSE [st EXCEPT !.queue = Unwritten(@, n)]
       \/ ~hasInput /\ st' = BrokenPipe(st) /\ UNCHANGED pipe
    /\ UNCHANGED <<proc, hasInput, consumed, output, client>>

(* _exited(), called by the child watcher; then process_exited().          *)
Exited ==
    /\ proc = "exited" /\ ~st.reaped
    /\ LET r == [st EXCEPT !.reaped = TRUE]
       IN  st' = IF st.closing THEN r ELSE CloseOnEof(r)
    /\ UNCHANGED <<proc, input, output, client>>

(* connection_lost(): the channel closes, with what is known of the exit.  *)
ConnectionLost ==
    /\ st.lost > 0 /\ ~st.closed
    /\ st' = [st EXCEPT !.closed = TRUE, !.status = st.reaped]
    /\ UNCHANGED <<proc, input, output, client>>

-----------------------------------------------------------------------------
(* The process and its children.                                           *)
ProcRead ==
    /\ hasInput /\ pipe > 0
    /\ pipe' = pipe - 1 /\ consumed' = consumed + 1
    /\ UNCHANGED <<st, proc, hasInput, output, client>>

ProcWrite ==
    /\ hasOutput /\ produced < TotalOut
    /\ produced' = produced + 1 /\ avail' = avail + 1
    /\ UNCHANGED <<st, proc, input, hasOutput, client>>

ProcClose ==
    /\ hasInput' \in {hasInput, FALSE} /\ hasOutput' \in {hasOutput, FALSE}
    /\ UNCHANGED <<st, proc, pipe, consumed, avail, produced, client>>

(* It exits; its children may still have the pipes.                        *)
ProcExit ==
    /\ proc = "running"
    /\ proc' = "exited"
    /\ hasInput' \in {hasInput, FALSE} /\ hasOutput' \in {hasOutput, FALSE}
    /\ UNCHANGED <<st, pipe, consumed, avail, produced, client>>

ClientStep == (\E n \in Frames : ClientData(n)) \/ ClientDone \/ ClientClose
              \/ ClientPing \/ ClientPong
BridgeStep == ReadReady \/ WriteReady \/ Exited \/ ConnectionLost
ProcStep == ProcRead \/ ProcWrite \/ ProcClose \/ ProcExit

Next == ClientStep \/ BridgeStep \/ ProcStep

Spec == Init /\ [][Next]_vars

-----------------------------------------------------------------------------
(* Input is neither lost, repeated nor cut off by "done" or "close": short *)
(* of a broken pipe, what write() took is read, in the pipe or queued, and *)
(* the pipe is closed only after the queue is written.                     *)
InputKept ==
    ~st.broken => /\ st.accepted = consumed + pipe + Size(st.queue)
                  /\ ~st.stdin => st.queue = <<>>

(* A channel that closes because its process is gone has sent all output,  *)
(* "done" and the exit status, whether the exit or the end of the output   *)
(* was noticed first, with reading paused in between or not, and however   *)
(* the output is cut into reads: text that is UTF-8 never fails.           *)
OutputComplete ==
    st.closed /\ ~clientClosed /\ ~st.broken /\ ~st.garbled =>
        st.delivered = produced /\ avail = 0 /\ st.done /\ st.status

(* However close(), errors, EOF, exit and a drained queue come together,   *)
(* connection_lost() is called once.                                       *)
LostOnce == st.lost <= 1

(* Nothing is read any more after EOF or close(), late pongs included.     *)
ReaderStops == st.reading => st.inFd /\ ~st.closing /\ ~st.eofSeen

(* A pong says that the data before its ping has reached the pipe.         *)
PongsHonest == ~st.broken => st.ponged <= consumed + pipe

(* Nothing of the output is lost or sent twice while the channel is open:  *)
(* what was written is sent, held by the decoder, or still in the pipe.    *)
OutputKept ==
    ~st.garbled => produced = st.delivered + st.held + avail

(* A process that has exited and left its output closes the channel, unless*)
(* the output of a text channel ends in the middle of a character:         *)
(* ProcessOver ~> ChannelClosed \/ CutOff.                                 *)
ProcessOver == proc = "exited" /\ ~hasOutput
ChannelClosed == st.closed
CutOff == st.garbled /\ ~clientClosed

(* A client's "close" closes the channel: ClientClosed ~> ChannelClosed.   *)
ClientClosed == clientClosed

(* A ping that was put off is answered: PingOwed ~> ~PingOwed.             *)
PingOwed == st.lastPing # 0

(* After "done" the input of the process is shut down (protocol.md):       *)
(* DoneSent ~> InputShut, if the process reads its input.                  *)
DoneSent == clientDone
InputShut == ~st.stdin

=============================================================================
