-------------------------------- MODULE Pipe --------------------------------
(***************************************************************************)
(* CockpitPipe (src/src/common/cockpitpipe.c): the queue of output, the    *)
(* three file descriptors, the child process and the order in which they   *)
(* come to an end.  The other end is a process and its descendants, or the *)
(* peer of a socket.  Bytes are counted, their values are left out.        *)
(***************************************************************************)
EXTENDS Integers, Sequences, SequencesExt, FiniteSetsExt

CONSTANTS
    Kinds,          \* the kinds of pipe: subset of AllKinds
    MaxBlock,       \* size of the largest block written at once
    Iov,            \* blocks handed to writev() at once
    QueuePressure,  \* QUEUE_PRESSURE, in bytes
    Room,           \* bytes that the operating system buffers
    MaxTaken,       \* bound on the bytes the application writes
    MaxWrote,       \* bound on the bytes the peer writes
    Faults          \* subset of {"io", "again", "connect", "throttle"}

AllKinds == {"socket", "process", "pty", "failed"}

(* What an instance has to satisfy.                                       *)
PipeAssumption ==
    /\ Kinds \subseteq AllKinds
    /\ {MaxBlock, Iov, QueuePressure, Room} \subseteq Nat \ {0}
    /\ {MaxTaken, MaxWrote} \subseteq Nat
    /\ Faults \subseteq {"io", "again", "connect", "throttle"}

VARIABLES
    p,     \* the private state of the pipe
    peer   \* the other end, and what is in the buffers between

vars == <<p, peer>>

Problems == {"", "terminated", "not-found", "internal-error"}

(* xxxFd: the descriptor is not -1    xxxSrc: the source is attached       *)
(* outSrc "lost": destroyed by the main loop, but still set                *)
(* watch: child is set    closes, eofs: emissions of "close" and of "read" *)
(* with eof    later: cockpit_close_later() is due    taken, sent: bytes   *)
(* accepted and written    asked, failed: cockpit_pipe_close() was called, *)
(* a system call failed for no reason given by the model                   *)
PipeState ==
    [kind : Kinds, inFd : BOOLEAN, outFd : BOOLEAN, errFd : BOOLEAN,
     inSrc : BOOLEAN, outSrc : {"off", "on", "lost"}, errSrc : BOOLEAN,
     inDone : BOOLEAN, outDone : BOOLEAN, errDone : BOOLEAN,
     closed : BOOLEAN, closing : BOOLEAN, connecting : BOOLEAN, problem : Problems,
     watch : BOOLEAN, exited : BOOLEAN, later : BOOLEAN,
     queue : Seq(1..MaxBlock), queued : Nat, partial : Nat, pressed : BOOLEAN,
     closes : Nat, eofs : Nat, taken : Nat, sent : Nat,
     asked : BOOLEAN, failed : BOOLEAN, disposed : BOOLEAN]

(* wr, rd, ew: somebody still holds the far end of our input, output and   *)
(* error descriptors    in, out: bytes in between    wrote: bytes written  *)
PeerState ==
    [child : {"none", "running", "zombie", "reaped"}, wr : BOOLEAN, rd : BOOLEAN,
     ew : BOOLEAN, in : Nat, out : Nat, wrote : Nat]

TypeOK == p \in PipeState /\ peer \in PeerState

IsProcess(kind) == kind \in {"process", "pty"}

(* cockpit_pipe_constructed(): every source is attached at first.          *)
Pipe(kind, err, connecting) ==
    LET live == kind # "failed"
    IN  [kind |-> kind, inFd |-> live, outFd |-> live, errFd |-> err,
         inSrc |-> live, outSrc |-> IF live THEN "on" ELSE "off", errSrc |-> err,
         inDone |-> ~live, outDone |-> ~live, errDone |-> ~err,
         closed |-> FALSE, closing |-> FALSE, connecting |-> connecting,
         problem |-> IF live THEN "" ELSE "not-found",
         watch |-> IsProcess(kind), exited |-> FALSE, later |-> ~live,
         queue |-> <<>>, queued |-> 0, partial |-> 0, pressed |-> FALSE,
         closes |-> 0, eofs |-> 0, taken |-> 0, sent |-> 0,
         asked |-> FALSE, failed |-> FALSE, disposed |-> FALSE]

(* cockpit_pipe_spawn() captures stderr if asked to.                       *)
Spawn == \E err \in BOOLEAN : p = Pipe("process", err, FALSE)
Pty == p = Pipe("pty", FALSE, FALSE)
SocketConnect == \E connecting \in BOOLEAN : p = Pipe("socket", FALSE, connecting)
SpawnFails == p = Pipe("failed", FALSE, FALSE)

Init ==
    /\ \/ "process" \in Kinds /\ Spawn
       \/ "pty" \in Kinds /\ Pty
       \/ "socket" \in Kinds /\ SocketConnect
       \/ "failed" \in Kinds /\ SpawnFails
    /\ peer = [child |-> IF IsProcess(p.kind) THEN "running" ELSE "none",
               wr |-> p.inFd, rd |-> p.outFd, ew |-> p.errFd,
               in |-> 0, out |-> 0, wrote |-> 0]

-----------------------------------------------------------------------------
(* close_immediately()                                                     *)
CloseImmediately(r, problem) ==
    IF r.closed THEN r
    ELSE [r EXCEPT !.closed = TRUE, !.problem = IF problem # "" THEN problem ELSE @,
                   !.inSrc = FALSE, !.outSrc = "off", !.errSrc = FALSE,
                   !.inDone = TRUE, !.outDone = TRUE, !.errDone = TRUE,
                   !.inFd = FALSE, !.outFd = FALSE, !.errFd = FALSE,
                   !.closes = @ + IF r.watch THEN 0 ELSE 1]

(* close_maybe()                                                           *)
CloseMaybe(r) ==
    IF r.inDone /\ r.outDone /\ r.errDone THEN CloseImmediately(r, "") ELSE r

(* close_output(): a socket is shut down, anything else closed; the source *)
(* that polls the descriptor stays.                                        *)
CloseOutput(r0) ==
    LET r == [r0 EXCEPT !.outDone = TRUE]
        both == r.kind = "pty"
    IN  CloseMaybe(
          IF ~r.outFd THEN r
          ELSE IF r.kind = "socket"
               THEN IF r.connecting THEN CloseImmediately(r, "internal-error") ELSE r
          ELSE [r EXCEPT !.outFd = FALSE, !.inDone = @ \/ both,
                         !.inFd = @ /\ ~both, !.inSrc = @ /\ ~both])

(* set_problem_from_errno(), then close_immediately() without a problem of *)
(* its own, so that the child is not killed.                               *)
Fail(r, problem) == CloseImmediately([r EXCEPT !.problem = problem], "")

-----------------------------------------------------------------------------
(* dispatch_input()                                                        *)
Input ==
    /\ p.inSrc
    /\ \/ \E n \in 1..peer.in :
             peer' = [peer EXCEPT !.in = @ - n] /\ UNCHANGED p
       \/ /\ peer.in = 0 /\ ~peer.wr
          /\ p' = CloseMaybe([p EXCEPT !.inDone = TRUE, !.inSrc = FALSE, !.eofs = @ + 1])
          /\ UNCHANGED peer
       \/ /\ "io" \in Faults
          /\ p' = Fail([p EXCEPT !.failed = TRUE], "internal-error")
          /\ UNCHANGED peer

(* dispatch_error(): what is read is kept or logged, an end counts.        *)
ErrorInput ==
    /\ p.errSrc
    /\ \/ ~peer.ew /\ p' = CloseMaybe([p EXCEPT !.errDone = TRUE, !.errSrc = FALSE])
       \/ "io" \in Faults
          /\ p' = CloseImmediately([p EXCEPT !.failed = TRUE], "internal-error")
    /\ UNCHANGED peer

(* A mutant of Popped: the count goes down by what was written this time.  *)
PoppedShort(a, size) ==
    LET len == size - a.skip
    IN  IF a.ret = 0 THEN a
        ELSE IF a.ret >= len
        THEN [a EXCEPT !.n = @ + 1, !.ret = @ - len, !.queued = @ - len,
                       !.partial = 0, !.skip = 0]
        ELSE [a EXCEPT !.partial = @ + a.ret, !.ret = 0, !.skip = 0]

(* One block of those handed to writev(), of which ret bytes were written; *)
(* skip bytes of the first one had been written before.                    *)
Popped(a, size) ==
    LET len == size - a.skip
    IN  IF a.ret = 0 THEN a
        ELSE IF a.ret >= len
        THEN [a EXCEPT !.n = @ + 1, !.ret = @ - len, !.queued = @ - size,
                       !.partial = 0, !.skip = 0]
        ELSE [a EXCEPT !.partial = @ + a.ret, !.ret = 0, !.skip = 0]

Vector(r) == SubSeq(r.queue, 1, Min({Len(r.queue), Iov}))

(* The queue after ret bytes were written.                                 *)
AfterWrite(r, ret) ==
    LET a == FoldLeft(Popped,
                      [n |-> 0, ret |-> ret, queued |-> r.queued,
                       partial |-> r.partial, skip |-> r.partial], Vector(r))
    IN  [r EXCEPT !.queue = SubSeq(@, a.n + 1, Len(@)), !.partial = a.partial,
                  !.queued = a.queued, !.sent = @ + ret,
                  !.pressed = @ /\ ~(r.queued >= QueuePressure /\ a.queued < QueuePressure)]

(* The end of dispatch_output(): nothing more to write.                    *)
Drained(r) ==
    IF r.queue # <<>> THEN r
    ELSE LET r1 == [r EXCEPT !.outSrc = "off"]
         IN  IF r.closing THEN CloseOutput(r1) ELSE CloseMaybe(r1)

(* dispatch_connect()                                                      *)
ConnectFails ==
    /\ p.outSrc = "on" /\ p.connecting /\ "connect" \in Faults
    /\ p' = Fail([p EXCEPT !.connecting = FALSE, !.failed = TRUE], "not-found")
    /\ UNCHANGED peer

(* dispatch_output(), which a descriptor that is closed sets off as well.  *)
(* A write that would block or is interrupted makes it return FALSE.       *)
Output ==
    LET r == [p EXCEPT !.connecting = FALSE]
        size == FoldLeft(LAMBDA a, b : a + b, 0, Vector(r)) - r.partial
    IN  /\ p.outSrc = "on"
        /\ \/ r.queue = <<>> /\ p' = Drained(r) /\ UNCHANGED peer
           \/ /\ r.queue # <<>> /\ ~r.outFd
              /\ p' = Fail(r, "internal-error") /\ UNCHANGED peer
           \/ /\ r.queue # <<>> /\ r.outFd /\ peer.rd
              /\ \E ret \in 1..Min({size, Room - peer.out}) :
                    /\ p' = Drained(AfterWrite(r, ret))
                    /\ peer' = [peer EXCEPT !.out = @ + ret]
           \/ /\ r.queue # <<>> /\ r.outFd /\ ~peer.rd
              /\ p' = CloseImmediately(r, "terminated") /\ UNCHANGED peer
           \/ /\ r.queue # <<>> /\ "again" \in Faults
              /\ p' = [r EXCEPT !.outSrc = "lost"] /\ UNCHANGED peer
           \/ /\ r.queue # <<>> /\ "io" \in Faults
              /\ p' = Fail([r EXCEPT !.failed = TRUE], "internal-error") /\ UNCHANGED peer

Reaped(r) ==
    LET r1 == [r EXCEPT !.exited = TRUE, !.watch = FALSE]
    IN  IF ~r.outDone THEN CloseOutput(r1)
        ELSE IF r.closed THEN [r1 EXCEPT !.closes = @ + 1] ELSE r1

(* on_child_reap()                                                         *)
Reap ==
    /\ p.watch /\ peer.child = "zombie"
    /\ p' = IF p.disposed THEN [p EXCEPT !.watch = FALSE] ELSE Reaped(p)
    /\ peer' = [peer EXCEPT !.child = "reaped"]

(* on_later_close()                                                        *)
LaterClose ==
    /\ p.later
    /\ p' = CloseImmediately([p EXCEPT !.later = FALSE], "")
    /\ UNCHANGED peer

(* _cockpit_pipe_write() to a pipe that is not closed; a write while the   *)
(* child is being waited for is dropped.                                   *)
Written(r, size) ==
    [r EXCEPT !.queue = Append(@, size), !.queued = @ + size, !.taken = @ + size,
              !.pressed = @ \/ (r.queued < QueuePressure /\ r.queued + size >= QueuePressure),
              !.outSrc = IF @ = "off" /\ r.outFd THEN "on" ELSE @]

Write ==
    /\ ~p.closed /\ ~p.closing
    /\ \E size \in 1..MaxBlock :
          p.taken + size <= MaxTaken /\ p' = Written(p, size)
    /\ UNCHANGED peer

(* cockpit_pipe_close()                                                    *)
Close ==
    /\ ~p.disposed /\ ~p.asked
    /\ \E problem \in {"", "terminated"} :
          LET r == [p EXCEPT !.closing = TRUE, !.asked = TRUE]
          IN  p' = IF problem # "" THEN CloseImmediately(r, problem)
                   ELSE IF r.queue = <<>> THEN CloseOutput(r) ELSE r
    /\ UNCHANGED peer

(* on_throttle_pressure()                                                  *)
Throttle ==
    /\ "throttle" \in Faults
    /\ \/ p.inSrc /\ p' = [p EXCEPT !.inSrc = FALSE]
       \/ ~p.inSrc /\ ~p.inDone /\ p' = [p EXCEPT !.inSrc = TRUE]
    /\ UNCHANGED peer

(* cockpit_pipe_dispose()                                                  *)
Dispose ==
    /\ ~p.disposed
    /\ p' = [CloseImmediately([p EXCEPT !.asked = TRUE], "terminated") EXCEPT
               !.disposed = TRUE, !.queue = <<>>, !.queued = 0, !.partial = 0, !.pressed = FALSE]
    /\ UNCHANGED peer

-----------------------------------------------------------------------------
(* The other end.  What a process leaves behind may hold its descriptors.  *)
PeerWrites ==
    /\ peer.wr /\ peer.in < Room /\ peer.wrote < MaxWrote
    /\ peer' = [peer EXCEPT !.in = @ + 1, !.wrote = @ + 1]
    /\ UNCHANGED p

PeerReads ==
    /\ peer.out > 0 /\ peer.rd
    /\ peer' = [peer EXCEPT !.out = 0]
    /\ UNCHANGED p

PeerCloses ==
    /\ \/ peer.wr /\ peer' = [peer EXCEPT !.wr = FALSE]
       \/ peer.rd /\ peer' = [peer EXCEPT !.rd = FALSE]
       \/ peer.ew /\ peer' = [peer EXCEPT !.ew = FALSE]
    /\ UNCHANGED p

ChildExits ==
    /\ peer.child = "running"
    /\ \E keep \in BOOLEAN :
          peer' = [peer EXCEPT !.child = "zombie", !.wr = @ /\ keep, !.rd = FALSE,
                               !.ew = @ /\ keep]
    /\ UNCHANGED p

Next ==
    \/ Input \/ ErrorInput \/ Output \/ ConnectFails \/ Reap \/ LaterClose
    \/ Write \/ Close \/ Throttle \/ Dispose
    \/ PeerWrites \/ PeerReads \/ PeerCloses \/ ChildExits

Spec == Init /\ [][Next]_vars

-----------------------------------------------------------------------------
(* "close" is emitted once, when the descriptors are closed and the child, *)
(* if any, was reaped, in whatever order the ends of input, output, errors *)
(* and the process come; the exit status is known by then.                 *)
CloseOnce ==
    ~p.disposed =>
      /\ p.closes = IF p.closed /\ ~p.watch THEN 1 ELSE 0
      /\ p.closes = 1 /\ IsProcess(p.kind) => p.exited

(* "read" is called at most once with eof set, and never after "close".    *)
(* (A step.)                                                               *)
EofOnce == p'.eofs # p.eofs => p.eofs = 0 /\ p.closes = 0

(* Partial and gathered writes neither lose nor repeat a byte, and the     *)
(* count that back pressure goes by is the size of the queue.              *)
BytesConserved ==
    ~p.disposed =>
      LET size == FoldLeft(LAMBDA a, b : a + b, 0, p.queue)
      IN  /\ p.queued = size
          /\ p.taken = p.sent + size - p.partial
          /\ p.partial = 0 \/ p.partial < Head(p.queue)

(* The last pressure signal agrees with the queue.                         *)
PressureAgrees == p.pressed <=> p.queued >= QueuePressure

(* A pipe that closes by itself and without a problem has read all that    *)
(* was written to it, whoever in the process group wrote it.               *)
ReadAll == p.closes = 1 /\ p.problem = "" /\ ~p.asked => peer.in = 0 /\ ~peer.wr

(* A descriptor is not polled for input after it was closed.               *)
PolledOpen == (p.inSrc => p.inFd) /\ (p.errSrc => p.errFd)

(* A pipe that was asked to close does close: Asked ~> Closed.             *)
Asked == p.asked /\ ~p.disposed
Closed == p.closes = 1 \/ p.disposed

=============================================================================
