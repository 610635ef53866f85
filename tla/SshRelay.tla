------------------------------ MODULE SshRelay ------------------------------
(***************************************************************************)
(* The relay of cockpit-ssh once the ssh channel is open,                  *)
(* cockpitsshrelay.c from CockpitSshRelay on, with ssh.c (src/src/ssh):    *)
(* what is read from stdin is queued and written to the channel, what the  *)
(* remote bridge sends goes to stdout once it looks like a frame, and the  *)
(* ends of stdin, of the channel and of the remote process, in any order,  *)
(* end the relay with an exit code.                                        *)
(***************************************************************************)
EXTENDS Integers, SequencesExt

CONSTANTS
    MaxIn,      \* bound on the bytes of stdin
    MaxOut,     \* bound on the data messages of the remote side
    Signals,    \* whether SIGTERM may come
    StdinEnds,  \* whether stdin may end
    Faults      \* whether the connection may fail

(* What an instance has to satisfy.                                       *)
SshRelayAssumption ==
    /\ MaxIn \in Nat /\ MaxOut \in Nat
    /\ Signals \in BOOLEAN /\ StdinEnds \in BOOLEAN /\ Faults \in BOOLEAN

VARIABLES
    r,   \* the CockpitSshRelay
    h    \* the remote side of the channel

vars == <<r, h>>

(* r: data (ssh_data is there), channel (it and its callbacks), io (the    *)
(* source), quit (emit_disconnect() is due), frame (received_frame), eof   *)
(* (received_eof), closed (received_close), exit (received_exit), code     *)
(* (exit_code), sentEof, sentClose, pipeClosed, queue (blocks of bytes),   *)
(* partial; in: bytes read of stdin; out: bytes written to the channel;    *)
(* pending: messages in the queue of the pipe; stdout, stderr: those that  *)
(* came out; reply: the problem of an "init" of its own; replies: how      *)
(* many; done: the process ended; crashed: an assertion failed             *)
(* h: said, noise: the messages sent, of stdout and of stderr; wire: those *)
(* not delivered; fin: eof, exit, close in this order, as far as they were *)
(* sent                                                                    *)
Init ==
    /\ r = [data |-> TRUE, channel |-> TRUE, io |-> TRUE, quit |-> FALSE, frame |-> FALSE,
            eof |-> FALSE, closed |-> FALSE, exit |-> FALSE, code |-> "ok", sentEof |-> FALSE,
            sentClose |-> FALSE, pipeClosed |-> FALSE, queue |-> <<>>, partial |-> 0, in |-> 0,
            out |-> <<>>, pending |-> <<>>, stdout |-> <<>>, stderr |-> <<>>, reply |-> "none", replies |-> 0,
            done |-> FALSE, crashed |-> "no"]
    /\ h = [said |-> 0, noise |-> 0, wire |-> <<>>, fin |-> "open"]

-----------------------------------------------------------------------------
(* A handler maps the relay to another one.                                *)

(* exit_code_problem()                                                     *)
ExitCodeProblem(code) == IF code = "ok" THEN "null" ELSE code

(* send_auth_reply(): asserts that there is a problem.                     *)
SendAuthReply(x, problem) ==
    [x EXCEPT !.reply = problem, !.replies = @ + 1,
              !.crashed = IF problem = "null" THEN "reply" ELSE @]

(* cockpit_relay_disconnect()                                              *)
RelayDisconnect(x) ==
    LET x1 == IF x.data THEN [SendAuthReply(x, ExitCodeProblem(x.code)) EXCEPT !.data = FALSE]
              ELSE x
    IN  [x1 EXCEPT !.channel = FALSE, !.io = FALSE, !.quit = TRUE]

(* A mutant of SetCode: a later reason replaces an earlier one.            *)
SetCodeLast(x, code) == [x EXCEPT !.code = code]

(* if (!self->exit_code) self->exit_code = ...                             *)
SetCode(x, code) == [x EXCEPT !.code = IF @ = "ok" THEN code ELSE @]

(* on_channel_data(): what does not begin like a frame is printed, from a  *)
(* first frame on everything is queued for stdout.                         *)
OnChannelData(x, m) ==
    LET x1 == IF x.frame \/ m.err THEN x
              ELSE IF m.kind # "frame" THEN [x EXCEPT !.code = "no-cockpit"]
              ELSE [x EXCEPT !.frame = TRUE, !.data = FALSE]
    IN  IF m.err \/ x1.code = "no-cockpit" THEN [x1 EXCEPT !.stderr = Append(@, m)]
        ELSE IF x1.frame /\ ~x1.pipeClosed THEN [x1 EXCEPT !.pending = Append(@, m)] ELSE x1

OnChannelEof(x) == [x EXCEPT !.eof = TRUE]
OnChannelClose(x) == [x EXCEPT !.closed = TRUE]

(* on_channel_exit_signal(), and on_channel_signal() for TERM              *)
OnExitSignal(x, signal) ==
    RelayDisconnect(SetCode([x EXCEPT !.exit = TRUE],
                            IF signal = "TERM" THEN "terminated" ELSE "internal-error"))

(* on_channel_exit_status()                                                *)
OnExitStatus(x, status) ==
    LET code == IF status = 127 \/ ~x.frame THEN "no-cockpit"
                ELSE IF status # 0 THEN "internal-error" ELSE "ok"
    IN  RelayDisconnect(SetCode([x EXCEPT !.exit = TRUE], code))

(* ssh_event_dopoll() calls back while the callbacks are there.            *)
Callback(x, m) ==
    IF ~x.channel THEN x
    ELSE CASE m.kind \in {"frame", "text"} -> OnChannelData(x, m)
           [] m.kind = "eof" -> OnChannelEof(x)
           [] m.kind = "close" -> OnChannelClose(x)
           [] m.kind = "signal" -> OnExitSignal(x, m.what)
           [] OTHER -> OnExitStatus(x, m.what)

-----------------------------------------------------------------------------
(* The queue when n bytes more of it have been written                     *)
Bytes(x) == FlattenSeq(x.queue)
Written(x, n) ==
    LET upTo == x.partial + n
        gone == Max({k \in 0..Len(x.queue) : Len(FlattenSeq(SubSeq(x.queue, 1, k))) <= upTo})
    IN  [x EXCEPT !.out = @ \o SubSeq(Bytes(x), x.partial + 1, upTo),
                  !.queue = SubSeq(@, gone + 1, Len(@)),
                  !.partial = upTo - Len(FlattenSeq(SubSeq(x.queue, 1, gone)))]

(* A mutant of DispatchQueue: a block that was written in part starts      *)
(* over.                                                                   *)
DispatchQueueOver(x, n) ==
    IF x.sentEof \/ x.closed \/ ~x.channel THEN x
    ELSE [Written(x, Min({n, Len(Bytes(x)) - x.partial})) EXCEPT !.partial = 0]

(* dispatch_queue() when the channel takes n bytes, of any number of       *)
(* blocks                                                                  *)
DispatchQueue(x, n) ==
    IF x.sentEof \/ x.closed \/ ~x.channel THEN x
    ELSE Written(x, Min({n, Len(Bytes(x)) - x.partial}))

(* dispatch_queue() when the write fails: the peer is gone, or the block   *)
(* stays for another time.                                                 *)
DispatchQueueFails(x, gone) ==
    IF x.sentEof \/ x.closed \/ x.queue = <<>> \/ ~gone THEN x
    ELSE [x EXCEPT !.closed = TRUE, !.eof = TRUE]

(* dispatch_eof(), dispatch_close(): it works, it has to be tried again,   *)
(* the channel is closed already, or it fails.  They assert that they were *)
(* not done before.                                                        *)
Failed(x) == RelayDisconnect(SetCode([x EXCEPT !.exit = TRUE], "internal-error"))

DispatchEof(x, result) ==
    LET x1 == [x EXCEPT !.crashed = IF x.sentEof THEN "eof" ELSE @]
    IN  IF result = "again" THEN x1
        ELSE IF result = "ok" /\ x.channel THEN [x1 EXCEPT !.sentEof = TRUE] ELSE Failed(x1)

DispatchClose(x, result) ==
    LET x1 == [x EXCEPT !.crashed = IF x.sentClose THEN "close" ELSE @]
    IN  IF result = "again" THEN x1
        ELSE IF result = "ok" /\ x.channel THEN [x1 EXCEPT !.sentClose = TRUE] ELSE Failed(x1)

(* cockpit_ssh_source_dispatch() with G_IO_OUT                             *)
DispatchOut(x, n, write, result) ==
    LET queued == ~x.sentEof /\ ~x.closed /\ x.channel
        x1 == IF write = "ok" THEN DispatchQueue(x, n) ELSE DispatchQueueFails(x, write = "gone")
        x2 == IF (~queued \/ write # "ok" \/ x1.queue = <<>>) /\ x1.pipeClosed /\ ~x1.sentEof
              THEN DispatchEof(x1, result) ELSE x1
        x3 == IF x2.eof /\ x2.sentEof /\ ~x2.sentClose THEN DispatchClose(x2, result) ELSE x2
    IN  IF x3.eof /\ ~x3.closed /\ ~x3.sentClose THEN DispatchClose(x3, result) ELSE x3

(* The end of cockpit_ssh_source_dispatch()                                *)
DispatchEnd(x) == IF x.exit THEN RelayDisconnect(x) ELSE x

(* What cockpit_ssh_source_prepare() polls for                             *)
WantsOut(x) ==
    \/ x.queue # <<>> \/ (x.pipeClosed /\ ~x.sentEof)
    \/ (x.eof /\ x.sentEof /\ ~x.sentClose) \/ (x.closed /\ ~x.sentClose)

Results == IF Faults THEN {"ok", "again", "error"} ELSE {"ok"}

(* cockpit_ssh_source_dispatch() with a message of the remote side, or     *)
(* because there is something to write                                     *)
SourceDispatch ==
    /\ r.io /\ ~r.done /\ r.crashed = "no" /\ ~r.exit
    /\ \E some \in BOOLEAN, out \in BOOLEAN, n \in 0..2, result \in Results,
          write \in IF Faults THEN {"ok", "refused", "gone"} ELSE {"ok"} :
         /\ some => h.wire # <<>>
         /\ out => WantsOut(r) /\ (n > 0 \/ r.queue = <<>> \/ Faults)
         /\ some \/ out
         /\ (out \/ (result = "ok" /\ write = "ok"))   \* no choices where nothing is written
         /\ (out /\ write = "ok") \/ n = 0
         /\ LET x1 == IF some THEN Callback(r, Head(h.wire)) ELSE r
                x2 == IF out THEN DispatchOut(x1, n, write, result) ELSE x1
            IN  r' = DispatchEnd(x2)
         /\ h' = IF some THEN [h EXCEPT !.wire = Tail(@)] ELSE h

(* ssh_event_dopoll() fails, or G_IO_ERR                                   *)
SourceFails ==
    /\ Faults /\ r.io /\ ~r.done /\ r.crashed = "no" /\ ~r.exit
    /\ \E code \in {"terminated", "internal-error", "disconnected"} :
         LET x == IF r.sentClose \/ r.sentEof THEN [r EXCEPT !.eof = TRUE, !.closed = TRUE] ELSE r
         IN  r' = DispatchEnd(SetCode([x EXCEPT !.exit = TRUE], code))
    /\ UNCHANGED h

(* on_pipe_read()                                                          *)
OnPipeRead ==
    /\ ~r.pipeClosed /\ ~r.done /\ r.crashed = "no" /\ r.in < MaxIn
    /\ \E n \in 1..2 :
         /\ r.in + n <= MaxIn
         /\ r' = IF ~r.sentEof /\ ~r.closed
                 THEN [r EXCEPT !.in = @ + n, !.queue = Append(@, [i \in 1..n |-> r.in + i])]
                 ELSE [r EXCEPT !.in = @ + n]
    /\ UNCHANGED h

(* The pipe writes to stdout what it has queued.                           *)
PipeOutput ==
    /\ r.pending # <<>> /\ ~r.done /\ r.crashed = "no"
    /\ r' = [r EXCEPT !.stdout = Append(@, Head(r.pending)), !.pending = Tail(@)]
    /\ UNCHANGED h

(* on_pipe_read() with the end of the data, on_pipe_close(): after what is *)
(* queued, unless writing it fails                                         *)
OnPipeClose ==
    /\ StdinEnds /\ ~r.pipeClosed /\ ~r.done /\ r.crashed = "no"
    /\ r.pending = <<>> \/ Faults
    /\ \E result \in Results :
         LET x1 == [r EXCEPT !.pipeClosed = TRUE, !.frame = TRUE, !.pending = <<>>]
             x2 == IF ~x1.eof THEN DispatchEof(x1, result) ELSE x1
         IN  r' = RelayDisconnect(x2)
    /\ UNCHANGED h

(* emit_disconnect() ends the main loop, and with it the process, whatever *)
(* the pipe has queued; dispose asserts that ssh_data is gone.             *)
Ended(x) == [x EXCEPT !.done = TRUE, !.crashed = IF x.data THEN "dispose" ELSE @]

EmitDisconnect ==
    /\ r.quit /\ ~r.done /\ r.crashed = "no"
    /\ r' = Ended(r)
    /\ UNCHANGED h

OnExitSig ==
    /\ Signals /\ ~r.done /\ r.crashed = "no"
    /\ r' = Ended(r)
    /\ UNCHANGED h

-----------------------------------------------------------------------------
(* The remote side: messages, eof, the exit of the process and the close   *)
(* of the channel; a process that does not exit may leave its exit out.    *)
RemoteSpeaks ==
    /\ h.fin = "open" /\ h.said + h.noise < MaxOut
    /\ \/ \E kind \in {"frame", "text"} :
            h' = [h EXCEPT !.said = @ + 1,
                           !.wire = Append(@, [kind |-> kind, err |-> FALSE, n |-> h.said + 1])]
       \/ h' = [h EXCEPT !.noise = @ + 1,
                         !.wire = Append(@, [kind |-> "text", err |-> TRUE, n |-> h.noise + 1])]
    /\ UNCHANGED r

RemoteEof ==
    /\ h.fin = "open"
    /\ h' = [h EXCEPT !.fin = "eof", !.wire = Append(@, [kind |-> "eof"])]
    /\ UNCHANGED r

RemoteExits ==
    /\ h.fin \in {"open", "eof"}
    /\ \/ \E status \in {0, 1, 127} :
            h' = [h EXCEPT !.fin = "exit", !.wire = Append(@, [kind |-> "status", what |-> status])]
       \/ \E signal \in {"TERM", "SEGV"} :
            h' = [h EXCEPT !.fin = "exit", !.wire = Append(@, [kind |-> "signal", what |-> signal])]
    /\ UNCHANGED r

RemoteCloses ==
    /\ h.fin \in {"eof", "exit"}
    /\ h' = [h EXCEPT !.fin = "closed", !.wire = Append(@, [kind |-> "close"])]
    /\ UNCHANGED r

Next ==
    \/ SourceDispatch \/ SourceFails \/ OnPipeRead \/ PipeOutput \/ OnPipeClose \/ EmitDisconnect \/ OnExitSig
    \/ RemoteSpeaks \/ RemoteEof \/ RemoteExits \/ RemoteCloses

Spec == Init /\ [][Next]_vars

-----------------------------------------------------------------------------
TypeOK ==
    /\ r.partial \in 0..2 /\ (r.partial > 0 => r.queue # <<>> /\ r.partial < Len(Head(r.queue)))
    /\ r.replies \in 0..1 /\ r.in \in 0..MaxIn

(* What reaches the remote bridge is what was read from stdin, in order,   *)
(* in whatever parts the channel takes it, and while the channel takes any *)
(* nothing of it is lost.                                                  *)
InOrder ==
    /\ \A i \in 1..Len(r.out) : r.out[i] = i
    /\ ~r.sentEof /\ ~r.closed => Len(r.out) + Len(Bytes(r)) - r.partial = r.in

(* Whoever started cockpit-ssh sees one "init": that of the remote bridge, *)
(* or one with the problem of the relay, never one after the other.        *)
OneInit == r.replies > 0 => r.stdout \o r.pending = <<>>

(* What comes out, or is queued for it, begins with a frame and is what    *)
(* the remote bridge wrote to its stdout, from the first message on and    *)
(* without gaps; while the relay has its channel and its pipe nothing of   *)
(* it is lost.  (What is queued when the relay ends is.)                   *)
FramesOnly ==
    LET passed == r.stdout \o r.pending
        data == SelectSeq(h.wire, LAMBDA m : m.kind \in {"frame", "text"} /\ ~m.err)
    IN  passed # <<>> =>
          /\ passed[1].kind = "frame"
          /\ \A i \in 1..Len(passed) : ~passed[i].err /\ passed[i].n = i
          /\ r.channel /\ ~r.pipeClosed => Len(passed) + Len(data) = h.said

(* eof and close are sent once.  The assertions that do fail are that      *)
(* there is a problem to reply with, when stdin ends before the bridge     *)
(* spoke, and that ssh_data is gone, when a signal ends the relay first.   *)
SentOnce ==
    /\ r.crashed \notin {"eof", "close"}
    /\ r.crashed = "reply" => r.pipeClosed /\ r.stdout = <<>>
    /\ r.crashed = "dispose" => ~r.quit

(* The exit code is about the first thing that went wrong: once there is   *)
(* one it stays, except that output of something else than a bridge is     *)
(* reported as such.  (A step.)                                            *)
FirstCode == r.code # "ok" => r'.code \in {r.code, "no-cockpit"}

(* A relay that is told that its channel or its process is over ends:      *)
(* ToldToExit ~> RelayOver.                                                *)
ToldToExit == r.exit
RelayOver == r.done

=============================================================================
