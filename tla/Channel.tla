------------------------------ MODULE Channel -------------------------------
(***************************************************************************)
(* Channels served by the bridge process itself (src/src/cockpit/channel.py)*)
(* in the four shapes its base classes give them:                          *)
(*                                                                         *)
(*   "plain"   ready inside do_open(), no tasks (EchoChannel);             *)
(*   "tasks"   a task makes it ready, and every message starts a task      *)
(*             that answers it (DBusChannel);                              *)
(*   "async"   one run() task that close cancels (AsyncChannel);           *)
(*   "socket"  a transport of its own (ProtocolChannel, as used by         *)
(*             SocketStreamChannel).                                       *)
(***************************************************************************)
EXTENDS Router

CONSTANT Classes   \* the shapes of channel the client opens in this instance

VARIABLE chan      \* the private state of each channel object

(* closing  _close_args is not None                                        *)
(* tasks    len(_tasks)                                                    *)
(* run      the task that do_open() started: run_wrapper(), get_ready() or *)
(*          create_transport() up to the end of create_transport_done();   *)
(*          run_wrapper() is "new" until the loop runs it for the first    *)
(*          time, and "dropped" if it was cancelled before that            *)
(* conn     ProtocolChannel._transport                                     *)
ChanState ==
    [cls : {"none", "plain", "tasks", "async", "socket"},
     closing : BOOLEAN,
     tasks : Nat,
     run : {"none", "new", "running", "cancelled", "dropped", "finished"},
     conn : {"none", "open", "closing", "lost"}]

ASSUME ClassAssumption == Classes \subseteq {"plain", "tasks", "async", "socket"}

ChannelTypeOK == chan \in [Channels -> ChanState]

NewChan(cls) ==
    [cls |-> cls, closing |-> FALSE,
     tasks |-> IF cls \in {"tasks", "async"} THEN 1 ELSE 0,
     run |-> CASE cls = "plain" -> "none" [] cls = "async" -> "new" [] OTHER -> "running",
     conn |-> "none"]

ChannelInit ==
    chan = [c \in Channels |->
              [cls |-> "none", closing |-> FALSE, tasks |-> 0,
               run |-> "none", conn |-> "none"]]

-----------------------------------------------------------------------------
(* cancel() of the run task.  Before its first step the CancelledError is  *)
(* thrown outside the "try" of run_wrapper(), and nobody calls close().    *)
Cancelled(run) ==
    CASE run = "running" -> "cancelled" [] run = "new" -> "dropped" [] OTHER -> run

(* do_close(): close() by default, cancel() of the run task, or close() of *)
(* the transport, if there is one by now.                                  *)
DoClose(r) ==
    CASE r.cls \in {"plain", "tasks"} -> [r EXCEPT !.closing = TRUE]
      [] r.cls = "async" -> [r EXCEPT !.run = Cancelled(r.run)]
      [] r.cls = "socket" -> [r EXCEPT !.conn = IF @ = "open" THEN "closing" ELSE @]
      [] OTHER -> r

Stops(k) == k.cmd \in {"close", "kill"}
Refuses(k) == k.cmd = "options"

(* What the calls of q, run in this order, do to channel state r.  After   *)
(* _close_args is set, every further call is ignored.  "options" is a      *)
(* ChannelError, which closes.  "done" makes EchoChannel close.            *)
Sets(r, k) ==
    \/ Refuses(k)
    \/ r.cls \in {"plain", "tasks"} /\ Stops(k)
    \/ r.cls = "plain" /\ k.cmd = "done"

Handled(r, q) == {i \in 1..Len(q) : ~r.closing /\ \A j \in 1..(i - 1) : ~Sets(r, q[j])}

RunCalls(r, q) ==
    LET seen == Handled(r, q)
        stop == \E i \in seen : Stops(q[i])
        r1 == IF stop THEN DoClose(r) ELSE r
        data == {i \in seen : q[i].cmd = "data"}
    IN  [r1 EXCEPT !.closing = r1.closing \/ \E i \in seen : Sets(r, q[i]),
                   !.tasks = @ + IF r.cls = "tasks" THEN Cardinality(data) ELSE 0]

Finished(r) == r.closing /\ r.tasks = 0

(* A mutant of Ends: close() does not wait for the tasks.                  *)
EndsWithTasks(c, r) == r.closing /\ ~chan[c].closing

(* close() or _task_done() brings channel c to state r: when that leaves   *)
(* it closing without tasks, _close_now() shuts the endpoint down.         *)
Ends(c, r) == Finished(r) /\ ~Finished(chan[c])
Ended(c, r) == IF Ends(c, r) THEN {c} ELSE {}

Become(c, r) ==
    /\ chan' = [chan EXCEPT ![c] = r]
    /\ ShutdownEndpoints(Ended(c, r))

-----------------------------------------------------------------------------
(* An "open" that ChannelRoutingRule gives to a new channel object.  All   *)
(* but a plain channel leave do_open() frozen.                             *)
OpenLocal(c, cls) ==
    /\ Reading /\ view[c] = "unused"
    /\ AddRoute(c, c)
    /\ chan' = [chan EXCEPT ![c] = NewChan(cls)]
    /\ frozen' = IF cls = "plain" THEN frozen ELSE frozen \cup {c}
    /\ view' = [view EXCEPT ![c] = IF cls = "plain" THEN "ready" ELSE "open"]
    /\ UNCHANGED <<queue, session, link, stray>>

(* An "open" that no rule takes (RoutingError), or whose do_open() raises  *)
(* ChannelError or closes before it returns.                               *)
OpenRefused(c) ==
    /\ Reading /\ view[c] = "unused"
    /\ view' = [view EXCEPT ![c] = "closed"]
    /\ UNCHANGED <<tables, hold, session, link, stray, chan>>

(* A frame for channel c, which its own endpoint serves: do_channel_data() *)
(* or do_channel_control().                                                *)
LocalFrame(c, cmd) ==
    /\ Reading /\ openChannels[c] = c
    /\ \/ /\ Enqueue(c, call(c, cmd))
          /\ UNCHANGED <<tables, session, link, view, stray, chan>>
       \/ /\ c \notin frozen
          /\ cmd = "data" => chan[c].tasks < MaxTasks
          /\ Become(c, RunCalls(chan[c], <<call(c, cmd)>>))
          /\ UNCHANGED <<session, stray>>

(* A mutant of MayReady: run() announces ready() more than once.           *)
MayReadyAgain(c) ==
    /\ chan[c].run = "running"
    /\ \/ chan[c].cls \in {"tasks", "async"}
       \/ chan[c].cls = "socket" /\ chan[c].conn # "none"

(* Where ready() is called: once, by the task that do_open() started.      *)
MayReady(c) ==
    /\ chan[c].run = "running"
    /\ \/ chan[c].cls \in {"tasks", "async"} /\ c \in frozen
       \/ chan[c].cls = "socket" /\ chan[c].conn # "none"

(* ready(): thaw_endpoint() runs the held back calls, then "ready" is      *)
(* written.  For DBusChannel it is the last thing get_ready() does; for    *)
(* ProtocolChannel, create_transport_done().                               *)
Ready(c) ==
    /\ MayReady(c)
    /\ LET r0 == IF chan[c].cls = "async" THEN chan[c]
                 ELSE [chan[c] EXCEPT !.run = "finished"]
           r == RunCalls(r0, queue[c])
           S == Ended(c, r)
       IN  /\ chan' = [chan EXCEPT ![c] = r]
           /\ RemoveEndpoints(S)
           /\ Release({c})
           /\ CloseAfterLast(S)
           /\ IF S # {} \/ view[c] = "closed"
              THEN CloseView(S, view) /\ stray' = stray \cup {c}
              ELSE view' = [view EXCEPT ![c] = "ready"] /\ UNCHANGED stray
    /\ UNCHANGED session

(* The loop runs run_wrapper() for the first time.                         *)
RunBegins(c) ==
    /\ chan[c].run = "new"
    /\ chan' = [chan EXCEPT ![c].run = "running"]
    /\ UNCHANGED <<tables, hold, session, link, view, stray>>

(* run() returns or raises, CancelledError included, and run_wrapper()     *)
(* closes the channel; get_ready() finds no owner and closes; or           *)
(* create_transport() raises ChannelError.                                 *)
RunEnds(c) ==
    /\ \/ chan[c].cls = "async" /\ chan[c].run \in {"running", "cancelled"}
       \/ chan[c].cls = "tasks" /\ chan[c].run = "running"
       \/ chan[c].cls = "socket" /\ chan[c].run = "running" /\ chan[c].conn = "none"
    /\ Become(c, [chan[c] EXCEPT !.run = "finished", !.closing = TRUE])
    /\ UNCHANGED <<session, stray>>

(* run() calls done().                                                     *)
RunDone(c) ==
    /\ chan[c].cls = "async" /\ chan[c].run = "running"
    /\ view[c] = "ready"
    /\ Write(c, "done")
    /\ UNCHANGED <<tables, hold, session, link, chan>>

(* The task that do_open() started has not ended.                          *)
Runs(r) == r.run \in {"new", "running", "cancelled"}

(* _task_done(): a task, other than one that still runs in do_open()'s     *)
(* place, has finished; the last one of a closing channel closes it.       *)
TaskDone(c) ==
    /\ chan[c].tasks > IF Runs(chan[c]) THEN 1 ELSE 0
    /\ Become(c, [chan[c] EXCEPT !.tasks = @ - 1])
    /\ UNCHANGED <<session, stray>>

-----------------------------------------------------------------------------
(* The transport of a ProtocolChannel.  asyncio calls connection_made()    *)
(* and starts to read before create_transport() has returned.              *)
SocketConnected(c) ==
    /\ chan[c].cls = "socket" /\ chan[c].run = "running" /\ chan[c].conn = "none"
    /\ chan' = [chan EXCEPT ![c].conn = "open"]
    /\ UNCHANGED <<tables, hold, session, link, view, stray>>

(* data_received(), then perhaps pause_reading(), which is left out.       *)
SocketData(c) ==
    /\ chan[c].conn = "open"
    /\ Write(c, view[c])
    /\ UNCHANGED <<tables, hold, session, link, chan>>

(* data_received() of something that is not UTF-8 on a text channel:       *)
(* ChannelError, and close().                                              *)
SocketGarbage(c) ==
    /\ chan[c].conn = "open"
    /\ Become(c, [chan[c] EXCEPT !.closing = TRUE])
    /\ UNCHANGED <<session, stray>>

(* eof_received(): done(), and the transport closes (close_on_eof).        *)
SocketEof(c) ==
    /\ chan[c].conn = "open"
    /\ chan' = [chan EXCEPT ![c].conn = "closing"]
    /\ Write(c, "done")
    /\ UNCHANGED <<tables, hold, session, link>>

(* connection_lost(): the transport closed, or the connection broke.  The  *)
(* loop has run create_transport_done() by then, unless it was the EOF of  *)
(* the router that closed the transport.                                   *)
SocketLost(c) ==
    /\ chan[c].conn \in {"open", "closing"}
    /\ chan[c].run = "finished" \/ eof
    /\ Become(c, [chan[c] EXCEPT !.conn = "lost", !.closing = TRUE])
    /\ UNCHANGED <<session, stray>>
=============================================================================
