----------------------------- MODULE DBusChannel ----------------------------
(***************************************************************************)
(* How a dbus-json3 channel of the Python bridge opens and follows the     *)
(* owner of its name (DBusChannel of cockpit/channels/dbus.py), with the   *)
(* bus, which delivers signals and replies in the order in which it sent   *)
(* them.                                                                   *)
(***************************************************************************)
EXTENDS Naturals, Sequences, SequencesExt, FiniteSets

CONSTANTS
    MaxChanges  \* how often the name changes hands by itself

(* What an instance has to satisfy.                                       *)
OwnerAssumption == MaxChanges \in Nat

VARIABLE d  \* a record with the fields
    \* real     the owner of the name on the bus, a number, 0 for none; last: the last one given
    \* changes  how often the name has changed hands by itself
    \* asked    the request that the bus has not answered: "GetNameOwner", "StartServiceByName"
    \* bus      what the bus has sent and the bridge has not read
    \* owner    owner of the channel; at: where its task is, or how it ended
    \* matched  the handler of NameOwnerChanged is installed
    \* answer   the reply that was read and that the task of the channel has not seen
    \* told     the owner messages that the client was sent; failed: which of them is of a start
    \*          that failed
    \* crossed  a signal was handled between the reading of a reply and the task that waits for it

vars == d

Nothing == [k |-> "", o |-> 0]

Init ==
    d = [real |-> 0, last |-> 0, changes |-> 0, asked |-> "", bus |-> <<>>, owner |-> 0, at |-> "new",
         matched |-> FALSE, answer |-> Nothing, told |-> <<>>, failed |-> 0, crossed |-> FALSE]

Signal(o) == [k |-> "NameOwnerChanged", o |-> o]
Reply(k, o) == [k |-> k, o |-> o]

\* send_json(owner=...)
Send(s, o) == [s EXCEPT !.told = Append(@, o)]

\* A mutant of SendOwner: the owner is sent again.
SendOwnerAgain(s, o) == [Send(s, o) EXCEPT !.owner = o]

\* send_owner
SendOwner(s, o) == IF s.owner = o THEN s ELSE [Send(s, o) EXCEPT !.owner = o]

\* The rest of get_ready()
GetReady(s) == [s EXCEPT !.at = IF s.owner # 0 THEN "ready" ELSE "closed"]

\* do_open() and setup_name_owner_tracking() up to its first await, on a bus where somebody owns
\* the name or nobody.
Open ==
    /\ d.at = "new"
    /\ \E name \in BOOLEAN :
          d' = [d EXCEPT !.at = "asking", !.asked = "GetNameOwner", !.matched = TRUE,
                         !.real = IF name THEN 1 ELSE 0, !.last = IF name THEN 1 ELSE 0]

\* A message of the bus is read: the handler of a signal runs at once, a reply completes the
\* future for which setup_name_owner_tracking() waits, and its task runs later.
Receive ==
    /\ d.bus # <<>>
    /\ LET m == Head(d.bus)
           s == [d EXCEPT !.bus = Tail(@)]
       IN  d' = IF m.k = "NameOwnerChanged"
                THEN [SendOwner(s, m.o) EXCEPT !.crossed = @ \/ d.answer # Nothing]
                ELSE [s EXCEPT !.answer = m]

\* The task goes on with the reply.
Resume ==
    /\ d.answer # Nothing
    /\ LET m == d.answer
           s == [d EXCEPT !.answer = Nothing]
       IN  d' = CASE m.k = "owner" -> GetReady(SendOwner(s, m.o))
                  [] m.k = "no owner" -> [s EXCEPT !.at = "starting", !.asked = "StartServiceByName"]
                  [] m.k \in {"error", "started"} -> GetReady(s)
                  [] m.k = "not started" -> GetReady([Send(s, 0) EXCEPT !.failed = Len(s.told) + 1])

\* The client closes the channel: do_close().
DoClose == d.at = "ready" /\ d' = [d EXCEPT !.at = "closed", !.matched = FALSE, !.bus = <<>>]

-----------------------------------------------------------------------------
\* The bus.  A change of the owner goes to whoever asked for it.
Changed(s, o) ==
    LET r == [s EXCEPT !.real = o] IN IF s.matched THEN [r EXCEPT !.bus = Append(@, Signal(o))] ELSE r

NameTaken ==
    /\ d.at # "new" /\ d.changes < MaxChanges
    /\ d' = Changed([d EXCEPT !.changes = @ + 1, !.last = @ + 1], d.last + 1)
NameLost ==
    /\ d.real # 0 /\ d.changes < MaxChanges
    /\ d' = Changed([d EXCEPT !.changes = @ + 1], 0)
BusTellsOwner ==
    /\ d.asked = "GetNameOwner"
    /\ \E r \in {Reply("error", 0), IF d.real = 0 THEN Reply("no owner", 0) ELSE Reply("owner", d.real)} :
          d' = [d EXCEPT !.asked = "", !.bus = Append(@, r)]
\* "If it starts successfully, we will get a NameOwnerChanged signal ... before
\* StartServiceByName returns."
BusStarts ==
    /\ d.asked = "StartServiceByName"
    /\ LET s == [d EXCEPT !.asked = ""]
           up == IF d.real = 0 THEN Changed([s EXCEPT !.last = @ + 1], d.last + 1) ELSE s
       IN  d' = [up EXCEPT !.bus = Append(@, Reply("started", 0))]
BusCannotStart ==
    /\ d.asked = "StartServiceByName" /\ d.real = 0
    /\ d' = [d EXCEPT !.asked = "", !.bus = Append(@, Reply("not started", 0))]

Next ==
    \/ Open \/ Receive \/ Resume \/ DoClose \/ NameTaken \/ NameLost \/ BusTellsOwner \/ BusStarts \/ BusCannotStart

Spec == Init /\ [][Next]_vars

(***************************************************************************)
(* Properties.                                                             *)
(***************************************************************************)
\* Once the bridge has read everything, the client of a channel that is ready knows who owns
\* the name, whatever signals and replies have crossed on the bus.  (Not if a signal is handled
\* after a reply and before the task that waits for the reply: what the task sends then is old,
\* and stays.)
OwnerCurrent ==
    d.at = "ready" /\ d.bus = <<>> /\ ~d.crossed =>
        d.owner = d.real /\ d.told # <<>> /\ Last(d.told) = d.real

\* "We must be careful not to send duplicate owner notifications.  cockpit.js relies on that."
\* No owner and no null is sent twice in a row, however signals, replies and the task
\* interleave, but for the null that follows a service that cannot be started: it is sent
\* without being compared and without being noted in self.owner.
NoRepeatedOwner ==
    \A i \in 2..Len(d.told) : d.told[i] = d.told[i - 1] => d.told[i] = 0 /\ d.failed \in {i - 1, i}
\* Opening comes to an end: Asking ~> Opened.
Asking == d.at = "asking"
Opened == d.at \in {"ready", "closed"}

-----------------------------------------------------------------------------
(***************************************************************************)
(* Watches, calls and their order in a dbus-json3 channel of the Python    *)
(* bridge (DBusChannel of cockpit/channels/dbus.py).  A service has        *)
(* objects, each of one interface, below an object manager that has one    *)
(* property.  "Every message coming from D-Bus will wait on the mutex for  *)
(* its turn": `line' is that mutex, its head the task that holds it.       *)
(***************************************************************************)
CONSTANTS
    Ifaces,    \* the interfaces
    MaxEvents, \* how often the service changes
    MaxCalls,  \* how many calls the client makes
    Removes,   \* may the service remove objects
    Fails      \* may a call or the watch fail

(* What an instance has to satisfy.                                       *)
WatchAssumption ==
    /\ IsFiniteSet(Ifaces) /\ MaxEvents \in Nat /\ MaxCalls \in Nat /\ Removes \in BOOLEAN /\ Fails \in BOOLEAN

VARIABLE w  \* a record with the fields
    \* objs, val    the objects and the property of the service; events, calls: how many there were
    \* props, mgr   the matches for PropertiesChanged and for InterfacesAdded and -Removed
    \* bus      what the bus has sent and the bridge has not read
    \* line     the tasks of the channel at the lock; req: what its holder has asked the service,
    \*          and of which object if not of the manager
    \*          (a message or task has a kind k, a number n, and a set is of interfaces)
    \* metas, found     what a watch has collected: descriptions, and objects still to look at
    \* all, got         the objects and the value that it has collected
    \* cache, old       of the InterfaceCache
    \* sent     signals sent to this channel; past: those whose messages went to the client
    \* seen, value, meta    objects, property and interface descriptions that the client has
    \* bare     interfaces the client was told of without a description
    \* watched  the state of the watch: "", "asked", "on", "failed"
    \* hasty    replies that overtook what happened before them

watchVars == w

Ask(q, is) == [q |-> q, is |-> is]

WatchInit ==
    w = [objs |-> {}, val |-> 0, events |-> 0, calls |-> 0, props |-> FALSE, mgr |-> FALSE, bus |-> <<>>,
         line |-> <<>>, req |-> Ask("", {}), metas |-> {}, found |-> {}, all |-> {}, got |-> 0,
         cache |-> {}, old |-> {}, sent |-> 0, past |-> 0, seen |-> {}, value |-> 0, meta |-> {}, bare |-> {},
         watched |-> "", hasty |-> {}]

Msg(k, n, is) == [k |-> k, n |-> n, is |-> is]
Queue(s, t) == [s EXCEPT !.line = Append(@, t)]
Done(s) == [s EXCEPT !.line = Tail(@), !.req = Ask("", {})]
Holder == Head(w.line)

\* What goes to the client: a "meta" and a "notify" with objects that have come.
Notify(s, metas, is) ==
    [s EXCEPT !.meta = @ \cup metas, !.seen = @ \cup is, !.bare = @ \cup (is \ (s.meta \cup metas))]
Past(s) == [s EXCEPT !.past = @ + 1]

\* The reply to a call, with the number of signals that came before it.
SendReply(s, n) == IF s.past < n THEN [s EXCEPT !.hasty = @ \cup {"reply"}] ELSE s

\* do_call() after a BusError: the error is sent at once.
SendError(s, n) == IF s.past < n THEN [s EXCEPT !.hasty = @ \cup {"error"}] ELSE s

\* get_interface_if_new() up to the introspection, if there has to be one.
IfNew(s, i) ==
    CASE i \in s.old -> [ask |-> FALSE, s |-> s]
      [] i \notin s.old /\ i \in s.cache -> [ask |-> FALSE, s |-> [s EXCEPT !.old = @ \cup {i}, !.metas = @ \cup {i}]]
      [] OTHER -> [ask |-> TRUE, s |-> [s EXCEPT !.old = @ \cup {i}]]

\* The end of InterfacesAdded
Added(s, is) == Past(Done([Notify(s, s.metas, is) EXCEPT !.metas = {}]))

\* The end of do_watch()
WatchEnds(s) ==
    Done([Notify(s, s.metas, s.all) EXCEPT !.value = s.got, !.metas = {}, !.all = {}, !.watched = "on"])

\* The loop of setup_objectmanager_watch(): the next object that needs an introspection.
WatchLoop(s) ==
    LET known == {i \in s.found : ~IfNew(s, i).ask}
        r == [s EXCEPT !.found = @ \ known, !.old = @ \cup known, !.metas = @ \cup (known \cap (s.cache \ s.old))]
    IN  IF r.found = {} THEN WatchEnds(r)
        ELSE LET i == CHOOSE j \in r.found : TRUE
             IN  [r EXCEPT !.found = @ \ {i}, !.old = @ \cup {i}, !.req = Ask("Introspect", {i})]

-----------------------------------------------------------------------------
\* The task that holds the lock goes on until it sends or asks the service.
Holds ==
    /\ w.line # <<>> /\ w.req.q = ""
    /\ LET is == Holder.is
           n == IfNew(w, CHOOSE i \in is : TRUE)
       IN  w' = CASE Holder.k = "watch" -> [w EXCEPT !.req = Ask("IntrospectRoot", {})]
                  [] Holder.k = "added" ->
                         IF n.ask THEN [n.s EXCEPT !.req = Ask("Introspect", is)] ELSE Added(n.s, is)
                  [] Holder.k = "removed" -> Past(Done([w EXCEPT !.seen = @ \ is]))
                  [] Holder.k = "changed" -> Past(Done([w EXCEPT !.value = Holder.n]))
                  [] Holder.k = "invalidated" -> [w EXCEPT !.req = Ask("Get", {})]
                  [] Holder.k = "reply" -> Done(SendReply(w, Holder.n))

\* The service answers the holder of the lock.
Answer(s, m) ==
    CASE m.k = "error" -> Done([s EXCEPT !.watched = "failed", !.metas = {}, !.all = {}])
      [] m.k = "root" -> [s EXCEPT !.props = TRUE, !.req = Ask("GetAll", {})]
      [] m.k = "all" -> [s EXCEPT !.got = m.n, !.mgr = TRUE, !.req = Ask("GetManagedObjects", {})]
      [] m.k = "objects" -> WatchLoop([s EXCEPT !.all = m.is, !.found = m.is])
      [] m.k = "value" -> Past(Done([s EXCEPT !.value = m.n]))
      [] m.k = "described" ->
             LET n == [s EXCEPT !.cache = @ \cup m.is, !.metas = @ \cup m.is]
             IN  IF Holder.k = "watch" THEN WatchLoop(n) ELSE Added(n, Holder.is)

\* A message of the bus is read: a signal or a reply makes a task that waits for the lock.
Dispatch ==
    /\ w.bus # <<>>
    /\ LET m == Head(w.bus)
           s == [w EXCEPT !.bus = Tail(@)]
       IN  w' = CASE m.k \in {"added", "removed", "changed", "invalidated", "reply"} -> Queue(s, m)
                  [] m.k = "failure" -> SendError(s, m.n)
                  [] OTHER -> Answer(s, m)

\* do_watch(), once.
DoWatch == w.watched = "" /\ w' = Queue([w EXCEPT !.watched = "asked"], Msg("watch", 0, {}))

\* do_meta()
DoMeta(i) == i \notin w.cache /\ w.watched = "" /\ w' = [w EXCEPT !.cache = @ \cup {i}]

-----------------------------------------------------------------------------
\* The service and the bus.
Put(s, k, n, is) == [s EXCEPT !.bus = Append(@, Msg(k, n, is))]
Emit(s, on, k, n, is) == IF on THEN [Put(s, k, n, is) EXCEPT !.sent = @ + 1] ELSE s

Adds(s, i) == Emit([s EXCEPT !.objs = @ \cup {i}], s.mgr, "added", 0, {i})
Changes(s) == Emit([s EXCEPT !.val = @ + 1], s.props, "changed", s.val + 1, {})

ServiceAdds(i) ==
    /\ i \notin w.objs /\ w.events < MaxEvents
    /\ w' = Adds([w EXCEPT !.events = @ + 1], i)
ServiceRemoves(i) ==
    /\ Removes /\ i \in w.objs /\ w.events < MaxEvents
    /\ w' = Emit([w EXCEPT !.events = @ + 1, !.objs = @ \ {i}], w.mgr, "removed", 0, {i})
ServiceChanges ==
    /\ w.events < MaxEvents
    /\ w' = Changes([w EXCEPT !.events = @ + 1])
ServiceInvalidates ==
    /\ w.events < MaxEvents
    /\ w' = Emit([w EXCEPT !.events = @ + 1, !.val = @ + 1], w.props, "invalidated", 0, {})

\* A call of the client, which adds an object or changes the property, and its reply.
ServiceCalled ==
    /\ w.calls < MaxCalls
    /\ LET s == [w EXCEPT !.calls = @ + 1]
       IN  \E r \in {Changes(s)} \cup {Adds(s, i) : i \in Ifaces \ w.objs} :
              \/ w' = Put(r, "reply", r.sent, {})
              \/ Fails /\ w' = Put(r, "failure", r.sent, {})

\* The service answers a request of the bridge with what it has then.  An object that has been
\* removed has no description.
ServiceAnswers ==
    /\ w.req.q \notin {"", "waits"}
    /\ LET s == [w EXCEPT !.req = Ask("waits", {})]
           q == w.req.q
       IN  \/ w' = CASE q = "IntrospectRoot" -> Put(s, "root", 0, {})
                     [] q = "Introspect" -> Put(s, "described", 0, w.req.is \cap w.objs)
                     [] q = "GetAll" -> Put(s, "all", w.val, {})
                     [] q = "Get" -> Put(s, "value", w.val, {})
                     [] q = "GetManagedObjects" -> Put(s, "objects", 0, w.objs)
           \/ Fails /\ q \in {"IntrospectRoot", "GetManagedObjects"} /\ w' = Put(s, "error", 0, {})

WatchNext ==
    \/ Holds \/ Dispatch \/ DoWatch \/ ServiceChanges \/ ServiceInvalidates \/ ServiceCalled \/ ServiceAnswers
    \/ \E i \in Ifaces : ServiceAdds(i) \/ ServiceRemoves(i) \/ DoMeta(i)

WatchSpec == WatchInit /\ [][WatchNext]_watchVars

(***************************************************************************)
(* Properties.                                                             *)
(***************************************************************************)
Quiet == w.watched = "on" /\ w.bus = <<>> /\ w.line = <<>>

\* When everything has been read and sent, the client of a watch sees what the service has,
\* however its changes crossed the questions with which the watch began.
Converges == Quiet => w.seen = w.objs /\ w.value = w.val

\* "Since the InterfacesAdded signal was emitted before the method reply, the bridge must send
\* the "meta" and "notify" messages before the method reply message."
ReplyAfterNotify == "reply" \notin w.hasty
\* "Before the first time an interface is sent using a "notify" message, a "meta" will be sent
\* with that interface introspection info."
MetaFirst == w.bare = {}

\* Nobody keeps the lock, however a task ends: every watch, signal and call
\* gets its turn.  []<> LockFree.
LockFree == w.line = <<>>

=============================================================================
