----------------------------- MODULE DBusCache -----------------------------
(***************************************************************************)
(* The property cache of a D-Bus channel of the C bridge                   *)
(* (bridge/cockpitdbuscache.c).  The cache introspects a service, reads    *)
(* its properties and follows its signals, and tells the client what       *)
(* changed ("notify") and what an interface looks like ("meta").  Replies  *)
(* and signals for the client pass a barrier: they wait for the batches of *)
(* property work that were under way when they came.                       *)
(*                                                                         *)
(* The object tree has the root, which has no interface of its own, and    *)
(* its children.  An interface has one                                     *)
(* property, whose value is a number that only grows; what a value or a    *)
(* reply refers to by object path is the constant Mentions.  The service   *)
(* answers its calls in any order; its answers and its signals reach the   *)
(* bridge in the order in which they were made.                            *)
(***************************************************************************)
EXTENDS Naturals, Integers, Sequences, FiniteSets, SequencesExt

CONSTANTS
    Objects,      \* the paths below the root
    Ifaces,       \* the interfaces of the service
    Watches,      \* the watches a client may add: records path, ns, iface
    Mentions,     \* the object paths that every value and reply refers to
    Managers,     \* the paths at which the service is an ObjectManager
    Overlap,      \* may watches and messages come while batches are under way
    Unwatches,    \* may the client remove its watches
    Moves,        \* may interfaces come and go
    Faults,       \* may calls to the service fail
    Inline,       \* does introspection of the root tell the interfaces of its children too
    MaxValue,     \* bound on the value of a property
    MaxMessages,  \* bound on replies and signals for the client
    MaxWatches    \* bound on watch requests

Root == "/"
Paths == {Root} \cup Objects
NoIface == "*"
Nothing == -3     \* not part of an update
Absent == -2      \* the interface is not there (null in an update)
Bare == -1        \* the interface is there, its properties are not known
(* What an instance has to satisfy.                                       *)
CacheAssumption ==
    /\ Root \notin Objects /\ NoIface \notin Ifaces
    /\ Mentions \subseteq Paths /\ Managers \subseteq Paths
    /\ Watches \subseteq [path : Paths, ns : BOOLEAN, iface : Ifaces \cup {NoIface}]

VARIABLES c, service, asked

vars == <<c, service, asked>>

Table(x) == [p \in Paths |-> [i \in Ifaces |-> x]]

\* cockpit_path_has_parent and cockpit_path_has_ancestor, in a tree of two levels.
HasParent(p, q) == q = Root /\ p # Root

\* cockpit_paths_contain_or_ancestor: the path or one above it is in the set.
Covered(set, p) == p \in set \/ Root \in set

\* A watch rule matches a path and, unless none is given, an interface.
RulesMatch(s, p, i) ==
    \E r \in Watches :
        /\ s.rules[r] > 0
        /\ r.path = p \/ (r.ns /\ HasParent(p, r.path))
        /\ i = NoIface \/ r.iface = NoIface \/ r.iface = i

(***************************************************************************)
(* Updates: what the next "notify" message will hold.                      *)
(***************************************************************************)
EmitRemove(s, p, i) == [s EXCEPT !.update[p][i] = Absent]

EmitChange(s, p, i, v) ==
    [s EXCEPT !.update[p][i] = IF v # Bare THEN v ELSE IF @ < Bare THEN Bare ELSE @]

FindChange(s, p, i) == s.update[p][i] >= Bare

\* The client merges an update into what it knows.
Merge(old, new) ==
    CASE new = Nothing -> old
      [] new = Bare /\ old >= Bare -> old
      [] OTHER -> new

\* A call that reads the properties of an interface is under way.
Reading(s, p, i) ==
    \E k \in DOMAIN s.calls : s.calls[k].kind = "GetAll" /\ s.calls[k].path = p /\ s.calls[k].iface = i

\* The "update" signal: on_cache_update sends the update as one message, until it is disconnected.
\* The interfaces without "meta" that nobody is reading, which it names, are noted.
EmitUpdate(s) ==
    IF s.gone THEN [s EXCEPT !.update = Table(Nothing)]
    ELSE [s EXCEPT !.update = Table(Nothing),
                   !.early = @ \cup {i \in Ifaces \ s.introsent :
                       \E p \in Paths : s.update[p][i] >= Bare /\ ~Reading(s, p, i)},
                   !.view = [p \in Paths |-> [i \in Ifaces |-> Merge(@[p][i], s.update[p][i])]]]

EnsureProperties(s, p, i) ==
    [(IF s.cache[p][i] = Absent THEN EmitChange([s EXCEPT !.cache[p][i] = Bare], p, i, Bare)
      ELSE s) EXCEPT !.here = @ \cup {p}, !.introsent = @ \cup {i}]

ProcessValue(s, p, i, v) ==
    IF s.cache[p][i] = v THEN s ELSE EmitChange([s EXCEPT !.cache[p][i] = v], p, i, v)

ProcessProperties(s, p, i, v) == ProcessValue(EnsureProperties(s, p, i), p, i, v)

ProcessRemoved(s, p, i) ==
    IF s.cache[p][i] = Absent THEN s
    ELSE EmitRemove([s EXCEPT !.cache[p][i] = Absent], p, i)

\* A loop over a set, in no particular order.
Each(F(_, _), s, set) == FoldLeft(F, s, SetToSeq(set))

RemoveAll(s, p, ifaces) == Each(LAMBDA t, i : ProcessRemoved(t, p, i), s, ifaces)

ProcessRemovedPath(s, p) == RemoveAll(s, p, Ifaces)

(***************************************************************************)
(* Batches and barriers.                                                   *)
(***************************************************************************)
BatchCreate(s) ==
    [s EXCEPT !.number = @ + 1,
              !.batches = Append(@, [number |-> s.number + 1, refs |-> 1])]

AddRefs(s, b, n) ==
    [s EXCEPT !.batches = [k \in DOMAIN @ |->
        IF @[k].number = b THEN [@[k] EXCEPT !.refs = @ + n] ELSE @[k]]]

BatchRef(s, b) == AddRefs(s, b, 1)

\* Work on a batch: the one given, or a new one if it is 0.
Hold(s, b) == IF b # 0 THEN BatchRef(s, b) ELSE BatchCreate(s)
Held(s, b) == IF b # 0 THEN b ELSE s.number + 1

\* A call to the service is outstanding and holds its batch.
Call(s, kind, p, i, b) ==
    [BatchRef(s, b) EXCEPT !.calls = Append(@, [kind |-> kind, path |-> p, iface |-> i, batch |-> b])]

\* A message leaves for the client, unless the channel is closed.
OnWaitComplete(s, m) == IF s.gone THEN s ELSE [s EXCEPT !.sent = Append(@, m)]

RetrieveProperties(s, b, p, i) ==
    IF FindChange(s, p, i) THEN s
    ELSE Call(EmitChange(s, p, i, Bare), "GetAll", p, i, b)

RetrieveManagedObjects(s, p, b) == Call(s, "GetManagedObjects", p, NoIface, b)

RECURSIVE Run(_, _, _), BatchProgress(_), BarrierRounds(_), RunBarriers(_, _), IntrospectNext(_),
          IntrospectComplete(_, _), IntrospectCallback(_, _, _)

NoCallback == [kind |-> "none", path |-> Root, batch |-> 0, value |-> Nothing]

BarrierProgress(s) ==
    IF s.progressing THEN [s EXCEPT !.rounds = @ + 1]
    ELSE [BarrierRounds([s EXCEPT !.progressing = TRUE, !.rounds = 1]) EXCEPT !.progressing = FALSE]

BarrierRounds(s) ==
    IF s.rounds = 0 THEN s
    ELSE BarrierRounds(RunBarriers([s EXCEPT !.rounds = @ - 1],
                                   IF s.batches = <<>> THEN 0 ELSE Head(s.batches).number))

\* A batch under way blocks the barriers with an equal or a later number.
Blocked(head, barrier) == head # 0 /\ head <= barrier.number

RunBarriers(s, head) ==
    IF s.barriers = <<>> \/ Blocked(head, Head(s.barriers)) THEN s
    ELSE RunBarriers(Run([s EXCEPT !.barriers = Tail(@)], "callback", Head(s.barriers)), head)

BatchProgress(s) ==
    IF s.batches = <<>> \/ Head(s.batches).refs > 0 THEN s
    ELSE BatchProgress(BarrierProgress(EmitUpdate([s EXCEPT !.batches = Tail(@)])))

BatchUnref(s, b) == Run(AddRefs(s, b, -1), "batches", NoCallback)

\* A mutant of Barrier: the newest comes first.
BarrierFront(s, callback) ==
    IF s.batches = <<>> THEN Run(s, "callback", callback)
    ELSE [s EXCEPT !.barriers = <<[callback EXCEPT !.number = Last(s.batches).number]>> \o @]

\* cockpit_dbus_cache_barrier
Barrier(s, callback) ==
    IF s.batches = <<>> THEN Run(s, "callback", callback)
    ELSE [s EXCEPT !.barriers = Append(@, [callback EXCEPT !.number = Last(s.batches).number])]

(***************************************************************************)
(* Introspection: one call at a time, in the order of the queue.           *)
(***************************************************************************)
IntrospectQueue(s, b, p, i, callback) ==
    Run([BatchRef(s, b) EXCEPT !.introspects =
            Append(@, [path |-> p, iface |-> i, batch |-> b, callback |-> callback, calling |-> FALSE])],
        "introspects", NoCallback)

NextUnlessGone(s) == IF s.gone THEN s ELSE IntrospectNext(s)

IntrospectNext(s) ==
    IF s.introspects = <<>> \/ Head(s.introspects).calling THEN s
    ELSE IF s.gone \/ Head(s.introspects).iface \in s.introspected
    THEN NextUnlessGone(IntrospectComplete([s EXCEPT !.introspects = Tail(@)],
                                           Head(s.introspects)))
    ELSE [s EXCEPT !.introspects[1].calling = TRUE]

\* An interface that was not found is replaced by an empty one.
IntrospectComplete(s, id) ==
    LET s1 == IF id.iface = NoIface THEN s
              ELSE [s EXCEPT !.introspected = @ \cup {id.iface}]
    IN  BatchUnref(IntrospectCallback(s1, id.callback, id.iface), id.batch)

IntrospectMaybe(s, b, p, i, callback) ==
    IF i \in s.introspected THEN IntrospectCallback(s, callback, i)
    ELSE BatchUnref(IntrospectQueue(Hold(s, b), Held(s, b), p, i, callback), Held(s, b))

\* process_properties_changed, process_interface and process_poke; all release their batch.
IntrospectCallback(s, cb, i) ==
    IF cb.kind = "none" THEN s
    ELSE BatchUnref(CASE cb.kind = "changed" /\ cb.value = Nothing ->
                             Call(EnsureProperties(s, cb.path, i), "Get", cb.path, i, cb.batch)
                      [] cb.kind = "poke" -> RetrieveProperties(s, cb.batch, cb.path, i)
                      [] OTHER -> ProcessProperties(s, cb.path, i, cb.value), cb.batch)

\* Object paths that appear in a value: introspect those that are watched and not known.
ScrapeVariant(s, b0, paths) == Run(s, "scrape", [batch |-> b0, paths |-> paths])

(***************************************************************************)
(* The service's answers.                                                  *)
(***************************************************************************)
There(objs, p) == {i \in Ifaces : objs[p][i] # Absent}

\* Interfaces reported by an ObjectManager; each waits for its introspection.
ProcessInterfaces(s, b0, p, dict) ==
    LET seen == {i \in Ifaces : dict[i] # Absent /\ RulesMatch(s, p, i)}
        b == Held(s, b0)
        one(t, i) == ScrapeVariant(
            IntrospectMaybe(BatchRef(t, b), 0, p, i,
                [kind |-> "interface", path |-> p, batch |-> b, value |-> dict[i]]), b, Mentions)
    IN  IF b0 = 0 /\ seen = {} THEN s ELSE BatchUnref(Each(one, Hold(s, b0), seen), b)

\* Paths reported by an ObjectManager: what it does not report is removed.
ProcessGetManagedObjects(s, b, manager, objs) ==
    LET under == {p \in Paths : HasParent(p, manager)}
        listed == {p \in under : There(objs, p) # {}}
        path(t, p) == RemoveAll(ProcessInterfaces(t, b, p, objs[p]), p,
            {i \in Ifaces : t.cache[p][i] # Absent} \ {i \in There(objs, p) : RulesMatch(t, p, i)})
    IN  Each(ProcessRemovedPath, Each(path, s, listed), (s.here \cap under) \ listed)

\* Every object that has an interface has the standard ones, which mark the path as known.
KnowNode(s, p, objs) ==
    [s EXCEPT !.introspected = @ \cup There(objs, p),
              !.here = IF There(objs, p) # {} THEN @ \cup {p} ELSE @]

RemoveOthers(s, p, objs) ==
    RemoveAll(s, p, {i \in Ifaces \ There(objs, p) : s.cache[p][i] # Absent})

\* The interfaces of a node: those that are watched are read, those that are gone removed.
ProcessIntrospectInterfaces(s, b, p, objs) ==
    RemoveOthers(Each(LAMBDA t, i : RetrieveProperties(t, b, p, i), KnowNode(s, p, objs),
                      {i \in There(objs, p) : RulesMatch(s, p, i)}), p, objs)

\* A child whose interfaces are told along with its parent is processed at once.
ProcessIntrospectChildren(s, b, parent, objs, inline) ==
    LET nodes == {p \in Paths : HasParent(p, parent) /\ There(objs, p) # {}}
        child(t, p) == IF ~RulesMatch(t, p, NoIface) \/ Covered(t.managed, p) THEN t
                       ELSE IF inline THEN ProcessIntrospectInterfaces(t, b, p, objs)
                       ELSE IntrospectQueue(t, b, p, NoIface, NoCallback)
    IN  Each(ProcessRemovedPath, Each(child, s, nodes),
             {p \in s.here : HasParent(p, parent)} \ nodes)

ProcessIntrospectNode(s, b, p, objs, whole, inline) ==
    IF ~whole \/ Covered(s.managed, p) THEN RemoveOthers(KnowNode(s, p, objs), p, objs)
    ELSE ProcessIntrospectChildren(ProcessIntrospectInterfaces(s, b, p, objs), b, p, objs, inline)

\* on_introspect_reply; ok is FALSE when the call failed.
OnIntrospectReply(s, objs, ok, inline) ==
    LET id == Head(s.introspects)
        popped == [s EXCEPT !.introspects = Tail(@)]
        seen == IF ok THEN ProcessIntrospectNode(popped, id.batch, id.path, objs,
                                                 id.iface = NoIface, inline)
                ELSE popped
    IN  Run(IntrospectComplete(seen, id), "introspects", NoCallback)

OnGetReply(s, call, objs, ok) ==
    BatchUnref(IF ok /\ objs[call.path][call.iface] # Absent
                  THEN ScrapeVariant(ProcessProperties(s, call.path, call.iface,
                                         objs[call.path][call.iface]), 0, Mentions)
                  ELSE s, call.batch)

OnGetAllReply(s, call, objs, ok) ==
    LET v == objs[call.path][call.iface]
        s1 == IF ok /\ v # Absent
                 THEN ScrapeVariant(ProcessProperties(s, call.path, call.iface, v), call.batch, Mentions)
                 ELSE s
    IN  BatchUnref(EmitChange(EnsureProperties(s1, call.path, call.iface),
                              call.path, call.iface, Bare), call.batch)

\* The manager itself is introspected after its objects are known.
OnGetManagedObjectsReply(s, call, objs, ok) ==
    LET s1 == IF ok /\ call.path \in Managers
                 THEN ProcessGetManagedObjects([s EXCEPT !.managed = @ \cup {call.path}],
                                               call.batch, call.path, objs)
                 ELSE s
    IN  BatchUnref(IntrospectQueue(s1, call.batch, call.path, NoIface, NoCallback), call.batch)

(***************************************************************************)
(* The signals of the service, each behind a barrier.                      *)
(***************************************************************************)
\* The barriers' callbacks: a message to the client, or a signal to process.
RunCallback(s, b) ==
    CASE b.kind = "send" -> OnWaitComplete(s, b.id)
      [] b.kind = "properties" ->      \* process_properties_barrier
            LET n == s.number + 1
            IN  BatchUnref(ScrapeVariant(
                    IntrospectMaybe(BatchRef(BatchCreate(s), n), n, b.path, b.iface,
                        [kind |-> "changed", path |-> b.path, batch |-> n, value |-> b.dict[b.iface]]),
                    n, IF b.dict[b.iface] = Nothing THEN {} ELSE Mentions), n)
      [] b.kind = "added" ->           \* process_interfaces_added
            IF b.manager = "" THEN ProcessInterfaces(s, 0, b.path, b.dict)
            ELSE BatchUnref(ProcessInterfaces(
                     RetrieveManagedObjects(BatchCreate(s), b.manager, s.number + 1),
                     s.number + 1, b.path, b.dict), s.number + 1)
      [] b.kind = "removed" ->         \* process_interfaces_removed
            BatchUnref(RemoveAll(
                IF b.manager = "" THEN BatchCreate(s)
                ELSE RetrieveManagedObjects(BatchCreate(s), b.manager, s.number + 1),
                b.path, {i \in Ifaces : b.dict[i] # Absent}), s.number + 1)

\* scrape_variant
Scrape(s, b0, paths) ==
    LET new == {p \in paths \ {Root} : p \notin s.here /\ ~Covered(s.managed, p)
                                         /\ RulesMatch(s, p, NoIface)}
    IN  IF b0 = 0 /\ new = {} THEN s
        ELSE BatchUnref(Each(LAMBDA t, p : IntrospectQueue(t, Held(s, b0), p, NoIface, NoCallback),
                             Hold(s, b0), new), Held(s, b0))

\* Batches, introspections, values and callbacks work on each other's queues: what their
\* callers set off.
Run(s, what, arg) ==
    CASE what = "batches" -> BatchProgress(s)
      [] what = "introspects" -> IntrospectNext(s)
      [] what = "scrape" -> Scrape(s, arg.batch, arg.paths)
      [] what = "callback" -> RunCallback(s, arg)

Callback(kind, id, p, i, dict, manager) ==
    [kind |-> kind, number |-> 0, id |-> id, path |-> p, iface |-> i, dict |-> dict, manager |-> manager]

NoDict == [i \in Ifaces |-> Nothing]

\* What a manager said of an interface still waits for a batch.
Waiting(s, p, i) ==
    \E k \in DOMAIN s.barriers :
        s.barriers[k].kind = "added" /\ s.barriers[k].path = p /\ s.barriers[k].dict[i] >= 0

\* A signal nobody watches for is dropped; one that has to wait does not wait for the batches
\* of those that wait before it.  Either way it may be newer than what is applied after it.
OnPropertiesSignal(s, p, i, dict) ==
    LET s1 == [s EXCEPT !.crossed = IF Waiting(s, p, i) THEN @ \cup {<<p, i>>} ELSE @]
    IN  IF RulesMatch(s, p, i) THEN Barrier(s1, Callback("properties", 0, p, i, dict, "")) ELSE s1

\* The first signal of a manager makes the bridge read all its objects.
OnManagerSignal(s, kind, manager, p, dict) ==
    Barrier([s EXCEPT !.notready = @ \cup {manager}],
            Callback(kind, 0, p, NoIface, dict, IF manager \in s.notready THEN "" ELSE manager))

(***************************************************************************)
(* The cache's operations.                                                 *)
(***************************************************************************)
CacheWatch(s, r) ==
    LET s1 == BatchCreate([s EXCEPT !.rules[r] = @ + 1])
        n == s.number + 1
        space == IF r.ns THEN r.path
                 ELSE IF r.path \in s.managed THEN r.path
                 ELSE IF Root \in s.managed THEN Root ELSE ""
    IN  IF s.rules[r] > 0 THEN [s EXCEPT !.rules[r] = @ + 1]
        ELSE BatchUnref(IF space # "" THEN RetrieveManagedObjects(s1, space, n)
                        ELSE IntrospectQueue(s1, n, r.path, NoIface, NoCallback), n)

CacheUnwatch(s, r) == [s EXCEPT !.rules[r] = IF @ > 0 THEN @ - 1 ELSE 0]

\* Something was said about a path, or an interface of it, that may be watched and not known.
CachePoke(s, p, i) ==
    LET s1 == BatchCreate(s)
        n == s.number + 1
    IN  IF \/ p \in s.here /\ (i = NoIface \/ s.cache[p][i] # Absent)
           \/ Covered(s.managed, p) \/ ~RulesMatch(s, p, i)
           THEN s
        ELSE BatchUnref(IF i = NoIface THEN IntrospectQueue(s1, n, p, NoIface, NoCallback)
                        ELSE IntrospectMaybe(BatchRef(s1, n), n, p, i,
                                 [kind |-> "poke", path |-> p, batch |-> n, value |-> Nothing]), n)

RECURSIVE IntrospectFlush(_), BarrierFlush(_)

\* A callback may queue more, which is completed at once as the cache is cancelled.
IntrospectFlush(s) ==
    IF s.introspects = <<>> THEN s
    ELSE IntrospectFlush(IntrospectComplete([s EXCEPT !.introspects = Tail(@)], Head(s.introspects)))

BarrierFlush(s) ==
    IF s.barriers = <<>> THEN s
    ELSE BarrierFlush(Run([s EXCEPT !.barriers = Tail(@)], "callback", Head(s.barriers)))

CacheDispose(s) ==
    BarrierFlush([IntrospectFlush([s EXCEPT !.gone = TRUE]) EXCEPT !.batches = <<>>])

(***************************************************************************)
(* Behaviours.                                                             *)
(***************************************************************************)
Init ==
    /\ c = [introspects |-> <<>>, introspected |-> {}, introsent |-> {}, here |-> {},
            cache |-> Table(Absent), update |-> Table(Nothing), view |-> Table(Absent),
            rules |-> [r \in Watches |-> 0], managed |-> {}, notready |-> {},
            batches |-> <<>>, number |-> 1, barriers |-> <<>>, progressing |-> FALSE, rounds |-> 0,
            calls |-> <<>>, sent |-> <<>>, early |-> {}, crossed |-> {}, gone |-> FALSE]
    /\ service \in {objs \in [Paths -> [Ifaces -> {Absent, 0}]] : There(objs, Root) = {}}
    /\ asked = <<>>

\* What is to be sent to the client waits for the batches that are under way now.
SendBehindBarrier(s, kind, rule) ==
    /\ asked' = Append(asked, [kind |-> kind, rule |-> rule,
                               due |-> IF s.batches = <<>> THEN 0 ELSE Last(s.batches).number])
    /\ c' = Barrier(s, Callback("send", Len(asked) + 1, rule.path, rule.iface, NoDict, ""))

\* The client adds a watch; the reply to it waits behind a barrier (handle_dbus_watch).
Watch(r) ==
    /\ ~c.gone /\ Len(asked) < MaxMessages
    /\ Cardinality({k \in DOMAIN asked : asked[k].kind = "watch"}) < MaxWatches
    /\ Overlap \/ c.batches = <<>>
    /\ SendBehindBarrier(CachePoke(CacheWatch(c, r), r.path, NoIface), "watch", r)
    /\ UNCHANGED service

Unwatch(r) ==
    /\ ~c.gone /\ Unwatches /\ c.rules[r] > 0
    /\ c' = CacheUnwatch(c, r)
    /\ UNCHANGED <<service, asked>>

\* A reply, or a signal the client matches, arrives from the service (send_dbus_reply, on_signal_message).
Message(p, i) ==
    /\ ~c.gone /\ Len(asked) < MaxMessages
    /\ Overlap \/ c.batches = <<>>
    /\ service[p][i] # Absent
    /\ SendBehindBarrier(ScrapeVariant(CachePoke(c, p, i), 0, Mentions), "message",
                         [path |-> p, ns |-> FALSE, iface |-> i])
    /\ UNCHANGED service

Introspected ==
    /\ c.introspects # <<>> /\ Head(c.introspects).calling
    /\ \E ok \in {TRUE, ~Faults}, inline \in {FALSE, Inline} :
          c' = OnIntrospectReply(c, service, ok, inline)
    /\ UNCHANGED <<service, asked>>

\* The answer to one of the outstanding calls; all fail once the cache is disposed of.
Answered ==
    /\ \E k \in DOMAIN c.calls, ok \in {TRUE, ~Faults} :
          LET call == c.calls[k]
              s == [c EXCEPT !.calls = RemoveAt(@, k)]
              good == ok /\ ~c.gone
          IN  c' = CASE call.kind = "Get" -> OnGetReply(s, call, service, good)
                     [] call.kind = "GetAll" -> OnGetAllReply(s, call, service, good)
                     [] OTHER -> OnGetManagedObjectsReply(s, call, service, good)
    /\ UNCHANGED <<asked, service>>

\* The service changes a property and says so, with the value or without it.
Changed(p, i) ==
    /\ ~c.gone
    /\ service[p][i] \in 0..(MaxValue - 1)
    /\ service' = [service EXCEPT ![p][i] = @ + 1]
    /\ \E dict \in {NoDict, service'[p]} :
          c' = OnPropertiesSignal(c, p, i, dict)
    /\ UNCHANGED asked

\* An object gets or loses interfaces; only a manager says so.
Moved(p, set) ==
    LET dict(objs) == [i \in Ifaces |-> IF i \in set THEN objs[p][i] ELSE Absent]
        now(v) == [service EXCEPT ![p] = [i \in Ifaces |-> IF i \in set THEN v ELSE @[i]]]
        signal(s, kind, d) == IF Root \in Managers THEN OnManagerSignal(s, kind, Root, p, d) ELSE s
    IN  /\ ~c.gone /\ Moves
        /\ \/ /\ \A i \in set : service[p][i] = Absent
              /\ service' = now(1)
              /\ c' = signal(c, "added", dict(service'))
           \/ /\ \A i \in set : service[p][i] = 0
              /\ service' = now(Absent)
              /\ c' = signal(c, "removed", dict(service))
        /\ UNCHANGED asked

Dispose ==
    /\ ~c.gone
    /\ c' = CacheDispose(c)
    /\ UNCHANGED <<service, asked>>

Next ==
    \/ \E r \in Watches : Watch(r) \/ Unwatch(r)
    \/ \E p \in Objects, i \in Ifaces : Message(p, i) \/ Changed(p, i)
    \/ \E p \in Objects, set \in SUBSET Ifaces : set # {} /\ Moved(p, set)
    \/ Introspected
    \/ Answered
    \/ Dispose

Spec == Init /\ [][Next]_vars

\* The service answers every call in the end, if only with an error or a timeout.  This is
\* weak fairness of the two actions above, with the states that enable them and the steps
\* that are theirs spelled out.
Pending == c.calls # <<>> \/ c.introspects # <<>>
AnswerStep == c'.gone = c.gone /\ c'.rules = c.rules /\ UNCHANGED <<service, asked>>
(***************************************************************************)
(* Properties.                                                             *)
(***************************************************************************)
\* The batches under way are numbered in the order of their creation, the first
\* is still held by something, and no barrier callback is running between two events.
TypeOK ==
    /\ \A k \in DOMAIN c.batches : c.batches[k].number <= c.number /\ (k = 1 => c.batches[k].refs > 0)
    /\ \A j, k \in DOMAIN c.batches : j < k => c.batches[j].number < c.batches[k].number
    /\ ~c.progressing /\ c.rounds = 0
    /\ Len(asked) <= MaxMessages

\* Who holds batch b: outstanding calls, queued introspections and their callbacks.
Holders(b) ==
    Cardinality({k \in DOMAIN c.calls : c.calls[k].batch = b})
        + Cardinality({k \in DOMAIN c.introspects : c.introspects[k].batch = b})
        + Cardinality({k \in DOMAIN c.introspects : c.introspects[k].callback.batch = b})

\* The count of references of every batch is the number of its holders: one too many
\* and every later reply is held back for good, one too few and they overtake the properties.
RefsExact == \A k \in DOMAIN c.batches : c.batches[k].refs = Holders(c.batches[k].number)

\* A reply or signal reaches the client only after the batches that were under way
\* when it came are complete and notified.
BarrierHolds ==
    \A k \in DOMAIN c.sent : \A j \in DOMAIN c.batches :
        c.batches[j].number > asked[c.sent[k]].due

\* Replies and signals reach the client in the order in which they came, none lost, none twice.
InOrder ==
    ~c.gone => c.sent \o FlattenSeq([k \in DOMAIN c.barriers |->
                    IF c.barriers[k].kind = "send" THEN <<c.barriers[k].id>> ELSE <<>>])
               = [k \in DOMAIN asked |-> k]

\* When no batch is under way the client knows which interfaces the cache holds and every
\* value in it, and nothing is held back.
ClientFollows ==
    c.batches = <<>> /\ ~c.gone =>
        /\ c.update = Table(Nothing) /\ c.barriers = <<>>
        /\ \A p \in Paths, i \in Ifaces :
              /\ c.view[p][i] = Absent <=> c.cache[p][i] = Absent
              /\ c.cache[p][i] >= 0 => c.view[p][i] = c.cache[p][i]

\* When nothing is under way the cached value of a watched property is the service's,
\* whatever the order in which answers and signals came; unless it changed while the older
\* value, told by a manager, was waiting for a batch.
FollowsService ==
    c.batches = <<>> /\ ~c.gone =>
        \A p \in Paths, i \in Ifaces :
            c.cache[p][i] >= 0 /\ RulesMatch(c, p, i) /\ <<p, i>> \notin c.crossed
                => service[p][i] \in {Absent, c.cache[p][i]}

\* A watch that is answered has told the client of every property it watches.
Complete(k) ==
    \A p \in Paths, i \in Ifaces :
        LET r == asked[k].rule
        IN  /\ r.path = p \/ (r.ns /\ HasParent(p, r.path))
            /\ r.iface \in {NoIface, i}
            /\ service[p][i] >= 0 /\ c.rules[r] > 0
            => c.view[p][i] >= 0

\* While watches do not overlap and no call fails, a watch is answered when the client
\* has the properties it watches, of all objects that were there from the start.
WatchAnswered ==
    \A k \in DOMAIN c.sent : asked[c.sent[k]].kind = "watch" => Complete(c.sent[k])

\* The client is sent "meta" for an interface before any property of it, and before the
\* interface itself, unless a batch ends while the properties are still being read: then a
\* "notify" names the interface with nothing in it, and "meta" comes with the properties.
MetaFirst ==
    /\ c.early = {}
    /\ \A p \in Paths : \A i \in Ifaces \ c.introsent : c.view[p][i] < 0

\* The queue of introspections is empty when the cache is finalized (g_assert in finalize).
FlushedOnDispose == c.gone => c.introspects = <<>> /\ c.barriers = <<>>

(* Every batch ends, and with it every reply and signal is sent:           *)
(* ~BatchesOver ~> BatchesOver.                                            *)
BatchesOver == c.gone \/ c.batches = <<>>

=============================================================================
