------------------------------ MODULE DBusJson ------------------------------
(***************************************************************************)
(* The D-Bus channels of the C bridge (bridge/cockpitdbusjson.c).  The     *)
(* channels of one group share a connection to the bus, which the first of *)
(* them starts to open.  A channel waits for its name to appear, passes    *)
(* calls on to the bus and answers back, publishes objects and passes on   *)
(* the calls made to them.                                                 *)
(*                                                                         *)
(* The cache of a channel (module DBusCache) appears here as a queue of    *)
(* messages that wait for it and a set of calls that wait for              *)
(* introspection.  The bus may fail any call; it exports an object path    *)
(* for one registration at a time.                                         *)
(***************************************************************************)
EXTENDS Naturals, Sequences, FiniteSets, SequencesExt

CONSTANTS
    Channels,      \* the channels of the group
    Keys,          \* the object paths and interfaces that clients publish
    Named,         \* the channels opened with a bus name
    Closes,        \* may clients close channels
    Reconnects,    \* may a channel be closed while the connection is being opened
    Publishes,     \* may clients publish objects
    Rivals,        \* may two channels publish at the same key
    MaxCalls,      \* bound on the calls of a channel
    MaxInvocations \* bound on the calls made to published objects

(* What an instance has to satisfy.                                       *)
JsonAssumption == Named \subseteq Channels

VARIABLE b  \* the channels and what they share, a record with the fields
    \* ch           the channels
    \* connection   "none", "opening", "up", or "down" when the bus is gone
    \* subscribers  channels waiting for the connection; the first one opens it
    \* registered   the connection's table "registered-objects": key to registration
    \* exported     what the bus exports: registration to channel and key
    \* nextid       the next registration
    \* answers      how often each invocation of a published object was answered

vars == b

NewChannel ==
    [state |-> "new", cancelled |-> FALSE, appeared |-> FALSE, watching |-> FALSE,
     introspecting |-> {}, calling |-> {}, waiting |-> <<>>, calls |-> 0, replied |-> <<>>,
     registered |-> <<>>, invocations |-> {}, ready |-> FALSE, unasked |-> FALSE,
     cut |-> {}, late |-> {}]

Drop(f, x) == [y \in DOMAIN f \ {x} |-> f[y]]
Put(f, x, v) == [y \in DOMAIN f \cup {x} |-> IF y = x THEN v ELSE f[y]]

\* A message is written to the transport.  One that comes before the channel is ready, and
\* those that follow its "close" (the answers to calls, and 0 for any other) are noted.
SendJson(c) == [c EXCEPT !.unasked = @ \/ ~c.ready, !.late = IF c.state = "closed" THEN @ \cup {0} ELSE @]

\* An answer to a call of the client, send_dbus_error or a reply.
SendAnswer(c, id) ==
    [c EXCEPT !.replied = Append(@, id), !.late = IF c.state = "closed" THEN @ \cup {id} ELSE @]

SendReady(c) == SendJson([c EXCEPT !.ready = TRUE])

\* on_introspect_ready: the arguments fit the method, and it is called, or the call fails.
IntrospectReady(c, id, fits) ==
    IF fits THEN [c EXCEPT !.introspecting = @ \ {id}, !.calling = @ \cup {id}]
    ELSE SendAnswer([c EXCEPT !.introspecting = @ \ {id}], id)

\* Disposal of the cache completes the introspections while their calls still belong to the channel.
FlushIntrospects(c) ==
    FoldLeft(LAMBDA s, id : IntrospectReady(s, id, FALSE), c, SetToSeq(c.introspecting))

\* group_connections_weak_notify: a connection lasts until the last channel that has it is closed.
Kept(s, k) ==
    IF s.connection \in {"up", "down"} /\ \A o \in Channels \ {k} : s.ch[o].state \in {"new", "closed"}
    THEN "none" ELSE s.connection

\* The "close" message, then cockpit_dbus_json_closed, which runs cockpit_dbus_json_dispose:
\* everything is disconnected, and the invocations fail.
Close(s, k) ==
    LET c == FlushIntrospects([s.ch[k] EXCEPT !.state = "closed", !.cancelled = TRUE,
                                              !.cut = @ \cup s.ch[k].introspecting])
    IN  [s EXCEPT !.connection = Kept(s, k),
                  !.ch[k] = [c EXCEPT !.watching = FALSE, !.calling = {}, !.waiting = <<>>,
                                      !.registered = <<>>, !.invocations = {}],
                  !.answers = [n \in DOMAIN @ |-> IF n \in c.invocations THEN @[n] + 1 ELSE @[n]],
                  !.registered = [key \in DOMAIN @ \ DOMAIN c.registered |-> @[key]],
                  !.exported = [id \in DOMAIN @ \ Range(c.registered) |-> @[id]]]

\* process_connection: a cancelled attempt is ignored, any other failure closes the channel.
ProcessConnection(s, k, result) ==
    CASE result = "cancelled" \/ (result = "failed" /\ s.ch[k].cancelled) -> s
      [] result = "failed" /\ ~s.ch[k].cancelled -> Close(s, k)
      [] result = "ok" /\ k \in Named -> [s EXCEPT !.ch[k].watching = TRUE]
      [] OTHER -> [s EXCEPT !.ch[k] = SendReady(IF @.state = "closed" THEN @ ELSE [@ EXCEPT !.state = "open"])]

\* The options are not valid, or there is no such bus (cockpit_dbus_json_prepare).
PrepareFails(k) ==
    /\ b.ch[k].state = "new"
    /\ b' = Close(b, k)

\* cockpit_dbus_json_prepare: join the connection of the group or open it.
Prepare(k) ==
    /\ b.ch[k].state = "new"
    /\ b' = LET s == [b EXCEPT !.ch[k].state = "opening"]
            IN  IF b.connection \in {"up", "down"} THEN ProcessConnection(s, k, "ok")
                ELSE [s EXCEPT !.connection = "opening", !.subscribers = Append(@, k)]

\* on_shared_connection_ready: the attempt was made with the cancellable of the first channel.
\* The subscribers are let go, which disposes of those that were closed.
ConnectionReady ==
    /\ b.connection = "opening"
    /\ \E result \in IF b.ch[Head(b.subscribers)].cancelled THEN {"cancelled"} ELSE {"ok", "failed"} :
          LET s == FoldLeft(LAMBDA t, k : ProcessConnection(t, k, result), b, b.subscribers)
          IN  b' = [s EXCEPT !.subscribers = <<>>,
                             !.connection = IF result = "ok" THEN "up" ELSE "none",
                             !.ch = [k \in Channels |-> [@[k] EXCEPT !.watching = @ /\ s.ch[k].state # "closed"]]]

\* on_name_appeared and send_owned: the first time, the channel is ready.
NameAppeared(k) ==
    /\ b.ch[k].watching /\ b.connection = "up"
    /\ b' = [b EXCEPT !.ch[k] = [SendJson(IF @.appeared THEN @ ELSE SendReady(@)) EXCEPT
                                    !.appeared = TRUE, !.state = "open"]]

\* on_name_vanished: the client is told that there is no owner; a connection that is gone, and
\* a name that was never there, close the channel.
NameVanished(k) ==
    /\ b.ch[k].watching
    /\ LET s == [b EXCEPT !.ch[k] = SendJson(@)]
       IN  b' = IF b.connection = "down" \/ ~b.ch[k].appeared THEN Close(s, k) ELSE s

\* The bus closes the connection, which is noticed by those who watch names and by callers.
BusGone ==
    /\ b.connection = "up"
    /\ b' = [b EXCEPT !.connection = "down"]

(***************************************************************************)
(* Calls of the client.                                                    *)
(***************************************************************************)
\* handle_dbus_call: a request that is not valid closes the channel; arguments that do not have
\* the type given are an error; a call with a type goes to the bus, another to introspection.
HandleCall(k) ==
    /\ b.ch[k].state = "open" /\ b.ch[k].calls < MaxCalls
    /\ LET id == b.ch[k].calls + 1
           c == [b.ch[k] EXCEPT !.calls = id]
       IN  \/ b' = [b EXCEPT !.ch[k] = SendAnswer(c, id)]
           \/ b' = [b EXCEPT !.ch[k] = [c EXCEPT !.calling = @ \cup {id}]]
           \/ b' = [b EXCEPT !.ch[k] = [c EXCEPT !.introspecting = @ \cup {id}]]

\* A request that is not valid, of any kind: cockpit_channel_fail.
BadRequest(k) ==
    /\ b.ch[k].state = "open"
    /\ b' = Close(b, k)

\* on_add_match_ready, on_remove_match_ready: the bus refuses a match rule.
MatchRefused(k) ==
    /\ b.ch[k].state = "open"
    /\ b' = Close(b, k)

\* handle_dbus_signal, handle_dbus_meta: a signal the bus does not take, or a description that
\* is not valid, closes the channel; what is valid goes to the bus and to the cache.
EmitRefused(k) ==
    /\ b.ch[k].state = "open"
    /\ b' = Close(b, k)

Introspected(k) ==
    \E id \in b.ch[k].introspecting, fits \in BOOLEAN :
        b' = [b EXCEPT !.ch[k] = IntrospectReady(@, id, fits)]

\* on_send_message_reply: an error or a timeout is answered at once, a reply waits for the cache.
MessageReply(k) ==
    \E id \in b.ch[k].calling, ok \in BOOLEAN :
        LET c == [b.ch[k] EXCEPT !.calling = @ \ {id}]
        IN  b' = [b EXCEPT !.ch[k] = IF ok THEN [c EXCEPT !.waiting = Append(@, id)] ELSE SendAnswer(c, id)]

\* on_wait_complete: the cache lets the next message pass.
WaitComplete(k) ==
    /\ b.ch[k].waiting # <<>>
    /\ b' = [b EXCEPT !.ch[k] = SendAnswer([@ EXCEPT !.waiting = Tail(@)], Head(@.waiting))]

(***************************************************************************)
(* Published objects.                                                      *)
(***************************************************************************)
\* Without rivals, clients leave each other's keys alone.
OwnKey(k, key) == Rivals \/ \A o \in Channels \ {k} : key \notin DOMAIN b.ch[o].registered

MayPublish(k, key) ==
    /\ Publishes /\ b.ch[k].state = "open" /\ b.nextid <= Cardinality(Channels) + 1
    /\ OwnKey(k, key)

Registration(s, k, key) ==
    IF \E id \in DOMAIN s.exported : s.exported[id].key = key THEN Close(s, k)
    ELSE [s EXCEPT !.exported = Put(@, s.nextid, [channel |-> k, key |-> key]),
                   !.registered = Put(@, key, s.nextid),
                   !.ch[k].registered = Put(@, key, s.nextid),
                   !.nextid = @ + 1]

\* handle_dbus_publish: the object registered at this key before is replaced; the bus refuses
\* a key at which there still is another, which closes the channel.
Publish(k, key) ==
    /\ MayPublish(k, key)
    /\ b' = Registration([b EXCEPT !.exported = IF key \in DOMAIN b.registered
                                                   THEN Drop(@, b.registered[key]) ELSE @], k, key)

\* A mutant of Unpublish: the object stays on the bus.
UnpublishKeeps(k, key) ==
    /\ Publishes /\ b.ch[k].state = "open" /\ OwnKey(k, key)
    /\ b' = [b EXCEPT !.ch[k].registered = Drop(@, key), !.registered = Drop(@, key)]

\* handle_dbus_unpublish: the key leaves both tables, and the own registration the bus.
Unpublish(k, key) ==
    /\ Publishes /\ b.ch[k].state = "open" /\ OwnKey(k, key)
    /\ b' = [b EXCEPT !.ch[k].registered = Drop(@, key), !.registered = Drop(@, key),
                      !.exported = IF key \in DOMAIN b.ch[k].registered
                                      THEN Drop(@, b.ch[k].registered[key]) ELSE @]

\* on_method_invocation: somebody calls a published object and expects a reply.
Invoked ==
    /\ b.connection = "up"
    /\ Len(b.answers) < MaxInvocations
    /\ \E id \in DOMAIN b.exported :
          b' = [b EXCEPT !.answers = Append(@, 0),
                         !.ch[b.exported[id].channel] =
                             SendJson([@ EXCEPT !.invocations = @ \cup {Len(b.answers) + 1}])]

\* handle_dbus_reply, for an id that is known and arguments that fit.
HandleReply(k, n) ==
    /\ b.ch[k].state = "open"
    /\ n \in b.ch[k].invocations
    /\ b' = [b EXCEPT !.answers[n] = @ + 1, !.ch[k].invocations = @ \ {n}]

\* handle_dbus_error: the caller gets the client's error.
HandleError(k, n) ==
    /\ b.ch[k].state = "open"
    /\ n \in b.ch[k].invocations
    /\ b' = [b EXCEPT !.answers[n] = @ + 1, !.ch[k].invocations = @ \ {n}]

\* The client closes the channel.
CloseRequested(k) ==
    /\ Closes /\ b.ch[k].state \in {"opening", "open"}
    /\ Reconnects \/ k \notin Range(b.subscribers)
    /\ b' = Close(b, k)

Init ==
    b = [ch |-> [k \in Channels |-> NewChannel], connection |-> "none", subscribers |-> <<>>,
         registered |-> <<>>, exported |-> <<>>, nextid |-> 1, answers |-> <<>>]

Next ==
    \/ ConnectionReady
    \/ Invoked
    \/ BusGone
    \/ \E k \in Channels :
        \/ PrepareFails(k) \/ Prepare(k) \/ NameAppeared(k) \/ NameVanished(k)
        \/ HandleCall(k) \/ BadRequest(k) \/ MatchRefused(k) \/ EmitRefused(k) \/ Introspected(k) \/ MessageReply(k) \/ WaitComplete(k)
        \/ \E key \in Keys : Publish(k, key) \/ Unpublish(k, key)
        \/ \E n \in DOMAIN b.answers : HandleReply(k, n) \/ HandleError(k, n)
        \/ CloseRequested(k)

Spec == Init /\ [][Next]_vars

(***************************************************************************)
(* Properties.                                                             *)
(***************************************************************************)
Outstanding(c) == c.introspecting \cup c.calling \cup Range(c.waiting)

\* A call is in one place: waiting for introspection, for the bus, for the cache, or answered.
TypeOK ==
    \A k \in Channels :
        LET c == b.ch[k]
        IN  /\ c.state \in {"new", "opening", "open", "closed"}
            /\ c.introspecting \cap c.calling = {}
            /\ (c.introspecting \cup c.calling) \cap Range(c.waiting) = {}
            /\ c.state = "closed" => ~c.watching /\ c.calling = {} /\ c.waiting = <<>>

\* Every call is answered at most once, and none is lost while the channel is open.
AnsweredOnce ==
    \A k \in Channels :
        LET c == b.ch[k]
        IN  /\ Cardinality(Range(c.replied)) = Len(c.replied)
            /\ Range(c.replied) \cap Outstanding(c) = {}
            /\ c.state = "open" => Range(c.replied) \cup Outstanding(c) = 1..c.calls

\* Whoever calls a published object gets exactly one answer: from the client, or when the
\* channel that has the call is closed.
InvocationsAnswered ==
    \A n \in DOMAIN b.answers :
        LET holders == {k \in Channels : n \in b.ch[k].invocations}
        IN  b.answers[n] + Cardinality(holders) = 1

\* While channels do not publish at each other's keys, the connection's table, the channels'
\* tables and what the bus exports say the same.
TablesAgree ==
    /\ \A id \in DOMAIN b.exported :
          LET e == b.exported[id]
              own == b.ch[e.channel].registered
          IN  /\ e.key \in DOMAIN b.registered /\ b.registered[e.key] = id
              /\ e.key \in DOMAIN own /\ own[e.key] = id
    /\ Cardinality(DOMAIN b.registered) = Cardinality(DOMAIN b.exported)
    /\ \A k \in Channels : \A key \in DOMAIN b.ch[k].registered :
          b.ch[k].registered[key] \in DOMAIN b.exported

\* A channel answers and passes on calls only after it has said that it is ready; if it says
\* anything before, it is that its name has no owner, and the channel is closed with it.
ReadyFirst ==
    \A k \in Channels :
        LET c == b.ch[k]
        IN  /\ c.replied # <<>> \/ c.invocations # {} \/ c.state = "open" => c.ready
            /\ c.unasked => c.state = "closed" /\ ~c.ready

\* After its "close" a channel says nothing more, but that the calls failed whose methods it
\* was still looking up.
QuietWhenClosed == \A k \in Channels : b.ch[k].late \subseteq b.ch[k].cut

\* A channel that is being opened becomes ready or is closed, and one that follows a name is
\* closed when the bus is gone: Unsettled(k) ~> ~Unsettled(k).
Unsettled(k) == b.ch[k].state = "opening" \/ (b.connection = "down" /\ b.ch[k].watching)

\* Every call of an open channel is answered: Calling(k) ~> ~Calling(k).
Calling(k) == b.ch[k].state # "closed" /\ Outstanding(b.ch[k]) # {}

-----------------------------------------------------------------------------
(***************************************************************************)
(* The match rules of a D-Bus channel (bridge/cockpitdbusrules.c): which   *)
(* signals the client has asked for.  The rules are kept in a hash table   *)
(* with a count each, and compiled into sets of paths for a quick answer.  *)
(* The hash of a string is abstracted to the string itself, and the "^" of *)
(* hashes to the strings that occur an odd number of times.                *)
(***************************************************************************)
CONSTANTS
    Rules,     \* the rules clients use: path, ns, interface, member, arg0 (Null for none)
    Messages,  \* the signals of the bus: path, interface, member, arg0
    MaxAdds    \* bound on the additions

Null == "-"
Root == "/"

VARIABLES
    rules,     \* the CockpitDBusRules
    wanted,    \* how often the client added each rule, less the removals
    bus,       \* the matches that the bus was told of (AddMatch, RemoveMatch)
    adds

rulesVars == <<rules, wanted, bus, adds>>

(* What an instance has to satisfy.                                       *)
RulesAssumption ==
    \A r \in Rules : r.path # Null /\ r.ns \in BOOLEAN

\* A path is the root, a name below it, or a name below that (a record of names is not needed).
Ancestor(path, above) == above = Root \/ (above = "/a" /\ path = "/a/b")
EqualOrAncestor(path, above) == path = above \/ Ancestor(path, above)

\* rule_hash: equal strings cancel each other out.
RuleHash(r) ==
    LET strings == <<r.path, r.interface, r.member, r.arg0>>
    IN  <<{x \in {strings[k] : k \in 1..4} \ {Null} :
              Cardinality({k \in 1..4 : strings[k] = x}) % 2 = 1}, r.ns>>

\* rule_equal compares neither the member nor the first argument.
RuleEqual(r, q) == r.ns = q.ns /\ r.path = q.path /\ r.interface = q.interface

\* rule_lookup: a hash table compares keys with equal hashes only.
Found(all, r) == {q \in DOMAIN all : RuleHash(q) = RuleHash(r) /\ RuleEqual(q, r)}

RuleMatch(r, m) ==
    /\ r.path = m.path \/ (r.ns /\ EqualOrAncestor(m.path, r.path))
    /\ m.interface = Null \/ r.interface \in {Null, m.interface}
    /\ m.member = Null \/ r.member \in {Null, m.member}
    /\ r.arg0 \in {Null, m.arg0}

Recompile(all) ==
    [all |-> all, nothing |-> DOMAIN all = {},
     paths |-> {r.path : r \in {q \in DOMAIN all : ~q.ns}},
     namespaces |-> {r.path : r \in {q \in DOMAIN all : q.ns}},
     all_paths |-> \E r \in DOMAIN all : r.ns /\ r.path = Root,
     only_paths |-> \A r \in DOMAIN all : r.interface = Null /\ r.member = Null /\ r.arg0 = Null]

\* cockpit_dbus_rules_match, with its short cuts.
RulesMatch(rs, m) ==
    /\ ~rs.nothing
    /\ rs.all_paths \/ m.path \in rs.paths \/ \E p \in rs.namespaces : EqualOrAncestor(m.path, p)
    /\ rs.only_paths \/ \E r \in DOMAIN rs.all : RuleMatch(r, m)

\* handle_dbus_add_match and handle_dbus_remove_match tell the bus what the tables say is new.
TellAddMatch(new, r) == bus' = IF new THEN bus \cup {r} ELSE bus
TellRemoveMatch(last, r) == bus' = IF last THEN bus \ {r} ELSE bus

\* cockpit_dbus_rules_add: TRUE, and a word to the bus, for a rule that is new.
AddRule(r) ==
    LET same == Found(rules.all, r)
    IN  /\ adds < MaxAdds /\ adds' = adds + 1
        /\ wanted' = [wanted EXCEPT ![r] = @ + 1]
        /\ TellAddMatch(same = {}, r)
        /\ rules' = IF same = {}
                       THEN Recompile([q \in DOMAIN rules.all \cup {r} |->
                                          IF q = r THEN 1 ELSE rules.all[q]])
                       ELSE [rules EXCEPT !.all = [q \in DOMAIN @ |->
                                          IF q \in same THEN @[q] + 1 ELSE @[q]]]

\* cockpit_dbus_rules_remove, by a client that removes what it added.
RemoveRule(r) ==
    LET same == Found(rules.all, r)
        last == \E q \in same : rules.all[q] = 1
    IN  /\ wanted[r] > 0
        /\ wanted' = [wanted EXCEPT ![r] = @ - 1]
        /\ UNCHANGED adds
        /\ TellRemoveMatch(last, r)
        /\ rules' = IF last
                       THEN Recompile([q \in DOMAIN rules.all \ same |-> rules.all[q]])
                       ELSE [rules EXCEPT !.all = [q \in DOMAIN @ |->
                                          IF q \in same THEN @[q] - 1 ELSE @[q]]]

RulesInit ==
    /\ rules = Recompile(<<>>)
    /\ wanted = [r \in Rules |-> 0]
    /\ bus = {}
    /\ adds = 0

RulesNext == \E r \in Rules : AddRule(r) \/ RemoveRule(r)

RulesSpec == RulesInit /\ [][RulesNext]_rulesVars

\* The compiled sets never decide otherwise than a look at every rule would.
ShortCutsExact ==
    \A m \in Messages : RulesMatch(rules, m) = (\E r \in DOMAIN rules.all : RuleMatch(r, m))

\* A signal is passed on exactly when a rule that the client still has asks for it.
SignalsWanted ==
    \A m \in Messages : RulesMatch(rules, m) = (\E r \in Rules : wanted[r] > 0 /\ RuleMatch(r, m))

\* The bus is asked for exactly the signals of the rules the client still has.
BusAgrees == bus = {r \in Rules : wanted[r] > 0}
=============================================================================
