----------------------------- MODULE WebService -----------------------------
(***************************************************************************)
(* The web service of one session: cockpitwebservice.c and cockpitcreds.c  *)
(* (src/src/ws).  It relays the channels of the browser's web sockets to   *)
(* one bridge and back, answers the bridge's "authorize" messages with the *)
(* credentials of the login, and takes everything down on logout.          *)
(***************************************************************************)
EXTENDS Integers, Sequences, SequencesExt, FiniteSets

CONSTANTS
    Sockets,     \* the web sockets of the session
    Channels,    \* the channel ids of one web socket
    MaxQueue,    \* bound on the messages under way to the bridge
    MaxOpens,    \* bound on the "open" messages of one channel
    MaxInits,    \* bound on the "init" messages of the bridge
    Dirty,       \* whether a web socket may end without a close frame
    Unruly       \* whether clients break the protocol

(* What an instance has to satisfy.                                       *)
WebServiceAssumption ==
    MaxQueue \in Nat /\ MaxOpens \in Nat /\ MaxInits \in Nat /\ Dirty \in BOOLEAN /\ Unruly \in BOOLEAN

VARIABLES
    v,    \* the CockpitWebService
    so,   \* its CockpitSockets, and the state of their connections
    out,  \* the messages under way to the bridge
    br    \* the bridge

vars == <<v, so, out, br>>

(* v: init (init_received), closing, done (sent_done), transport (open),   *)
(* password (of the creds), poisoned, timer (credentials_timeout), by      *)
(* (sockets.by_channel), callers; opens: how often each channel was opened *)
(* so: ws (the ready state), tracked (in by_connection), init, channels;   *)
(* received: the close frame of the other side came; late: channels opened *)
(* after the close frame of this side                                      *)
(* br: inits, open (channels as the bridge knows them), n (how often each  *)
(* was opened), twice (those that were opened while open), asks            *)
(* (unanswered "authorize"); back: the "close" messages under way from the *)
(* bridge, each with the number of the opening that it ends; left:         *)
(* channels that no socket has any more and that the bridge was not told   *)
(* to close                                                                *)
Ids == Sockets \X Channels
Free == "free"
States == {"none", "connecting", "open", "closing", "closed"}

Init ==
    /\ v = [init |-> FALSE, closing |-> FALSE, done |-> FALSE, transport |-> TRUE,
            password |-> TRUE, poisoned |-> FALSE, timer |-> FALSE,
            by |-> [c \in Ids |-> Free], callers |-> 0, opens |-> [c \in Ids |-> 0]]
    /\ so = [s \in Sockets |-> [ws |-> "none", tracked |-> FALSE, init |-> FALSE,
                                channels |-> {}, received |-> FALSE, late |-> {}]]
    /\ out = <<>>
    /\ br = [inits |-> 0, open |-> {}, n |-> [c \in Ids |-> 0], twice |-> {}, asks |-> 0,
             back |-> <<>>, left |-> {}]

TypeOK ==
    /\ v.callers \in 0..Cardinality(Sockets) /\ v.by \in [Ids -> Sockets \cup {Free}]
    /\ \A s \in Sockets : so[s].ws \in States /\ so[s].channels \subseteq Ids
    /\ out \in Seq([cmd : {"open", "close", "data", "kill", "init", "authorize"},
                    ch : Ids \cup {<<>>}])
    /\ br.open \subseteq Ids /\ br.asks \in 0..1 /\ br.back \in Seq(Ids \X Nat)

-----------------------------------------------------------------------------
(* A handler maps a state [v, so, out, br] to another.                     *)
Now == [v |-> v, so |-> so, out |-> out, br |-> br]
Become(q) == v' = q.v /\ so' = q.so /\ out' = q.out /\ br' = q.br

Msg(cmd, c) == [cmd |-> cmd, ch |-> c]

(* cockpit_transport_send(), which every caller guards with sent_done      *)
Relay(q, m) == IF q.v.done THEN q ELSE [q EXCEPT !.out = Append(@, m)]

(* cockpit_socket_add_channel()                                            *)
AddChannel(q, s, c) == [q EXCEPT !.v.by[c] = s, !.so[s].channels = @ \cup {c}]

(* cockpit_socket_remove_channel()                                         *)
RemoveChannel(q, s, c) == [q EXCEPT !.v.by[c] = Free, !.so[s].channels = @ \ {c}]

(* cockpit_socket_track() and caller_begin() of cockpit_web_service_socket *)
Track(q, s) ==
    [q EXCEPT !.so[s].tracked = TRUE, !.so[s].ws = "connecting", !.v.callers = @ + 1]

(* A mutant of Destroy: the channels stay in the table.                    *)
DestroyOnly(q, s) ==
    [q EXCEPT !.so[s].channels = {}, !.so[s].tracked = FALSE]

(* cockpit_socket_destroy()                                                *)
Destroy(q, s) ==
    [q EXCEPT !.v.by = [c \in Ids |-> IF c \in q.so[s].channels THEN Free ELSE @[c]],
              !.so[s].channels = {}, !.so[s].tracked = FALSE]

(* caller_end()                                                            *)
CallerEnd(q) == [q EXCEPT !.v.callers = @ - 1]

(* on_web_socket_closing(): the bridge is told for a snapshot of them.     *)
OnClosing(q, s) ==
    IF q.v.done THEN q
    ELSE LET told == q.so[s].channels
             sent == FoldSet(LAMBDA c, x : Append(x, Msg("close", c)), q.out, told)
         IN  [q EXCEPT !.out = sent]

(* on_web_socket_close()                                                   *)
OnClose(q, s) == CallerEnd(Destroy([q EXCEPT !.so[s].ws = "closed"], s))

(* web_socket_connection_close(): "closing" is emitted first; before the   *)
(* handshake is done the connection ends at once.                          *)
CloseSocket(q, s) ==
    LET q1 == OnClosing(q, s)
    IN  IF q.so[s].ws = "connecting" THEN OnClose(q1, s)
        ELSE [q1 EXCEPT !.so[s].ws = "closing"]

(* cockpit_sockets_close()                                                 *)
SocketsClose(q) ==
    FoldSet(LAMBDA s, x : CloseSocket(x, s), q,
            {s \in Sockets : q.so[s].tracked /\ q.so[s].ws \in {"connecting", "open"}})

(* cockpit_web_service_dispose()                                           *)
Dispose(q) ==
    SocketsClose([q EXCEPT !.v.timer = FALSE, !.v.closing = TRUE,
                           !.v.done = TRUE, !.v.transport = FALSE])

(* cockpit_creds_poison()                                                  *)
Poison(q) == [q EXCEPT !.v.poisoned = TRUE, !.v.password = FALSE]

(* cockpit_creds_get_password()                                            *)
GetPassword(q) == ~q.v.poisoned /\ q.v.password

-----------------------------------------------------------------------------
(* cockpit_web_service_socket(): auth finds no service that is closing.    *)
NewSocket(s) == so[s].ws = "none" /\ ~v.closing /\ Become(Track(Now, s))

(* on_web_socket_open()                                                    *)
OnOpen(s) == so[s].ws = "connecting" /\ Become([Now EXCEPT !.so[s].ws = "open"])

(* inbound_protocol_error()                                                *)
InboundError(q, s) == IF q.so[s].ws = "open" THEN CloseSocket(q, s) ELSE q

(* process_and_relay_open()                                                *)
ProcessOpen(q, s, c) ==
    IF q.v.closing THEN q
    ELSE IF q.v.by[c] # Free THEN InboundError(q, s)
    ELSE LET late == IF q.so[s].ws = "closing" THEN {c} ELSE {}
         IN  Relay([AddChannel(q, s, c) EXCEPT !.v.opens[c] = @ + 1, !.so[s].late = @ \cup late],
                   Msg("open", c))

(* process_close() and process_and_relay_close()                           *)
ProcessClose(q, s, c) == Relay(RemoveChannel(q, s, c), Msg("close", c))

(* process_logout()                                                        *)
ProcessLogout(q) == Dispose(Poison(q))

(* A message reaches on_web_socket_message() until the close frame of the  *)
(* client has come, also when the service has sent its own.                *)
Talks(s) == so[s].ws \in {"open", "closing"} /\ ~so[s].received
May(s, c) == Unruly \/ c[1] = s
Room == Len(out) < MaxQueue

(* process_socket_init()                                                   *)
ClientInit(s) ==
    /\ Talks(s)
    /\ \/ Become([Now EXCEPT !.so[s].init = TRUE])
       \/ Unruly /\ Become(InboundError(Now, s))

(* dispatch_inbound_command(): commands before "init" are an error.        *)
Command(s, q) == IF so[s].init THEN q ELSE InboundError(Now, s)

ClientOpens(s, c) ==
    /\ Talks(s) /\ May(s, c) /\ Room /\ v.opens[c] < MaxOpens
    /\ so[s].init \/ Unruly
    /\ Become(Command(s, ProcessOpen(Now, s, c)))

ClientCloses(s, c) ==
    /\ Talks(s) /\ c \in so[s].channels /\ Room
    /\ Become(Command(s, ProcessClose(Now, s, c)))

(* on_web_socket_message() with a payload: it is relayed for any channel,  *)
(* and "init" is not looked at.                                            *)
ClientSends(s, c) ==
    /\ Talks(s) /\ May(s, c) /\ Room /\ (Unruly \/ c \in so[s].channels)
    /\ ~v.closing
    /\ Become(Relay(Now, Msg("data", c)))

(* process_kill()                                                          *)
ClientKills(s) == Talks(s) /\ so[s].init /\ Room /\ Become(Relay(Now, Msg("kill", <<>>)))

(* process_socket_authorize() with a "basic" response: cockpit.js sends    *)
(* the credentials of the user again.                                      *)
ClientAuthorizes(s) ==
    Talks(s) /\ so[s].init /\ \E given \in BOOLEAN : Become([Now EXCEPT !.v.password = given])

ClientLogout(s) == Talks(s) /\ so[s].init /\ Become(ProcessLogout(Now))

(* The close frame of the client: answered, or the answer to ours.         *)
ClientCloseFrame(s) ==
    /\ Talks(s)
    /\ Become([(IF so[s].ws = "open" THEN CloseSocket(Now, s) ELSE Now)
                 EXCEPT !.so[s].received = TRUE])

(* The connection ends: after the close frames, after a timeout, or with   *)
(* nothing said, and then "closing" is not emitted.                        *)
ConnectionEnds(s) ==
    /\ so[s].ws = "closing" \/ (Dirty /\ so[s].ws \in {"connecting", "open"})
    /\ LET lost == IF so[s].ws = "closing" THEN so[s].late \cap so[s].channels ELSE so[s].channels
       IN  Become(OnClose([Now EXCEPT !.br.left = @ \cup lost], s))

-----------------------------------------------------------------------------
(* outbound_protocol_error() and on_transport_closed()                     *)
TransportClosed(q) == Dispose(SocketsClose([q EXCEPT !.v.transport = FALSE]))

(* process_transport_init(): without "explicit-superuser", or when no      *)
(* superuser bridge is to be started, and otherwise.                       *)
BridgeInit ==
    /\ v.transport /\ br.inits < MaxInits /\ Room
    /\ \E superuser \in BOOLEAN :
         LET q == Relay([Now EXCEPT !.v.init = TRUE, !.br.inits = @ + 1, !.v.timer = TRUE],
                        Msg("init", <<>>))
         IN  Become(IF superuser THEN q ELSE Poison(q))

(* on_transport_control(): another command comes before "init".            *)
BridgeUnruly == v.transport /\ ~v.init /\ Become(TransportClosed(Now))

(* on_transport_control() with "superuser-init-done"                       *)
SuperuserInitDone == v.transport /\ v.init /\ Become(Poison(Now))

(* poison_creds(), two minutes after "init"                                *)
PoisonCreds == v.timer /\ Become([Poison(Now) EXCEPT !.v.timer = FALSE])

(* process_transport_authorize(): an answer for every question.            *)
BridgeAuthorizes ==
    /\ v.transport /\ v.init /\ br.asks = 0 /\ Room
    /\ Become([Relay(Now, Msg("authorize", <<>>)) EXCEPT !.br.asks = 1])

(* The bridge closes a channel.                                            *)
Closed(q, c) ==
    [q EXCEPT !.br.open = @ \ {c}, !.br.back = Append(@, <<c, q.br.n[c]>>)]
BridgeCloses(c) == v.transport /\ c \in br.open /\ Become(Closed(Now, c))

(* on_transport_control() with "close" of a channel: process_close() for   *)
(* the socket that has one of that id, which may be a later one.           *)
OnTransportClose ==
    /\ v.transport /\ br.back # <<>>
    /\ LET c == Head(br.back)[1]
           q == [Now EXCEPT !.br.back = Tail(@)]
           left == IF Head(br.back)[2] < v.opens[c] THEN {c} ELSE {}
       IN  Become(IF v.by[c] = Free THEN q
                  ELSE [RemoveChannel(q, v.by[c], c) EXCEPT !.br.left = @ \cup left])

(* The transport is closed by the bridge: on_transport_closed().           *)
BridgeEnds == v.transport /\ Become(TransportClosed(Now))

(* The bridge takes the next message; it answers a "close" with its own.   *)
BridgeTakes ==
    /\ v.transport /\ out # <<>>
    /\ LET m == Head(out)
           q == [Now EXCEPT !.out = Tail(@), !.br.asks = IF m.cmd = "authorize" THEN 0 ELSE @]
       IN  Become(CASE m.cmd = "open" ->
                         [q EXCEPT !.br.open = @ \cup {m.ch}, !.br.n[m.ch] = @ + 1,
                                   !.br.twice = @ \cup ({m.ch} \cap br.open)]
                    [] m.cmd = "close" /\ m.ch \in br.open -> Closed(q, m.ch)
                    [] OTHER -> q)

Next ==
    \/ \E s \in Sockets :
         \/ NewSocket(s) \/ OnOpen(s) \/ ClientInit(s) \/ ClientKills(s) \/ ClientAuthorizes(s)
         \/ ClientLogout(s) \/ ClientCloseFrame(s) \/ ConnectionEnds(s)
         \/ \E c \in Ids : ClientOpens(s, c) \/ ClientCloses(s, c) \/ ClientSends(s, c)
    \/ BridgeInit \/ BridgeUnruly \/ SuperuserInitDone \/ PoisonCreds \/ BridgeAuthorizes
    \/ BridgeEnds \/ BridgeTakes \/ OnTransportClose
    \/ \E c \in Ids : BridgeCloses(c)

Spec == Init /\ [][Next]_vars

-----------------------------------------------------------------------------
(* The two tables of channels agree, and name sockets that exist: a stale  *)
(* entry of by_channel would be a socket that was freed.                   *)
TablesAgree ==
    \A c \in Ids, s \in Sockets :
      (v.by[c] = s) <=> (c \in so[s].channels /\ so[s].tracked)

(* A channel that the bridge has, once it has read what is under way, is   *)
(* one that some web socket has, so that it ends when that does.  Three    *)
(* ways to leave one behind are known: the connection ends without a close *)
(* frame; it was opened after the close frame of the service; or the       *)
(* "close" of an earlier channel with its id came late.                    *)
WillBeOpen(c) ==
    LET ms == SelectSeq(out, LAMBDA m : m.ch = c /\ m.cmd \in {"open", "close"})
    IN  IF ms = <<>> THEN c \in br.open ELSE Last(ms).cmd = "open"
NoneLeftBehind ==
    v.transport /\ ~v.done => \A c \in Ids : WillBeOpen(c) => v.by[c] # Free \/ c \in br.left

(* The bridge gets an "open" for a channel that is open only if it was     *)
(* left behind.                                                            *)
OpenedOnce == br.twice \subseteq br.left

(* The service is idle, and its session may time out, exactly when no web  *)
(* socket is left (caller_begin() and caller_end()).                       *)
CallersCounted == v.callers = Cardinality({s \in Sockets : so[s].tracked})

(* After logout, or when the bridge is gone, all web sockets end:          *)
(* GoingDown ~> NoCallers.                                                 *)
GoingDown == v.closing
NoCallers == v.callers = 0

=============================================================================
