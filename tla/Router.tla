------------------------------- MODULE Router -------------------------------
(***************************************************************************)
(* The routing tables of the bridge (src/src/cockpit/router.py) and the    *)
(* stdio transport the router speaks to its client on.                     *)
(*                                                                         *)
(* The client hands out a channel id once (transport.ts, next_channel), so *)
(* a channel is opened at most once.  The Endpoint that serves an          *)
(* in-process channel is created with the channel and named here by the    *)
(* channel; a peer is an endpoint that serves many channels.               *)
(***************************************************************************)
EXTENDS Naturals, Sequences, FiniteSets

CONSTANTS
    Channels,    \* channel ids the client may open
    Peers,       \* peer bridges that the routing rules can start
    NoEndpoint,  \* "this channel is not in open_channels"
    Groups,      \* the channel groups a "kill" can name, as sets of channels
    MaxQueue,    \* bound on the calls an ExecutionQueue or a peer link holds
    MaxTasks     \* bound on the tasks one channel has running

ASSUME RouterAssumption ==
    /\ Channels \cap Peers = {}
    /\ NoEndpoint \notin Channels \cup Peers
    /\ Groups \subseteq SUBSET Channels
    /\ MaxQueue \in Nat /\ MaxTasks \in Nat

Endpoint == Channels \cup Peers

VARIABLES
    openChannels,  \* Router.open_channels
    live,          \* the keys of Router.endpoints
    endpoints,     \* Router.endpoints: the channels each endpoint serves
    noEndpoints,   \* Router.no_endpoints, the asyncio.Event
    frozen,        \* endpoints whose methods an ExecutionQueue has replaced
    queue,         \* the calls each ExecutionQueue holds back
    eof,           \* Router._eof
    closed,        \* CockpitProtocol._closed of the router
    link,          \* the stdio transport
    done,          \* _communication_done has been resolved
    exited,        \* communicate() has returned
    view,          \* what the client has been told of each channel
    stray          \* channels with a message written after their "close"

tables == <<openChannels, live, endpoints, noEndpoints>>
hold == <<frozen, queue>>
session == <<eof, closed, done, exited>>
routerVars == <<tables, hold, session, link, view, stray>>

(* A call held back or sent on: a command for a channel, or a "kill" for   *)
(* the channels of a group.                                                *)
Commands == {"open", "data", "done", "close", "options", "kill", "killhost"}
Call == [chs : SUBSET Channels, cmd : Commands]
call(c, cmd) == [chs |-> {c}, cmd |-> cmd]

View == {"unused", "open", "ready", "done", "closed"}

RouterTypeOK ==
    /\ openChannels \in [Channels -> Endpoint \cup {NoEndpoint}]
    /\ live \in SUBSET Endpoint
    /\ endpoints \in [Endpoint -> SUBSET Channels]
    /\ noEndpoints \in BOOLEAN
    /\ frozen \in SUBSET Endpoint
    /\ queue \in [Endpoint -> Seq(Call)]
    /\ eof \in BOOLEAN /\ closed \in BOOLEAN
    /\ link \in {"open", "closing", "lost"}
    /\ done \in BOOLEAN /\ exited \in BOOLEAN
    /\ view \in [Channels -> View]
    /\ stray \in SUBSET Channels

RouterInit ==
    /\ openChannels = [c \in Channels |-> NoEndpoint]
    /\ live = {}
    /\ endpoints = [e \in Endpoint |-> {}]
    /\ noEndpoints = TRUE
    /\ frozen = {}
    /\ queue = [e \in Endpoint |-> <<>>]
    /\ eof = FALSE /\ closed = FALSE
    /\ link = "open"
    /\ done = FALSE /\ exited = FALSE
    /\ view = [c \in Channels |-> "unused"]
    /\ stray = {}

-----------------------------------------------------------------------------
(* The router handles frames while it reads from its transport.            *)
Reading == link = "open" /\ ~eof

(* A mutant of AddRoute: the event is not cleared for a new endpoint.      *)
AddRouteEventKept(c, e) ==
    /\ live' = live \cup {e}
    /\ openChannels' = [openChannels EXCEPT ![c] = e]
    /\ endpoints' = [endpoints EXCEPT ![e] = @ \cup {c}]
    /\ UNCHANGED noEndpoints

(* add_endpoint() by Endpoint.__init__, then the two tables that           *)
(* channel_control_received() fills in for an "open".                      *)
AddRoute(c, e) ==
    /\ live' = live \cup {e}
    /\ openChannels' = [openChannels EXCEPT ![c] = e]
    /\ endpoints' = [endpoints EXCEPT ![e] = @ \cup {c}]
    /\ noEndpoints' = (noEndpoints /\ e \in live)

(* send_channel_control() of a "close": the channel goes, e stays.         *)
DropChannel(c, e) ==
    /\ openChannels' = [openChannels EXCEPT ![c] = NoEndpoint]
    /\ endpoints' = [endpoints EXCEPT ![e] = @ \ {c}]
    /\ UNCHANGED <<live, noEndpoints>>

ChannelsOf(S) == UNION {endpoints[e] : e \in S}

(* shutdown_endpoint() of every endpoint in S: its channels are dropped    *)
(* and the endpoint object goes.                                           *)
RemoveEndpoints(S) ==
    /\ live' = live \ S
    /\ endpoints' = [e \in Endpoint |-> IF e \in S THEN {} ELSE endpoints[e]]
    /\ openChannels' = [c \in Channels |->
                           IF c \in ChannelsOf(S) THEN NoEndpoint ELSE openChannels[c]]
    /\ noEndpoints' = (noEndpoints \/ (S # {} /\ live \subseteq S))

(* shutdown_endpoint() writes a "close" for every channel of S, over what  *)
(* else this step has told the client (v).                                 *)
CloseView(S, v) ==
    view' = [c \in Channels |-> IF c \in ChannelsOf(S) THEN "closed" ELSE v[c]]

(* Thawed or discarded execution queues.                                   *)
Release(S) ==
    /\ frozen' = frozen \ S
    /\ queue' = [e \in Endpoint |-> IF e \in S THEN <<>> ELSE queue[e]]

(* A mutant of CloseAfterLast: nobody asks whether we were waiting.        *)
NeverCloseAfterLast(S) == UNCHANGED link

(* "were we waiting to exit?": the last endpoint to go after EOF closes    *)
(* the transport.                                                          *)
CloseAfterLast(S) ==
    link' = IF S # {} /\ live \subseteq S /\ eof /\ link = "open"
            THEN "closing" ELSE link

ShutdownEndpoints(S) ==
    RemoveEndpoints(S) /\ CloseView(S, view) /\ Release(S) /\ CloseAfterLast(S)

(* A frozen endpoint's method appends to its ExecutionQueue.               *)
Enqueue(e, k) ==
    /\ e \in frozen
    /\ Len(queue[e]) < MaxQueue
    /\ queue' = [queue EXCEPT ![e] = Append(@, k)]
    /\ UNCHANGED frozen

(* Writing a message of channel c; after its close it is a stray one.      *)
Write(c, became) ==
    IF view[c] = "closed"
    THEN stray' = stray \cup {c} /\ UNCHANGED view
    ELSE view' = [view EXCEPT ![c] = became] /\ UNCHANGED stray

-----------------------------------------------------------------------------
(* communicate() returns.                                                  *)
Exit ==
    /\ done /\ noEndpoints /\ ~exited
    /\ exited' = TRUE
    /\ UNCHANGED <<tables, hold, eof, closed, link, done, view, stray>>

(* The client goes away: a read or a write fails and abort() schedules     *)
(* connection_lost().                                                      *)
LinkAbort ==
    /\ link = "open"
    /\ link' = "closing"
    /\ UNCHANGED <<tables, hold, session, view, stray>>
=============================================================================
