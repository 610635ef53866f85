---------------------------- MODULE BridgeRouter ----------------------------
(***************************************************************************)
(* CockpitRouter and CockpitPeer of the C bridge (src/src/bridge): rules   *)
(* decide whether a local channel or a peer bridge handles a channel,      *)
(* fences hold back channels, and peers are started when they are needed,  *)
(* may fail to start, die, time out and be started again.                  *)
(***************************************************************************)
EXTENDS Integers, Sequences, SequencesExt, FiniteSets, Functions

CONSTANTS
    Channels,     \* the channels that the client opens
    Peers,        \* the peer bridges, a sequence in the order of their rules
    Payloads,     \* the payloads that local channels support
    InitHost,     \* the host named in the client's "init" message
    Opts,         \* the options of each channel's open message
    Matches,      \* the "match" of each peer's configuration
    HasProblem,   \* peers with a "problem" in their configuration
    HasTimeout,   \* peers with a "timeout"
    Unspawnable,  \* peers whose program cannot be run
    Faults,       \* what the client and the peers may do wrong
    MaxData,      \* bound on the messages that the client sends on a channel
    MaxStarts     \* bound on the times that a peer is started

AllFaults == {"protocol", "die", "failinit", "noinit"}
Anything == "any"

(* What an instance has to satisfy.                                       *)
BridgeRouterAssumption ==
    /\ DOMAIN Opts = Channels /\ DOMAIN Matches = ToSet(Peers)
    /\ HasProblem \cup HasTimeout \cup Unspawnable \subseteq ToSet(Peers)
    /\ Faults \subseteq AllFaults /\ MaxData \in Nat /\ MaxStarts \in Nat

P == ToSet(Peers)
Message == [kind : {"open", "data", "close"}, channel : Channels, n : Nat]
message(kind, c, n) == [kind |-> kind, channel |-> c, n |-> n]

VARIABLES
    r,       \* the router, its transport and its peers
    client   \* the client: whether it sent "init", and its messages per channel

vars == <<r, client>>

(* init: an "init" message was received    dead: the transport was closed  *)
(* channels, fences, fenced: as in CockpitRouter (the group of a channel   *)
(* is in its options)    freeze, frozen: the transport's frozen channels   *)
(* and their messages    got: messages per channel with the one who        *)
(* handled them    closes: the close messages sent for each channel        *)
(* peers: other (the transport), inited, closed, problem, failure,         *)
(* channels, frozen, timeout as in CockpitPeer; theirs: channels that the  *)
(* peer's process has open; starts: times it was started                   *)
PeerState ==
    [other : BOOLEAN, inited : BOOLEAN, closed : BOOLEAN, problem : STRING,
     failure : STRING, channels : SUBSET Channels, frozen : Seq(Channels),
     timeout : BOOLEAN, theirs : SUBSET Channels, starts : 0..MaxStarts]

TypeOK ==
    /\ r.channels \subseteq Channels /\ r.fences \subseteq r.channels
    /\ r.fenced \in Seq(Channels) /\ r.freeze \subseteq Channels
    /\ r.frozen \in [Channels -> Seq(Message)]
    /\ r.peers \in [P -> PeerState]
    /\ \A p \in P : r.peers[p].inited /\ r.peers[p].other => r.peers[p].frozen = <<>>

NewPeer == [other |-> FALSE, inited |-> FALSE, closed |-> FALSE, problem |-> "",
            failure |-> "", channels |-> {}, frozen |-> <<>>, timeout |-> FALSE,
            theirs |-> {}, starts |-> 0]

Init ==
    /\ r = [init |-> FALSE, dead |-> "", channels |-> {}, fences |-> {}, fenced |-> <<>>,
            freeze |-> {}, frozen |-> [c \in Channels |-> <<>>],
            got |-> [c \in Channels |-> <<>>], closes |-> [c \in Channels |-> <<>>],
            peers |-> [p \in P |-> NewPeer]]
    /\ client = [c \in Channels |-> <<>>]

-----------------------------------------------------------------------------
(* cockpit_router_normalize_host(): a host may name an option and its value*)
(* as in "host+user+admin"; the host of this bridge is left out.           *)
NormalizeHost(options) ==
    IF "host" \notin DOMAIN options THEN options
    ELSE LET h == options["host"]
             split == DOMAIN h = 1..3 /\ "host-" \o h[2] \notin DOMAIN options
             actual == IF split THEN <<h[1]>> ELSE h
             more == IF split THEN [options EXCEPT !["host"] = actual] @@ ("host-" \o h[2] :> h[3])
                     ELSE options
         IN  IF actual = <<InitHost>> THEN Restrict(more, DOMAIN more \ {"host"}) ELSE more

(* cockpit_router_normalize_host_params(): older ways to ask for a session *)
(* that is not shared.                                                     *)
NormalizeHostParams(options) ==
    LET private == /\ "session" \notin DOMAIN options
                   /\ "user" \in DOMAIN options \/ "host-key" \in DOMAIN options
                   /\ "temp-session" \in DOMAIN options => options["temp-session"]
        drop == {f \in {"temp-session"} : "session" \notin DOMAIN options}
                \cup {f \in {"user"} : f \in DOMAIN options /\ options[f] = "self"}
        rest == Restrict(options, DOMAIN options \ drop)
    IN  IF private THEN ("session" :> "private") @@ rest ELSE rest

(* router_rule_match()                                                     *)
RuleMatch(match, options) ==
    \A f \in DOMAIN match : f \in DOMAIN options /\ match[f] \in {Anything, options[f]}

-----------------------------------------------------------------------------
SetPeer(s, p, q) == [s EXCEPT !.peers[p] = q]
Freeze(s, c) == [s EXCEPT !.freeze = @ \cup {c}]
Close(s, problem) == [s EXCEPT !.dead = problem]

(* reply_channel_closed()                                                  *)
ReplyClosed(s, c, problem) == [s EXCEPT !.closes[c] = Append(@, problem)]

Got(s, m, owner) == [s EXCEPT !.got[m.channel] = Append(@, [owner |-> owner, n |-> m.n])]

(* fail_start_problem()                                                    *)
StartProblem(q, p) ==
    IF q.failure # "" THEN q.failure ELSE IF p \in HasProblem THEN "configured" ELSE ""

(* cockpit_peer_ensure_with_done() and spawn_process_for_config()          *)
Ensure(q, p) ==
    IF q.other THEN q
    ELSE IF p \in Unspawnable
    THEN [q EXCEPT !.closed = TRUE, !.problem = StartProblem(q, p)]
    ELSE [q EXCEPT !.other = TRUE, !.starts = @ + 1, !.theirs = {}]

(* on_transport_control() of the peer, for a channel of its own.           *)
Forward(s, p, m) ==
    LET q == s.peers[p]
        s1 == IF q.other THEN Got(s, m, p) ELSE s
    IN  SetPeer(s1, p,
                [q EXCEPT !.channels = IF m.kind = "close" THEN @ \ {m.channel} ELSE @,
                          !.theirs = IF m.kind = "open" /\ q.other
                                     THEN @ \cup {m.channel} ELSE @])

(* cockpit_peer_handle(): a peer that has not sent "init" yet freezes the  *)
(* channel and queues its open message again.                              *)
Handle(s, p, m) ==
    LET c == m.channel
        q == IF s.peers[p].closed THEN s.peers[p] ELSE Ensure(s.peers[p], p)
        s1 == SetPeer(s, p, [q EXCEPT !.channels = @ \cup {c}, !.timeout = FALSE])
    IN  IF q.closed
        THEN [s |-> IF q.problem # "" THEN ReplyClosed(SetPeer(s, p, q), c, q.problem)
                    ELSE SetPeer(s, p, q),
              done |-> q.problem # ""]
        ELSE IF q.inited THEN [s |-> Forward(s1, p, m), done |-> TRUE]
        ELSE LET s2 == Freeze(SetPeer(s1, p, [s1.peers[p] EXCEPT !.frozen = Append(@, c)]), c)
             IN  [s |-> [s2 EXCEPT !.frozen[c] = Append(@, m)], done |-> TRUE]

(* process_open_channel(), process_open_not_supported() and                *)
(* create_channel()                                                        *)
OpenLocal(s, m) ==
    LET c == m.channel
    IN  Got([s EXCEPT !.channels = @ \cup {c},
                      !.fences = IF Opts[c].group = "fence" THEN @ \cup {c} ELSE @],
            m, "local")

(* The rules in the order that cockpit_router_new() leaves them in: the    *)
(* bridges, no other hosts, the payloads, nothing else.  A rule whose peer *)
(* has closed leaves the channel to the next one.                          *)
RunRules(s, m, options) ==
    LET try(a, p) == IF a.done \/ ~RuleMatch(Matches[p], options) THEN a ELSE Handle(a.s, p, m)
        a == FoldLeft(try, [s |-> s, done |-> FALSE], Peers)
    IN  IF a.done THEN a.s
        ELSE IF "host" \notin DOMAIN options /\ options["payload"] \in Payloads
        THEN OpenLocal(a.s, m)
        ELSE [Got(a.s, m, "unsupported") EXCEPT !.channels = @ \cup {m.channel}]

(* A mutant of MustWait: only one channel waits.                           *)
MustWaitOne(s, c) == s.fences # {} /\ c \notin s.fences /\ s.fenced = <<>>

(* process_open(): a fence is open, and this channel is not part of it.    *)
MustWait(s, c) == s.fences # {} /\ c \notin s.fences

(* process_open()                                                          *)
ProcessOpen(s, m) ==
    LET c == m.channel
    IN  IF c \in s.channels THEN Close(s, "protocol-error")
        ELSE IF MustWait(s, c)
        THEN [Freeze([s EXCEPT !.fenced = Append(@, c)], c) EXCEPT !.frozen[c] = Append(@, m)]
        ELSE RunRules(s, m, NormalizeHostParams(NormalizeHost(Opts[c].options)))

(* Who else listens to the transport: a local channel, or the peer that    *)
(* has the channel.                                                        *)
Deliver(s, m) ==
    LET c == m.channel
        owners == {p \in P : c \in s.peers[p].channels}
    IN  IF m.kind = "open" THEN ProcessOpen(s, m)
        ELSE IF c \in s.channels THEN Got(s, m, Last(s.got[c]).owner)
        ELSE IF owners = {} THEN s
        ELSE Forward(s, CHOOSE p \in owners : TRUE, m)

Emit(s, m) ==
    IF m.channel \in s.freeze THEN [s EXCEPT !.frozen[m.channel] = Append(@, m)]
    ELSE Deliver(s, m)

(* A mutant of Thaw: the messages come last to first.                      *)
ThawReversed(s, c) ==
    FoldLeft(Emit, [s EXCEPT !.freeze = @ \ {c}, !.frozen[c] = <<>>], Reverse(s.frozen[c]))

(* cockpit_transport_thaw()                                                *)
Thaw(s, c) ==
    FoldLeft(Emit, [s EXCEPT !.freeze = @ \ {c}, !.frozen[c] = <<>>], s.frozen[c])

(* on_channel_closed(): the last channel of the fence lets the others go   *)
(* on.                                                                     *)
OnChannelClosed(s, c) ==
    LET s1 == [s EXCEPT !.channels = @ \ {c}, !.fences = @ \ {c}]
    IN  IF c \notin s.fences \/ s1.fences # {} THEN s1
        ELSE FoldLeft(Thaw, [s1 EXCEPT !.fenced = <<>>], s1.fenced)

(* A local channel closes: the client is told, then the router.            *)
LocalClosed(s, c, problem) == OnChannelClosed(ReplyClosed(s, c, problem), c)

-----------------------------------------------------------------------------
(* cockpit_peer_reset(), once the transport of the peer is closed.         *)
Reset(q) == [NewPeer EXCEPT !.starts = q.starts]

(* on_other_closed(): without an "init" message the problem is the one of  *)
(* the configuration, and if there is none others handle the channels.     *)
(* The peer can be started again if it has a timeout.                      *)
OnOtherClosed(s, p, problem) ==
    LET q == s.peers[p]
        pr == IF ~q.inited THEN StartProblem(q, p)
              ELSE IF q.closed \/ problem # "" THEN problem ELSE "disconnected"
        s1 == SetPeer(s, p, [q EXCEPT !.other = FALSE, !.closed = TRUE, !.channels = {},
                                      !.theirs = {}, !.problem = IF q.inited THEN @ ELSE pr])
        each(a, c) == Thaw(IF pr # "" THEN ReplyClosed(a, c, pr) ELSE a, c)
        s2 == FoldLeft(each, s1, SetToSeq(q.channels))
    IN  IF p \in HasTimeout THEN SetPeer(s2, p, Reset(s2.peers[p])) ELSE s2

(* on_other_control(): "init" of the peer thaws what waited for it.        *)
OnOtherInit(s, p) ==
    LET q == s.peers[p]
    IN  FoldLeft(Thaw, SetPeer(s, p, [q EXCEPT !.inited = TRUE, !.frozen = <<>>]), q.frozen)

(* on_other_control(): the last channel that closes starts the timer.      *)
OnOtherClose(s, p, c) ==
    LET q == s.peers[p]
        left == q.channels \ {c}
    IN  [SetPeer(s, p, [q EXCEPT !.channels = left, !.theirs = @ \ {c},
                                 !.timeout = IF left = {} THEN p \in HasTimeout ELSE @])
           EXCEPT !.closes[c] = Append(@, "")]

-----------------------------------------------------------------------------
(* process_init(), and on_transport_control() before it.                   *)
ClientInit ==
    /\ r.dead = "" /\ (r.init => "protocol" \in Faults)
    /\ r' = IF r.init THEN Close(r, "protocol-error") ELSE [r EXCEPT !.init = TRUE]
    /\ UNCHANGED client

Told(c) == r.closes[c] # <<>>

(* on_transport_control() and on_transport_recv(): the client opens every  *)
(* channel once, and sends on it until it closes it or hears that it is    *)
(* closed.                                                                 *)
ClientSends(c) ==
    /\ r.dead = "" /\ (r.init \/ "protocol" \in Faults)
    /\ \E kind \in {"open", "data", "close"} :
          LET m == message(kind, c, Len(client[c]) + 1)
          IN  /\ IF kind = "open" THEN client[c] = <<>>
                 ELSE /\ client[c] # <<>> /\ ~Told(c)
                      /\ Last(client[c]) # "close"
                      /\ (kind = "data") => Len(client[c]) <= MaxData
              /\ r' = IF ~r.init THEN Close(r, "protocol-error") ELSE Emit(r, m)
              /\ client' = [client EXCEPT ![c] = Append(@, kind)]

(* A local channel closes by itself or because the client asked.           *)
LocalCloses(c) ==
    /\ r.dead = "" /\ c \in r.channels
    /\ r' = LocalClosed(r, c, IF Last(r.got[c]).owner = "unsupported" THEN "not-supported" ELSE "")
    /\ UNCHANGED client

(* process_kill(): all local channels, or those of a group.                *)
Kill ==
    /\ r.dead = "" /\ r.init /\ r.channels # {}
    /\ \E group \in {"", "fence", "default"} :
          LET list == {c \in r.channels : group \in {"", Opts[c].group}}
          IN  r' = FoldLeft(LAMBDA a, c : LocalClosed(a, c, "terminated"), r, SetToSeq(list))
    /\ UNCHANGED client

Running(p) == r.dead = "" /\ r.peers[p].other

(* The bound on starts: a peer that has used it up does not end again.     *)
MayEnd(p) == Running(p) /\ (p \in HasTimeout => r.peers[p].starts < MaxStarts)

(* The peer sends "init", the first message it may send.                   *)
PeerInits(p) ==
    /\ Running(p) /\ ~r.peers[p].inited
    /\ r' = OnOtherInit(r, p) /\ UNCHANGED client

(* The peer sends "init" with a problem, or anything before "init".        *)
PeerFailsInit(p) ==
    /\ MayEnd(p) /\ ~r.peers[p].inited
    /\ \/ /\ "failinit" \in Faults
          /\ r' = OnOtherClosed([r EXCEPT !.peers[p].failure = "failed"], p, "failed")
       \/ /\ "noinit" \in Faults
          /\ r' = OnOtherClosed(r, p, "protocol-error")
    /\ UNCHANGED client

(* The peer closes a channel that it has open.                             *)
PeerCloses(p, c) ==
    /\ Running(p) /\ c \in r.peers[p].theirs
    /\ r' = OnOtherClose(r, p, c) /\ UNCHANGED client

(* The process of the peer ends.                                           *)
PeerDies(p) ==
    /\ MayEnd(p) /\ "die" \in Faults
    /\ \E problem \in {"", "terminated"} : r' = OnOtherClosed(r, p, problem)
    /\ UNCHANGED client

(* on_timeout_reset(): only if there are no channels.                      *)
TimeoutReset(q) == q.channels = {}

PeerTimeout(p) ==
    /\ MayEnd(p) /\ r.peers[p].timeout
    /\ r' = IF TimeoutReset(r.peers[p])
            THEN LET s == OnOtherClosed(r, p, "terminated")
                 IN  SetPeer(s, p, Reset(s.peers[p]))
            ELSE [r EXCEPT !.peers[p].timeout = FALSE]
    /\ UNCHANGED client

Next ==
    \/ ClientInit \/ Kill
    \/ \E c \in Channels : ClientSends(c) \/ LocalCloses(c)
    \/ \E p \in P : PeerInits(p) \/ PeerFailsInit(p) \/ PeerDies(p) \/ PeerTimeout(p)
    \/ \E p \in P, c \in Channels : PeerCloses(p, c)

Spec == Init /\ [][Next]_vars

(* Weak fairness, with the guards written out for ENABLED: a peer that was *)
(* started sends "init" or ends, and channels in a fence close.            *)
Starting(p) == Running(p) /\ ~r.peers[p].inited
Fencing(c) == r.dead = "" /\ c \in r.fences
-----------------------------------------------------------------------------
Sent(c) == Len(client[c])
Open(c) == client[c] # <<>>
Numbers(c) == [i \in 1..Len(r.got[c]) |-> r.got[c][i].n]
HandedTo(c) == {r.got[c][i].owner : i \in 1..Len(r.got[c])}

(* The messages of a channel reach whoever handles it in the order in      *)
(* which they were sent, without a gap, and all of them reach the same     *)
(* one, through fences, frozen peers and rules that fail.                  *)
InOrder ==
    \A c \in Channels :
      /\ Numbers(c) = [i \in 1..Len(r.got[c]) |-> i]
      /\ Cardinality(HandedTo(c)) <= 1

(* No message is lost while its channel is open: what has not been handed  *)
(* on is frozen.                                                           *)
NothingLost ==
    \A c \in Channels : ~Told(c) /\ r.dead = "" =>
      Numbers(c) \o [i \in 1..Len(r.frozen[c]) |-> r.frozen[c][i].n] = [i \in 1..Sent(c) |-> i]

(* A channel is frozen only behind an open fence or because of a peer that *)
(* will thaw it when it sends "init" or ends (cockpit_peer_handle()).      *)
FrozenForAReason ==
    \A c \in r.freeze :
      \/ r.fences # {} /\ c \in ToSet(r.fenced)
      \/ \E p \in P : /\ r.peers[p].other /\ ~r.peers[p].inited
                      /\ c \in r.peers[p].channels /\ c \in ToSet(r.peers[p].frozen)

(* While a fence is open no channel outside of it is handed to anyone      *)
(* (process_open()), also when several fences are released one after the   *)
(* other.  (A step.)                                                       *)
FenceHolds ==
    \A c \in Channels :
      r.got[c] = <<>> /\ r'.got[c] # <<>> /\ r'.fences # {} =>
        \/ c \in r'.fences
        \/ \E i, j \in 1..Len(r.fenced) :
             i < j /\ r.fenced[i] = c /\ r.fenced[j] \in r'.fences

(* A channel that names another host is never handled by this bridge, and  *)
(* a peer only gets channels that its configuration matches.               *)
HostsRespected ==
    \A c \in Channels : \A o \in HandedTo(c) :
      LET options == NormalizeHostParams(NormalizeHost(Opts[c].options))
      IN  /\ o = "local" => "host" \notin DOMAIN options
          /\ o \in P => \A f \in DOMAIN Matches[o] :
                           f \in DOMAIN options /\ Matches[o][f] \in {Anything, options[f]}

(* The timer of a peer runs only while no channel uses it                  *)
(* (cockpit_peer_handle() and on_other_control()).                         *)
IdleTimer == \A p \in P : r.peers[p].timeout => r.peers[p].channels = {}

(* Every channel that was opened is handed on or closed, as long as peers  *)
(* start or fail and fences are closed: Open(c) ~> Settled(c).             *)
Settled(c) == r.got[c] # <<>> \/ Told(c) \/ r.dead # ""

=============================================================================
