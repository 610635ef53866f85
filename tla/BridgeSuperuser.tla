--------------------------- MODULE BridgeSuperuser --------------------------
(***************************************************************************)
(* The superuser bridge of the C bridge: cockpitrouter.c and cockpitpeer.c *)
(* (src/src/bridge).  A privileged peer is started by the "init" message   *)
(* or by the D-Bus method Start, may prompt while it starts, and is        *)
(* stopped by Stop, by its own end or because its rule is removed.         *)
(***************************************************************************)
EXTENDS Integers, Sequences, SequencesExt, FiniteSets

CONSTANTS
    Bridges,      \* the privileged bridges
    MaxCalls,     \* bound on the D-Bus calls
    MaxPrompts,   \* bound on the prompts of one start
    Privileged    \* whether the bridge itself may run as root

(* What an instance has to satisfy.                                       *)
BridgeSuperuserAssumption ==
    MaxCalls \in Nat /\ MaxPrompts \in Nat /\ Privileged \subseteq BOOLEAN

None == "none"

VARIABLES
    r,      \* the router
    peers,  \* the privileged peers
    calls   \* the D-Bus calls and their replies

vars == <<r, peers, calls>>

(* rule, transport, start, stop, initing, answer: superuser_rule,          *)
(* superuser_transport, superuser_start_invocation, ..._stop_invocation,   *)
(* superuser_init_in_progress, and the peer that superuser_answer_function *)
(* answers    rules: the rules there are    known: the value of "Current"  *)
(* last announced    initDone: "superuser-init-done" messages sent         *)
(* opens: what became of the last channel that asked for superuser         *)
(* peers: other (0, or the number of the transport), closing (its pipe is  *)
(* closed and its process is killed, but not reaped yet), inited, cookie,  *)
(* done (the startup_done_function); prompts, overlap and answered count   *)
(* the prompts of a start, those refused as overlapping, and the answers   *)
Peer == [other : Nat, closing : BOOLEAN, inited : BOOLEAN, cookie : BOOLEAN, done : {None, "start", "init"},
         prompts : 0..MaxPrompts, overlap : BOOLEAN, answered : 0..MaxPrompts]

TypeOK ==
    /\ r.rule \in Bridges \cup {None} /\ r.answer \in Bridges \cup {None}
    /\ r.transport \in 0..(MaxCalls + 2) /\ r.start \in 0..MaxCalls /\ r.stop \in 0..MaxCalls
    /\ r.initDone \in 0..1 /\ r.rules \subseteq Bridges
    /\ peers \in [Bridges -> Peer]
    /\ calls \in Seq([method : {"Start", "Stop", "Answer"}, replies : Seq({"ok", "error"}),
                     overtaken : BOOLEAN])

NewPeer == [other |-> 0, closing |-> FALSE, inited |-> FALSE, cookie |-> FALSE, done |-> None,
            prompts |-> 0, overlap |-> FALSE, answered |-> 0]

Init ==
    /\ \E privileged \in Privileged :
          r = [privileged |-> privileged, init |-> FALSE, rules |-> Bridges, rule |-> None,
               transport |-> 0, made |-> 0, start |-> 0, stop |-> 0, initing |-> FALSE,
               legacy |-> FALSE, answer |-> None, known |-> IF privileged THEN "root" ELSE None,
               initDone |-> 0, opens |-> {}]
    /\ peers = [b \in Bridges |-> NewPeer]
    /\ calls = <<>>

-----------------------------------------------------------------------------
(* A handler maps a state [r, peers, calls] to another.                    *)
Now == [r |-> r, peers |-> peers, calls |-> calls]
Become(s) == r' = s.r /\ peers' = s.peers /\ calls' = s.calls

(* superuser_get_property() with "Current"                                 *)
Current(q) ==
    IF q.privileged THEN "root" ELSE IF q.initing THEN "init"
    ELSE IF q.rule = None \/ q.start # 0 THEN None ELSE q.rule

(* superuser_notify_property()                                             *)
Notify(s) == [s EXCEPT !.r.known = Current(s.r)]

Reply(s, call, result) ==
    IF call = 0 THEN s ELSE [s EXCEPT !.calls[call].replies = Append(@, result)]

(* superuser_start_done()                                                  *)
StartDone(s, error) ==
    LET s1 == Reply(s, s.r.start, IF error THEN "error" ELSE "ok")
    IN  Notify([s1 EXCEPT !.r.rule = IF error THEN None ELSE @, !.r.answer = None, !.r.start = 0])

(* superuser_init_done(): unlike superuser_start_done() it leaves the      *)
(* answer function alone.                                                  *)
InitDone(s, error) ==
    Notify([s EXCEPT !.r.rule = IF error THEN None ELSE @, !.r.initing = FALSE,
                     !.r.initDone = IF s.r.legacy THEN @ ELSE @ + 1])

(* superuser_transport_closed()                                            *)
TransportClosed(s) ==
    Notify([Reply(s, s.r.stop, "ok") EXCEPT !.r.stop = 0, !.r.rule = None, !.r.transport = 0])

(* startup_done() of the peer                                              *)
StartupDone(s, b, error) ==
    LET s1 == CASE s.peers[b].done = "start" -> StartDone(s, error)
                [] s.peers[b].done = "init" -> InitDone(s, error)
                [] OTHER -> s
    IN  [s1 EXCEPT !.peers[b].done = None]

(* on_other_closed() of the peer                                           *)
OnOtherClosed(s, b) ==
    [StartupDone(s, b, TRUE) EXCEPT !.peers[b].other = 0, !.peers[b].closing = FALSE]

(* The transport of the peer emits "closed", once its process is reaped:   *)
(* on_other_closed(), then on_superuser_transport_closed() of the router.  *)
EmitClosed(s, b) ==
    LET s1 == OnOtherClosed(s, b)
    IN  IF s1.r.transport = s.peers[b].other THEN TransportClosed(s1) ELSE s1

(* cockpit_transport_close() with a problem, which kills the process       *)
TransportClose(s, b) == [s EXCEPT !.peers[b].closing = TRUE]

(* cockpit_peer_reset(): it does not wait, and nobody else hears of it.    *)
PeerReset(s, b) ==
    [(IF s.peers[b].other # 0 THEN OnOtherClosed(s, b) ELSE s) EXCEPT !.peers[b] = NewPeer]

(* cockpit_peer_ensure_with_done(): the program is started, or cannot be.  *)
Ensure(s, b, done, spawned) ==
    IF spawned
    THEN [s EXCEPT !.r.made = @ + 1, !.r.transport = s.r.made + 1,
                   !.peers[b].other = s.r.made + 1, !.peers[b].done = done]
    ELSE [StartupDone([s EXCEPT !.peers[b].done = done], b, TRUE) EXCEPT !.r.transport = 0]

-----------------------------------------------------------------------------
(* superuser_init(), superuser_legacy_init() and superuser_init_start()    *)
ClientInit ==
    /\ ~r.init
    /\ \E legacy \in BOOLEAN, b \in r.rules \cup {None}, spawned \in BOOLEAN :
          /\ LET s == [Now EXCEPT !.r.init = TRUE, !.r.legacy = legacy, !.r.initing = TRUE,
                                  !.r.known = Current([r EXCEPT !.initing = TRUE])]
             IN  Become(IF r.privileged \/ b = None THEN InitDone(s, FALSE)
                        ELSE Ensure(PeerReset([s EXCEPT !.r.rule = b], b), b, "init", spawned))

NewCall(method) == /\ r.init /\ Len(calls) < MaxCalls
                   /\ \A i \in 1..Len(calls) : calls[i].method = "Answer" => calls[i].replies # <<>>
Called(method) == [Now EXCEPT !.calls = Append(@, [method |-> method, replies |-> <<>>, overtaken |-> FALSE])]
Id == Len(calls) + 1

(* superuser_method_call(): there is no superuser bridge yet.              *)
MayStart(q) == q.rule = None

(* superuser_method_call() with "Start"                                    *)
Start ==
    /\ NewCall("Start")
    /\ \E b \in Bridges, spawned \in BOOLEAN :
          LET s == Called("Start")
          IN  Become(IF ~MayStart(r) \/ b \notin r.rules THEN Reply(s, Id, "error")
                     ELSE Ensure(PeerReset([s EXCEPT !.r.start = Id, !.r.rule = b], b),
                                 b, "start", spawned))

(* superuser_method_call() with "Stop": an earlier one that waits for the  *)
(* process to end is forgotten.                                            *)
Overtake(s, call) == IF call = 0 THEN s ELSE [s EXCEPT !.calls[call].overtaken = TRUE]

Stop ==
    /\ NewCall("Stop")
    /\ LET s == Called("Stop")
       IN  Become(IF r.rule = None THEN Reply(s, Id, "error")
                  ELSE TransportClose([Overtake(s, r.stop) EXCEPT !.r.stop = Id], r.rule))

(* on_answer()                                                             *)
OnAnswer(s, b) ==
    IF ~s.peers[b].cookie THEN s
    ELSE [s EXCEPT !.peers[b].cookie = FALSE, !.peers[b].answered = @ + 1]

(* superuser_answer_function is called once.                               *)
GiveAnswer(s) ==
    IF s.r.answer = None THEN s ELSE [OnAnswer(s, s.r.answer) EXCEPT !.r.answer = None]

(* superuser_method_call() with "Answer"                                   *)
Answer ==
    /\ NewCall("Answer")
    /\ LET s == Called("Answer")
       IN  Become(IF r.start = 0 THEN Reply(s, Id, "error") ELSE Reply(GiveAnswer(s), Id, "ok"))

(* on_transport_control() of the router with "authorize" of the client     *)
ClientAuthorizes == r.answer # None /\ Become(GiveAnswer(Now))

-----------------------------------------------------------------------------
(* cockpit_router_prompt()                                                 *)
Prompt(s, b) ==
    IF s.r.answer # None THEN OnAnswer([s EXCEPT !.peers[b].overlap = TRUE], b)
    ELSE IF s.r.start # 0 \/ s.r.initing THEN [s EXCEPT !.r.answer = b]
    ELSE OnAnswer(s, b)

(* on_other_control() of a privileged peer with "authorize"                *)
PeerPrompts(b) ==
    /\ peers[b].other # 0 /\ ~peers[b].closing /\ peers[b].prompts < MaxPrompts
    /\ LET s == [Now EXCEPT !.peers[b].prompts = @ + 1]
       IN  Become(IF peers[b].cookie THEN s ELSE Prompt([s EXCEPT !.peers[b].cookie = TRUE], b))

(* on_other_control() with "init": good, or with a problem, after which    *)
(* the peer says no more; or with a message that must not come before it.  *)
PeerInits(b) ==
    /\ peers[b].other # 0 /\ ~peers[b].closing /\ ~peers[b].inited
    /\ \/ Become(StartupDone([Now EXCEPT !.peers[b].inited = TRUE], b, FALSE))
       \/ Become(TransportClose(StartupDone(Now, b, TRUE), b))
       \/ Become(TransportClose(Now, b))

(* The program of the peer ends, on its own or because it was killed, and  *)
(* is reaped.                                                              *)
PeerEnds(b) == peers[b].other # 0 /\ Become(EmitClosed(Now, b))

(* cockpit_router_set_bridges(): a rule is removed, and its peer with it;  *)
(* cockpit_router_prompt_cancel() when the peer is finalized.              *)
SetBridges(s, b) ==
    LET s1 == IF s.r.rule = b THEN TransportClosed(s) ELSE s
        s2 == PeerReset([s1 EXCEPT !.r.rules = @ \ {b}], b)
    IN  [s2 EXCEPT !.r.answer = IF @ = b THEN None ELSE @]

RemoveRule(b) == r.init /\ b \in r.rules /\ Become(SetBridges(Now, b))

(* process_open_superuser(): who handles a channel with this option.       *)
OpenSuperuser(q, option) ==
    IF q.privileged \/ (option = "try" /\ q.rule = None) THEN "rules"
    ELSE IF q.rule = None THEN "access-denied" ELSE q.rule

OpenChannel ==
    /\ r.init
    /\ \E option \in {"require", "try"} :
          Become([Now EXCEPT !.r.opens =
                    {[option |-> option, to |-> OpenSuperuser(r, option),
                      gained |-> r.privileged \/ (r.rule # None /\ peers[r.rule].other # 0)]}])

Next ==
    \/ ClientInit \/ Start \/ Stop \/ Answer \/ ClientAuthorizes \/ OpenChannel
    \/ \E b \in Bridges : PeerPrompts(b) \/ PeerInits(b) \/ PeerEnds(b) \/ RemoveRule(b)

Spec == Init /\ [][Next]_vars

-----------------------------------------------------------------------------
(* The router's idea of the superuser bridge and the peer agree: there is  *)
(* a rule exactly while its peer has the transport that the router waits   *)
(* for, through starts that fail, stops that wait, a start while the peer  *)
(* of an earlier one is still dying, and rules that are removed; any other *)
(* peer is on its way out.                                                 *)
RuleHasPeer ==
    /\ r.rule # None => peers[r.rule].other # 0 /\ peers[r.rule].other = r.transport
    /\ r.rule = None => r.start = 0 /\ r.stop = 0
    /\ \A b \in Bridges : peers[b].other # 0 /\ r.rule # b => peers[b].closing
    /\ r.stop # 0 => peers[r.rule].closing

(* Pages reload when "Current" changes: every change is announced          *)
(* (superuser_notify_property()).                                          *)
CurrentAnnounced == r.init => r.known = Current(r)

(* "Current" does not name a bridge until its start has succeeded.         *)
CurrentOnlyWhenUp ==
    Current(r) \in Bridges => peers[Current(r)].inited /\ peers[Current(r)].other # 0

(* No call gets two replies, and each has one but a Start that is under    *)
(* way and a Stop that waits; a Stop that was overtaken by another while   *)
(* it waited never gets any.                                               *)
RepliedOnce ==
    \A i \in 1..Len(calls) :
      Len(calls[i].replies) = IF i \in {r.start, r.stop} \/ calls[i].overtaken THEN 0 ELSE 1

(* A prompt is answered at most once, also if Answer, an "authorize"       *)
(* message and an end of the bridge race.                                  *)
AnsweredOnce ==
    \A b \in Bridges : peers[b].answered <= peers[b].prompts

(* A channel that requires superuser is only handled with it, and one that *)
(* gets it is given to a bridge that is there.                             *)
SuperuserRespected ==
    \A o \in r.opens :
      /\ o.option = "require" => o.to # "rules" \/ o.gained
      /\ o.to \in Bridges => o.gained

(* A Start is replied to once its bridge is up or has ended:               *)
(* StartWaits ~> ~StartWaits.                                              *)
StartWaits == r.start # 0

(* So is the last Stop once its bridge, which is killed, has ended:        *)
(* StopWaits ~> ~StopWaits.                                                *)
StopWaits == r.stop # 0

=============================================================================
