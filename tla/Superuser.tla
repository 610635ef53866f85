----------------------------- MODULE Superuser ------------------------------
(***************************************************************************)
(* The superuser bridge of the Python bridge (cockpit/superuser.py with    *)
(* the start of a peer in peer.py, the prompts of polkit.py and the        *)
(* authorize requests of protocol.py).                                     *)
(*                                                                         *)
(* asyncio is modelled by its turns.  Between turns the loop polls: its    *)
(* selector calls the D-Bus methods, and returns the file descriptors that *)
(* are readable; what the latter do, and every task that can go on, is a   *)
(* callback at the end of `ready', and a turn runs the callbacks that are  *)
(* there when it begins.                                                   *)
(***************************************************************************)
EXTENDS Naturals, Sequences, SequencesExt, FiniteSets, TLAPS

CONSTANTS
    MaxGo,      \* calls of go(), each of which may make a peer
    MaxAsks,    \* questions that the started processes ask
    MaxAnswers, \* answers of the client
    MaxStops,   \* calls of stop()
    AtStartup,  \* is the first go() the one of init(), with the AuthorizeResponder
    Polkit      \* do the questions come through the polkit agent

(* What an instance has to satisfy.                                       *)
SuperuserAssumption ==
    /\ MaxGo \in Nat \ {0} /\ MaxAsks \in Nat /\ MaxAnswers \in Nat /\ MaxStops \in Nat
    /\ AtStartup \in BOOLEAN /\ Polkit \in BOOLEAN

Calls == 1..MaxGo
Asks == 1..MaxAsks
Ended == {"ok", "busy", "cancelled", "failed", "raised"}

VARIABLE s  \* a record with the fields
    \* current, peer    of the rule; a peer has the number of the go() that made it
    \* ready, turn      the callbacks, and how many are left in this turn
    \* read     the selector has returned, so no D-Bus method is called before the turn
    \* go       where each go() is: "start" in the await of init_future, "exit" in that of
    \*          connect_task; or how it ended, "raised" with an exception nobody meant
    \* fut      init_future of each peer; closed: its _closed
    \* conn     its connect_task; proc: the process; hello: has it sent its "init"
    \* prompt   pending_prompt, the number of the question or 0
    \* ask      the task of each question; of: the peer it is for
    \* doubts   how often do_authorize() raised InvalidStateError
    \* told     how often "superuser-init-done" was sent
    \* answers, stops   how many there were

vars == s

Init ==
    s = [current |-> "none", peer |-> 0, turn |-> 0, read |-> FALSE,
         ready |-> IF AtStartup THEN <<[do |-> "go", n |-> 1]>> ELSE <<>>,
         go |-> [i \in Calls |-> IF AtStartup /\ i = 1 THEN "new" ELSE "unused"],
         fut |-> [i \in Calls |-> "none"], closed |-> [i \in Calls |-> FALSE],
         conn |-> [i \in Calls |-> "none"], proc |-> [i \in Calls |-> "none"],
         hello |-> [i \in Calls |-> FALSE],
         prompt |-> 0, ask |-> [k \in Asks |-> "none"], of |-> [k \in Asks |-> 0],
         doubts |-> 0, told |-> 0, answers |-> 0, stops |-> 0]

Soon(r, do, n) == [r EXCEPT !.ready = Append(@, [do |-> do, n |-> n])]
Mine(i) == AtStartup /\ i = 1
AuthorizeAsks(r) == {k \in Asks : r.of[k] # 0 /\ Mine(r.of[k])}

\* peer_done
PeerDone(r) == [r EXCEPT !.current = "none", !.peer = 0]

\* close() of the peer with its do_closed(): init_future is set unless it is done, and the
\* rule's callback called.
Close(r, i, how) ==
    IF r.closed[i] THEN r
    ELSE LET told == IF r.fut[i] = "pending" THEN Soon([r EXCEPT !.fut[i] = how], "start", i) ELSE r
         IN  PeerDone([told EXCEPT !.closed[i] = TRUE])

\* The end of a go(); that of init() has _init_done() as its callback.
Return(r, i, how) ==
    LET e == [r EXCEPT !.go[i] = how]
    IN  IF Mine(i) THEN Soon(e, "initdone", i) ELSE e

\* Future.cancel() of a question that waits: its task will go on.
CancelAsk(r, k) ==
    IF r.ask[k] = "waiting" THEN Soon([r EXCEPT !.ask[k] = "cancelled"], "asked", k) ELSE r

\* The questions that end with connect_task: the interaction agent's, not the polkit agent's.
CancelAgent(r, i) ==
    LET ks == {k \in Asks : r.of[k] = i /\ r.ask[k] = "waiting"}
    IN  IF Polkit \/ ks = {} THEN r ELSE CancelAsk(r, CHOOSE k \in ks : TRUE)

\* connect_task.cancel() at the end of start()
CancelConnect(r, i) ==
    IF r.conn[i] \in {"new", "running"} THEN CancelAgent([r EXCEPT !.conn[i] = "cancelled"], i) ELSE r

-----------------------------------------------------------------------------
\* The callbacks, each from its wake-up to its next await.

\* go() up to the await of init_future in start()
GoBegins(r, i) ==
    IF r.current # "none" THEN Return(r, i, "busy")
    ELSE Soon([r EXCEPT !.current = "init", !.peer = i, !.go[i] = "start", !.fut[i] = "pending",
                        !.conn[i] = "new"], "connect", i)

\* do_connect_transport() up to the await of communicate(): a process, or an OSError.
Connect(r, i) ==
    IF r.conn[i] # "new" THEN {r}
    ELSE {[r EXCEPT !.conn[i] = "running", !.proc[i] = "running"],
          Soon([r EXCEPT !.conn[i] = "failed"], "connected", i)}

\* _connect_task_done
Connected(r, i) == IF r.conn[i] = "failed" THEN Close(r, i, "exc") ELSE r

\* The end of communicate(), with which a start() that awaits connect_task goes on, too.
AgentEnds(r, i, how) ==
    IF r.conn[i] # "running" THEN r
    ELSE LET e == Soon(CancelAgent([r EXCEPT !.conn[i] = how], i), "connected", i)
         IN  IF r.go[i] = "exit" THEN Soon(e, "start", i) ELSE e

\* start() and go() after init_future, or after connect_task: an AttributeError when the peer
\* is gone.
GoResumes(r, i) ==
    LET c == CancelConnect(r, i)
    IN  CASE r.go[i] = "exit" -> Return(r, i, "failed")
          [] r.go[i] = "start" /\ r.fut[i] = "exited" ->
                 IF r.conn[i] \in {"new", "running"} THEN [r EXCEPT !.go[i] = "exit"]
                 ELSE Return(r, i, "failed")
          [] r.go[i] = "start" /\ r.fut[i] = "cancelled" -> Return(c, i, "cancelled")
          [] r.go[i] = "start" /\ r.fut[i] = "exc" -> Return(c, i, "failed")
          [] r.go[i] = "start" /\ r.fut[i] = "init" ->
                 IF r.peer = 0 THEN Return(c, i, "raised")
                 ELSE Return([c EXCEPT !.current = "up"], i, "ok")

\* transport_control_received of the peer: its "init".
PeerInit(r, i) ==
    IF r.closed[i] \/ r.fut[i] # "pending" THEN r ELSE Soon([r EXCEPT !.fut[i] = "init"], "start", i)

\* process_exited
ProcessExited(r, i) == Close(r, i, "exited")

\* do_askpass() of the rule, with its assertion, or of the AuthorizeResponder.
Askpass(r, k) ==
    CASE Mine(r.of[k]) -> [r EXCEPT !.ask[k] = "waiting"]
      [] ~Mine(r.of[k]) /\ r.prompt # 0 -> [r EXCEPT !.ask[k] = "raised"]
      [] OTHER -> [r EXCEPT !.ask[k] = "waiting", !.prompt = k]

\* The rest of do_askpass() or of request_authorization_object().
Asked(r, k) ==
    LET e == [r EXCEPT !.ask[k] = "over"]
    IN  IF Mine(r.of[k]) THEN e ELSE [e EXCEPT !.prompt = 0]

\* do_authorize of the router.
DoAuthorize(r, k) ==
    CASE r.ask[k] = "waiting" -> Soon([r EXCEPT !.ask[k] = "answered"], "asked", k)
      [] r.ask[k] \in {"answered", "cancelled"} -> [r EXCEPT !.doubts = @ + 1]
      [] OTHER -> r

\* _init_done
InitDone(r, i) == [r EXCEPT !.told = @ + 1]

Callback(r, c) ==
    CASE c.do = "go" -> {GoBegins(r, c.n)}
      [] c.do = "connect" -> Connect(r, c.n)
      [] c.do = "connected" -> {Connected(r, c.n)}
      [] c.do = "start" -> {GoResumes(r, c.n)}
      [] c.do = "init" -> {PeerInit(r, c.n)}
      [] c.do = "exit" -> {ProcessExited(r, c.n)}
      [] c.do = "eof" -> {AgentEnds(r, c.n, how) : how \in {"over", "failed"}}
      [] c.do = "ask" -> {Askpass(r, c.n)}
      [] c.do = "asked" -> {Asked(r, c.n)}
      [] c.do = "authorize" -> {DoAuthorize(r, c.n)}
      [] c.do = "initdone" -> {InitDone(r, c.n)}

\* The event loop: it polls, then runs what was ready.
Poll == s.turn = 0 /\ s.ready # <<>> /\ s' = [s EXCEPT !.turn = Len(s.ready), !.read = FALSE]
Run ==
    /\ s.turn > 0
    /\ s' \in Callback([s EXCEPT !.turn = @ - 1, !.ready = Tail(@)], Head(s.ready))

-----------------------------------------------------------------------------
\* The D-Bus methods, while the loop polls.

Selecting == s.turn = 0 /\ ~s.read

Start ==
    /\ Selecting
    /\ \E i \in Calls :
          /\ s.go[i] = "unused" /\ \A j \in 1..i - 1 : s.go[j] # "unused"
          /\ s' = Soon([s EXCEPT !.go[i] = "new"], "go", i)

\* A mutant of CancelPrompt: the question is forgotten, not cancelled.
CancelPromptForgets(r) == [r EXCEPT !.prompt = 0]

\* cancel_prompt
CancelPrompt(r) == IF r.prompt = 0 THEN r ELSE [CancelAsk(r, r.prompt) EXCEPT !.prompt = 0]

\* stop() and shutdown()
Shutdown(r) ==
    LET c == CancelPrompt(r) IN IF c.peer = 0 THEN c ELSE Close(c, c.peer, "cancelled")
Stop ==
    /\ Selecting /\ s.stops < MaxStops
    /\ s' = Shutdown([s EXCEPT !.stops = @ + 1])

\* set_configs() without the configuration of the current peer.
SetConfigs ==
    /\ Selecting /\ s.peer # 0 /\ s.stops < MaxStops
    /\ s' = Shutdown([s EXCEPT !.stops = @ + 1])

\* answer(); an answer to a prompt that has been answered or cancelled raises InvalidStateError,
\* which is the caller's.
Answer ==
    /\ Selecting /\ s.answers < MaxAnswers
    /\ LET r == [s EXCEPT !.answers = @ + 1]
           k == s.prompt
       IN  s' = IF k # 0 /\ s.ask[k] = "waiting" THEN Soon([r EXCEPT !.ask[k] = "answered"], "asked", k) ELSE r

-----------------------------------------------------------------------------
\* The file descriptors that become readable, and what is behind them.

Readable(r, do, n) == Soon([r EXCEPT !.read = TRUE], do, n)
Queued(do, n) == Contains(s.ready, [do |-> do, n |-> n])

ProcessSpeaks(i) ==
    /\ s.turn = 0 /\ s.proc[i] = "running" /\ ~s.hello[i] /\ ~s.closed[i]
    /\ s' = Readable([s EXCEPT !.hello[i] = TRUE], "init", i)
ProcessEnds(i) ==
    /\ s.turn = 0 /\ s.proc[i] = "running"
    /\ s' = Readable([s EXCEPT !.proc[i] = "exited"], "exit", i)
StderrEnds(i) ==
    /\ s.turn = 0 /\ s.conn[i] = "running" /\ (s.hello[i] \/ s.proc[i] = "exited") /\ ~Queued("eof", i)
    /\ s' = Readable(s, "eof", i)
ProcessAsks(i) ==
    /\ s.turn = 0 /\ s.proc[i] = "running" /\ s.conn[i] = "running" /\ ~s.hello[i]
    /\ \A k \in Asks : s.of[k] = i => s.ask[k] \in {"over", "raised"}
    /\ \E k \in Asks :
          /\ s.of[k] = 0 /\ \A j \in 1..k - 1 : s.of[j] # 0
          /\ s' = Readable([s EXCEPT !.of[k] = i, !.ask[k] = "new"], "ask", k)
ClientAuthorizes(k) ==
    /\ s.turn = 0 /\ k \in AuthorizeAsks(s) /\ s.ask[k] # "new" /\ s.answers < MaxAnswers
    /\ s' = Readable([s EXCEPT !.answers = @ + 1], "authorize", k)

Next ==
    \/ Poll \/ Run \/ Start \/ Stop \/ SetConfigs \/ Answer
    \/ \E i \in Calls : ProcessSpeaks(i) \/ ProcessEnds(i) \/ StderrEnds(i) \/ ProcessAsks(i)
    \/ \E k \in Asks : ClientAuthorizes(k)

Spec == Init /\ [][Next]_vars

(***************************************************************************)
(* Properties.                                                             *)
(***************************************************************************)
\* The rule knows the one peer that is not closed, and its state says that there is one: a
\* go() that waits, fails or is overtaken never leaves a second bridge behind.
OnePeer ==
    /\ \A i \in Calls : s.fut[i] # "none" /\ ~s.closed[i] <=> s.peer = i
    /\ s.current = "none" <=> s.peer = 0

\* "current" names a bridge only after that bridge has sent its "init".
CurrentHonest == s.current = "up" => s.fut[s.peer] = "init"

\* A question that waits for the client is the pending prompt, so Answer reaches it, and the
\* pending prompt belongs to a task that will clear it.
PromptKept ==
    /\ \A k \in Asks \ AuthorizeAsks(s) : s.ask[k] = "waiting" => s.prompt = k
    /\ s.prompt # 0 => s.ask[s.prompt] \in {"waiting", "answered", "cancelled"}

\* A go() whose peer has been closed ends: PeerClosed(i) ~> GoEnded(i).
PeerClosed(i) == s.closed[i]
GoEnded(i) == s.go[i] \in Ended

\* The client that asked for a superuser bridge at start-up hears how that
\* ended: GoEnded(1) ~> InitTold.
InitTold == AtStartup => s.told = 1

\* What the runs check: the privileged peer is one and known, what is said of it is true, a
\* prompt goes with its question, and a client that asked at start-up is told once.
SuperuserSafe == OnePeer /\ CurrentHonest /\ PromptKept /\ s.told <= 1

(***************************************************************************)
(* The invariant that these follow from, of a state r.                     *)
(***************************************************************************)
Reads == {"init", "exit", "eof", "ask", "authorize"}   \* what file descriptors cause
Once == {"go", "start", "ask", "asked", "initdone"}    \* what is never due twice
Kinds == Reads \cup Once \cup {"connect", "connected"}

State ==
    [current : {"none", "init", "up"}, peer : Calls \cup {0}, turn : Nat, read : BOOLEAN,
     ready : Seq([do : Kinds, n : Nat]),
     go : [Calls -> {"unused", "new", "start", "exit"} \cup Ended],
     fut : [Calls -> {"none", "pending", "init", "exited", "cancelled", "exc"}],
     closed : [Calls -> BOOLEAN],
     conn : [Calls -> {"none", "new", "running", "cancelled", "failed", "over"}],
     proc : [Calls -> {"none", "running", "exited"}], hello : [Calls -> BOOLEAN],
     prompt : Asks \cup {0},
     ask : [Asks -> {"none", "new", "waiting", "answered", "cancelled", "over", "raised"}],
     of : [Asks -> Calls \cup {0}], doubts : Nat, told : Nat, answers : Nat, stops : Nat]

Due(r) == 1..Len(r.ready)

\* The go() that will make its peer the current one.
Succeeds(r, i) == r.go[i] = "start" /\ r.fut[i] = "init"

\* A callback e that is due finds what it was made for.
ItemOK(r, e) ==
    /\ e.n \in IF e.do \in {"ask", "asked", "authorize"} THEN Asks ELSE Calls
    /\ e.do = "go" => r.go[e.n] = "new"
    /\ e.do \in {"connect", "connected", "init", "exit", "eof"} => r.fut[e.n] # "none"
    /\ e.do = "start" =>
         /\ r.go[e.n] = "start" => r.fut[e.n] \notin {"none", "pending"}
         /\ r.go[e.n] \in {"start", "exit"}
         /\ r.go[e.n] = "exit" => r.conn[e.n] \notin {"new", "running"}
         /\ Succeeds(r, e.n) => r.peer \in {0, e.n}
    /\ e.do = "ask" => r.ask[e.n] = "new"
    /\ e.do = "asked" => /\ r.ask[e.n] \in {"answered", "cancelled"}
                         /\ ~Mine(r.of[e.n]) => r.prompt \in {0, e.n}
    /\ e.do = "initdone" => Mine(e.n) /\ r.go[e.n] \in Ended /\ r.told = 0

\* The callbacks e and f may be due in this order.
PairOK(r, e, f) ==
    /\ e.do \in Once => e # f
    /\ f.do = "go" => e.do \notin Reads
    /\ f.do = "asked" /\ ~Mine(r.of[f.n]) /\ e.do = "ask" => r.prompt = f.n
    /\ f.do = "start" /\ Succeeds(r, f.n) => e.do # "go"

ReadyOK(r) ==
    /\ r.turn <= Len(r.ready) /\ (r.read => r.turn = 0)
    /\ \A p \in Due(r) : ItemOK(r, r.ready[p]) /\ (r.ready[p].do \in Reads => p <= r.turn \/ r.read)
    /\ \A p, q \in Due(r) : p < q => PairOK(r, r.ready[p], r.ready[q])

PeersOK(r) ==
    /\ \A i \in Calls :
         /\ r.fut[i] # "none" /\ ~r.closed[i] <=> r.peer = i
         /\ r.fut[i] = "none" => /\ r.go[i] \in {"unused", "new", "busy"} /\ ~r.closed[i]
                                 /\ r.conn[i] = "none" /\ r.proc[i] = "none"
         /\ r.fut[i] # "none" => r.go[i] \notin {"unused", "new", "busy"}
         /\ r.fut[i] = "pending" => r.go[i] = "start"
         /\ r.go[i] = "exit" => r.fut[i] = "exited"
    /\ r.current = "none" <=> r.peer = 0
    /\ r.current = "up" => r.fut[r.peer] = "init"

PromptOK(r) ==
    /\ \A k \in Asks : /\ r.of[k] = 0 <=> r.ask[k] = "none"
                       /\ r.ask[k] = "waiting" /\ ~Mine(r.of[k]) => r.prompt = k
    /\ r.prompt # 0 => /\ ~Mine(r.of[r.prompt])
                       /\ r.ask[r.prompt] \in {"waiting", "answered", "cancelled"}

ToldOK(r) ==
    /\ r.told <= 1
    /\ r.told = 1 => AtStartup /\ r.go[1] \in Ended

Good(r) == r \in State /\ ReadyOK(r) /\ PeersOK(r) /\ PromptOK(r) /\ ToldOK(r)

-----------------------------------------------------------------------------
Item == [do : Kinds, n : Nat]

\* What is due is a sequence of callbacks.
LEMMA ReadyType ==
    ASSUME NEW r \in State
    PROVE  /\ r.ready \in Seq(Item) /\ Len(r.ready) \in Nat
           /\ \A p \in Due(r) : r.ready[p] \in Item
<1>1. r.ready \in Seq(Item)
  BY DEF State, Item
<1> QED
  BY <1>1 DEF Due

\* A callback is put at the end of those that are due.
LEMMA SoonFields ==
    ASSUME NEW r \in State, NEW do \in Kinds, NEW n \in Nat
    PROVE  LET x == Soon(r, do, n) IN
           /\ x \in State
           /\ x.current = r.current /\ x.peer = r.peer /\ x.turn = r.turn /\ x.read = r.read
           /\ x.go = r.go /\ x.fut = r.fut /\ x.closed = r.closed /\ x.conn = r.conn
           /\ x.proc = r.proc /\ x.hello = r.hello /\ x.prompt = r.prompt /\ x.ask = r.ask
           /\ x.of = r.of /\ x.told = r.told
           /\ Len(x.ready) = Len(r.ready) + 1
           /\ x.ready[Len(r.ready) + 1] = [do |-> do, n |-> n]
           /\ \A p \in Due(r) : x.ready[p] = r.ready[p]
<1> DEFINE e == [do |-> do, n |-> n]
           w == Append(r.ready, e)
           x == [r EXCEPT !.ready = w]
<1>1. e \in Item /\ r.ready \in Seq(Item)
  BY DEF State, Item
<1>2. /\ w \in Seq(Item) /\ Len(w) = Len(r.ready) + 1 /\ w[Len(r.ready) + 1] = e
      /\ \A p \in Due(r) : w[p] = r.ready[p]
  BY <1>1 DEF Due
<1> HIDE DEF w, e
<1>3. x \in State
  BY <1>2 DEF State, Item
<1>4. /\ x.current = r.current /\ x.peer = r.peer /\ x.turn = r.turn /\ x.read = r.read
      /\ x.go = r.go /\ x.fut = r.fut /\ x.closed = r.closed /\ x.conn = r.conn
      /\ x.proc = r.proc /\ x.hello = r.hello /\ x.prompt = r.prompt /\ x.ask = r.ask
      /\ x.of = r.of /\ x.told = r.told /\ x.ready = w
  BY DEF State
<1>5. Soon(r, do, n) = x
  BY DEF Soon, w, e
<1> HIDE DEF x
<1> QED
  BY <1>2, <1>3, <1>4, <1>5 DEF e

\* A callback may be added when it finds what it is for and agrees with those before it.
LEMMA SoonGood ==
    ASSUME NEW r, Good(r), NEW do \in Kinds, NEW n \in Nat,
           ItemOK(r, [do |-> do, n |-> n]), do \in Reads => r.read,
           \A p \in Due(r) : PairOK(r, r.ready[p], [do |-> do, n |-> n])
    PROVE  Good(Soon(r, do, n))
<1> DEFINE e == [do |-> do, n |-> n]
           x == Soon(r, do, n)
<1>1. r \in State /\ Len(r.ready) \in Nat
  BY ReadyType DEF Good
<1>2. /\ x \in State
      /\ x.current = r.current /\ x.peer = r.peer /\ x.turn = r.turn /\ x.read = r.read
      /\ x.go = r.go /\ x.fut = r.fut /\ x.closed = r.closed /\ x.conn = r.conn
      /\ x.proc = r.proc /\ x.hello = r.hello /\ x.prompt = r.prompt /\ x.ask = r.ask
      /\ x.of = r.of /\ x.told = r.told
      /\ Len(x.ready) = Len(r.ready) + 1
      /\ x.ready[Len(r.ready) + 1] = e
      /\ \A p \in Due(r) : x.ready[p] = r.ready[p]
  BY <1>1, SoonFields
<1> HIDE DEF x
<1>3. \A f : (ItemOK(r, f) => ItemOK(x, f)) /\ \A g : PairOK(r, f, g) => PairOK(x, f, g)
  BY <1>2 DEF ItemOK, PairOK, Succeeds
<1>4. \A p \in Due(x) : p = Len(r.ready) + 1 \/ p \in Due(r)
  BY <1>1, <1>2 DEF Due
<1>5. e.do = do
  OBVIOUS
<1> HIDE DEF e
<1>6. ReadyOK(x)
  <2>1. x.turn <= Len(x.ready) /\ (x.read => x.turn = 0)
    BY <1>1, <1>2 DEF Good, ReadyOK, State
  <2>2. ASSUME NEW p \in Due(x)
        PROVE  ItemOK(x, x.ready[p]) /\ (x.ready[p].do \in Reads => p <= x.turn \/ x.read)
    <3>1. CASE p \in Due(r)
      <4>1. ItemOK(r, r.ready[p]) /\ (r.ready[p].do \in Reads => p <= r.turn \/ r.read)
        BY <3>1 DEF Good, ReadyOK
      <4> QED
        BY <1>2, <1>3, <3>1, <4>1
    <3>2. CASE p = Len(r.ready) + 1
      <4>1. ItemOK(x, x.ready[p])
        BY <1>2, <1>3, <3>2 DEF e
      <4> QED
        BY <1>2, <1>5, <3>2, <4>1
    <3> QED
      BY <1>4, <3>1, <3>2
  <2>3. ASSUME NEW p \in Due(x), NEW q \in Due(x), p < q
        PROVE  PairOK(x, x.ready[p], x.ready[q])
    <3>1. CASE q \in Due(r)
      <4>1. p \in Due(r)
        BY <1>1, <2>3, <3>1 DEF Due
      <4>2. PairOK(r, r.ready[p], r.ready[q])
        BY <2>3, <3>1, <4>1 DEF Good, ReadyOK
      <4> QED
        BY <1>2, <1>3, <3>1, <4>1, <4>2
    <3>2. CASE q = Len(r.ready) + 1
      <4>1. p \in Due(r)
        BY <1>1, <1>4, <2>3, <3>2 DEF Due
      <4>2. PairOK(r, r.ready[p], e)
        BY <4>1 DEF e
      <4> QED
        BY <1>2, <1>3, <3>2, <4>1, <4>2
    <3> QED
      BY <1>4, <3>1, <3>2
  <2> QED
    BY <2>1, <2>2, <2>3 DEF ReadyOK
<1>7. PeersOK(x) /\ PromptOK(x) /\ ToldOK(x)
  BY <1>2 DEF Good, PeersOK, PromptOK, ToldOK
<1> QED
  BY <1>2, <1>6, <1>7 DEF Good, x

\* A change of state that leaves the callbacks alone.
LEMMA SameReady ==
    ASSUME NEW r, NEW x, Good(r), x.ready = r.ready, x.turn = r.turn, x.read = r.read,
           \A p \in Due(r) : ItemOK(r, r.ready[p]) => ItemOK(x, r.ready[p]),
           \A p, q \in Due(r) : p < q /\ PairOK(r, r.ready[p], r.ready[q])
                                  => PairOK(x, r.ready[p], r.ready[q])
    PROVE  ReadyOK(x)
BY DEF Good, ReadyOK, Due

\* Nothing of the kind is due.
Absent(r, do, n) == \A p \in Due(r) : r.ready[p] # [do |-> do, n |-> n]

\* The future of a peer is set, which resumes its go().
LEMMA SettlesGood ==
    ASSUME NEW r, Good(r), NEW i \in Calls, r.fut[i] = "pending",
           NEW how \in {"init", "exited", "cancelled", "exc"},
           how = "init" => r.peer = i /\ \A p \in Due(r) : r.ready[p].do # "go"
    PROVE  Good(Soon([r EXCEPT !.fut[i] = how], "start", i))
<1> DEFINE x == [r EXCEPT !.fut[i] = how]
<1>1. r \in State /\ i \in Nat /\ "start" \in Kinds
  BY DEF Good, Calls, Kinds, Once
<1>2. /\ x \in State /\ x.ready = r.ready /\ x.turn = r.turn /\ x.read = r.read
      /\ x.current = r.current /\ x.peer = r.peer /\ x.go = r.go /\ x.closed = r.closed
      /\ x.conn = r.conn /\ x.proc = r.proc /\ x.prompt = r.prompt /\ x.ask = r.ask
      /\ x.of = r.of /\ x.told = r.told /\ x.fut[i] = how
      /\ \A j \in Calls \ {i} : x.fut[j] = r.fut[j]
  BY <1>1, ZenonT(60) DEF State
<1> HIDE DEF x
<1>3. r.go[i] = "start"
  BY DEF Good, PeersOK
<1>4. \A p \in Due(r) : r.ready[p].do = "start" => r.ready[p].n \in Calls \ {i}
  <2> SUFFICES ASSUME NEW p \in Due(r), r.ready[p].do = "start" PROVE r.ready[p].n \in Calls \ {i}
    OBVIOUS
  <2>1. ItemOK(r, r.ready[p])
    BY DEF Good, ReadyOK
  <2> QED
    BY <1>3, <2>1 DEF ItemOK
<1>5. ReadyOK(x)
  <2>1. ASSUME NEW p \in Due(r), ItemOK(r, r.ready[p]) PROVE ItemOK(x, r.ready[p])
    BY <1>2, <1>4, <2>1 DEF ItemOK, Succeeds
  <2>2. ASSUME NEW p \in Due(r), NEW q \in Due(r), PairOK(r, r.ready[p], r.ready[q])
        PROVE  PairOK(x, r.ready[p], r.ready[q])
    BY <1>2, <1>4, <2>2 DEF PairOK, Succeeds
  <2> QED
    BY <1>2, <2>1, <2>2, SameReady
<1>6. PeersOK(x)
  <2>1. ASSUME NEW j \in Calls
        PROVE  /\ x.fut[j] # "none" /\ ~x.closed[j] <=> x.peer = j
               /\ x.fut[j] = "none" => /\ x.go[j] \in {"unused", "new", "busy"} /\ ~x.closed[j]
                                       /\ x.conn[j] = "none" /\ x.proc[j] = "none"
               /\ x.fut[j] # "none" => x.go[j] \notin {"unused", "new", "busy"}
               /\ x.fut[j] = "pending" => x.go[j] = "start"
               /\ x.go[j] = "exit" => x.fut[j] = "exited"
    BY <1>2, <1>3 DEF Good, PeersOK
  <2>2. r.current = "up" => r.peer \in Calls \ {i}
    BY <1>1 DEF Good, PeersOK, State
  <2> QED
    BY <1>2, <2>1, <2>2 DEF Good, PeersOK
<1>7. PromptOK(x) /\ ToldOK(x)
  BY <1>2 DEF Good, PromptOK, ToldOK
<1>8. Good(x)
  BY <1>2, <1>5, <1>6, <1>7 DEF Good
<1> DEFINE e == [do |-> "start", n |-> i]
<1>9. ItemOK(x, e)
  BY <1>2, <1>3 DEF ItemOK, Succeeds
<1>10. ASSUME NEW p \in Due(x) PROVE PairOK(x, x.ready[p], e)
  <2>1. r.ready[p] # e /\ (how = "init" => r.ready[p].do # "go")
    BY <1>2, <1>4 DEF Due
  <2> QED
    BY <1>2, <2>1 DEF PairOK, Succeeds
<1>11. "start" \notin Reads
  BY DEF Reads
<1> QED
  BY <1>1, <1>8, <1>9, <1>10, <1>11, SoonGood DEF x


\* A peer is closed.
LEMMA CloseGood ==
    ASSUME NEW r, Good(r), NEW i \in Calls, r.fut[i] # "none",
           NEW how \in {"exited", "cancelled", "exc"}
    PROVE  Good(Close(r, i, how))
<1> SUFFICES ASSUME ~r.closed[i] PROVE Good(Close(r, i, how))
  BY DEF Close
<1> DEFINE t == IF r.fut[i] = "pending" THEN Soon([r EXCEPT !.fut[i] = how], "start", i) ELSE r
           x == [t EXCEPT !.closed[i] = TRUE, !.current = "none", !.peer = 0]
<1>1. r \in State /\ r.peer = i
  BY DEF Good, PeersOK
<1>2. Good(t)
  BY SettlesGood
<1>3. t.peer = i /\ t.fut[i] # "none"
  <2>1. CASE r.fut[i] = "pending"
    <3> DEFINE y == [r EXCEPT !.fut[i] = how]
    <3>1. y \in State /\ y.peer = i /\ y.fut[i] = how
      BY <1>1 DEF State
    <3> HIDE DEF y
    <3>2. i \in Nat /\ "start" \in Kinds
      BY DEF Calls, Kinds, Once
    <3>3. Soon(y, "start", i).peer = i /\ Soon(y, "start", i).fut[i] = how
      BY <3>1, <3>2, SoonFields
    <3> QED
      BY <2>1, <3>3 DEF y
  <2>2. CASE r.fut[i] # "pending"
    BY <1>1, <2>2
  <2> QED
    BY <2>1, <2>2
<1> HIDE DEF t
<1>4. t \in State
  BY <1>2 DEF Good
<1>5. Close(r, i, how) = x
  BY DEF Close, PeerDone, t
<1>6. /\ x \in State /\ x.ready = t.ready /\ x.turn = t.turn /\ x.read = t.read
      /\ x.current = "none" /\ x.peer = 0 /\ x.go = t.go /\ x.fut = t.fut
      /\ x.conn = t.conn /\ x.proc = t.proc /\ x.prompt = t.prompt /\ x.ask = t.ask
      /\ x.of = t.of /\ x.told = t.told /\ x.closed[i]
      /\ \A j \in Calls \ {i} : x.closed[j] = t.closed[j]
  BY <1>4, ZenonT(60) DEF State
<1> HIDE DEF x
<1>7. ReadyOK(x)
  <2>1. \A f : (ItemOK(t, f) => ItemOK(x, f)) /\ \A g : PairOK(t, f, g) => PairOK(x, f, g)
    BY <1>6 DEF ItemOK, PairOK, Succeeds
  <2> QED
    BY <1>2, <1>6, <2>1, SameReady
<1>8. PeersOK(x)
  <2>1. 0 \notin Calls
    BY DEF Calls
  <2> QED
    BY <1>2, <1>3, <1>6, <2>1 DEF Good, PeersOK
<1>9. PromptOK(x) /\ ToldOK(x)
  BY <1>2, <1>6 DEF Good, PromptOK, ToldOK
<1> QED
  BY <1>5, <1>6, <1>7, <1>8, <1>9 DEF Good

\* A go() ends.
LEMMA ReturnGood ==
    ASSUME SuperuserAssumption, NEW r, Good(r), NEW i \in Calls, NEW how \in Ended,
           r.go[i] \in {"new", "start", "exit"}, Absent(r, "go", i), Absent(r, "start", i),
           r.fut[i] # "pending", r.fut[i] = "none" <=> how = "busy"
    PROVE  Good(Return(r, i, how))
<1> DEFINE x == [r EXCEPT !.go[i] = how]
<1>1. r \in State
  BY DEF Good
<1>2. /\ x \in State /\ x.ready = r.ready /\ x.turn = r.turn /\ x.read = r.read
      /\ x.current = r.current /\ x.peer = r.peer /\ x.closed = r.closed /\ x.fut = r.fut
      /\ x.conn = r.conn /\ x.proc = r.proc /\ x.prompt = r.prompt /\ x.ask = r.ask
      /\ x.of = r.of /\ x.told = r.told /\ x.go[i] = how
      /\ \A j \in Calls \ {i} : x.go[j] = r.go[j]
  BY <1>1 DEF State
<1> HIDE DEF x
<1>3. how \notin {"unused", "new", "start", "exit"}
  BY DEF Ended
<1>4. ASSUME NEW p \in Due(r), r.ready[p].do \in {"go", "start", "initdone"}
      PROVE  r.ready[p].n \in Calls \ {i}
  <2>1. ItemOK(r, r.ready[p]) /\ r.ready[p] \in Item
    BY <1>1, ReadyType DEF Good, ReadyOK
  <2>2. r.ready[p].n \in Calls
    BY <1>4, <2>1 DEF ItemOK
  <2>3. CASE r.ready[p].do = "initdone"
    BY <2>1, <2>2, <2>3 DEF ItemOK, Ended
  <2>4. CASE r.ready[p].do \in {"go", "start"}
    <3>1. r.ready[p] = [do |-> r.ready[p].do, n |-> r.ready[p].n]
      BY <2>1 DEF Item
    <3> QED
      BY <2>2, <2>4, <3>1 DEF Absent
  <2> QED
    BY <1>4, <2>3, <2>4
<1>5. ReadyOK(x)
  <2>1. ASSUME NEW p \in Due(r), ItemOK(r, r.ready[p]) PROVE ItemOK(x, r.ready[p])
    BY <1>2, <1>4, <2>1 DEF ItemOK, Succeeds
  <2>2. ASSUME NEW p \in Due(r), NEW q \in Due(r), PairOK(r, r.ready[p], r.ready[q])
        PROVE  PairOK(x, r.ready[p], r.ready[q])
    BY <1>2, <1>4, <2>2 DEF PairOK, Succeeds
  <2> QED
    BY <1>2, <2>1, <2>2, SameReady
<1>6. PeersOK(x)
  BY <1>2, <1>3 DEF Good, PeersOK
<1>7. PromptOK(x)
  BY <1>2 DEF Good, PromptOK
<1>8. 1 \in Calls
  BY DEF SuperuserAssumption, Calls
<1>9. ToldOK(x)
  <2>1. r.told = 1 => r.go[1] \in Ended
    BY DEF Good, ToldOK
  <2>2. r.told = 1 => x.go[1] \in Ended
    BY <1>2, <1>8, <2>1
  <2> QED
    BY <1>2, <2>2 DEF Good, ToldOK
<1>10. Good(x)
  BY <1>2, <1>5, <1>6, <1>7, <1>9 DEF Good
<1>11. CASE Mine(i)
  <2> DEFINE e == [do |-> "initdone", n |-> i]
  <2>1. r.told = 0
    <3>1. r.go[1] \notin Ended
      BY <1>11 DEF Mine, Ended
    <3> QED
      BY <1>1, <3>1 DEF Good, ToldOK, State
  <2>2. ItemOK(x, e)
    BY <1>2, <1>11, <2>1 DEF ItemOK
  <2>3. ASSUME NEW p \in Due(x) PROVE PairOK(x, x.ready[p], e)
    <3>1. p \in Due(r)
      BY <1>2 DEF Due
    <3>2. r.ready[p] # e
      BY <1>4, <3>1
    <3> QED
      BY <1>2, <3>2 DEF PairOK
  <2>4. i \in Nat /\ "initdone" \in Kinds /\ "initdone" \notin Reads
    BY DEF Calls, Kinds, Once, Reads
  <2>5. Good(Soon(x, "initdone", i))
    BY <1>10, <2>2, <2>3, <2>4, SoonGood
  <2> QED
    BY <1>11, <2>5 DEF Return, x
<1>12. CASE ~Mine(i)
  BY <1>10, <1>12 DEF Return, x
<1> QED
  BY <1>11, <1>12

\* What answering or cancelling questions leaves alone.
AsksOnly(r, x) ==
    /\ x.current = r.current /\ x.peer = r.peer /\ x.turn = r.turn /\ x.read = r.read
    /\ x.go = r.go /\ x.fut = r.fut /\ x.closed = r.closed /\ x.conn = r.conn
    /\ x.proc = r.proc /\ x.prompt = r.prompt /\ x.of = r.of /\ x.told = r.told
    /\ \A p \in Due(x) : x.ready[p].do = "asked" \/ \E q \in Due(r) : x.ready[p] = r.ready[q]

\* A question that waits is answered, or cancelled.
LEMMA AnswerGood ==
    ASSUME NEW r, Good(r), NEW k \in Asks, r.ask[k] = "waiting",
           NEW how \in {"answered", "cancelled"}
    PROVE  LET x == Soon([r EXCEPT !.ask[k] = how], "asked", k)
           IN  Good(x) /\ AsksOnly(r, x) /\ x.ask = [r.ask EXCEPT ![k] = how]
<1> DEFINE y == [r EXCEPT !.ask[k] = how]
           x == Soon(y, "asked", k)
<1>1. r \in State /\ k \in Nat /\ "asked" \in Kinds /\ "asked" \notin Reads
  BY DEF Good, Asks, Kinds, Once, Reads
<1>2. /\ y \in State /\ y.ready = r.ready /\ y.turn = r.turn /\ y.read = r.read
      /\ y.current = r.current /\ y.peer = r.peer /\ y.go = r.go /\ y.closed = r.closed
      /\ y.conn = r.conn /\ y.proc = r.proc /\ y.prompt = r.prompt /\ y.fut = r.fut
      /\ y.of = r.of /\ y.told = r.told /\ y.ask[k] = how
      /\ \A j \in Asks \ {k} : y.ask[j] = r.ask[j]
      /\ y.ask = [r.ask EXCEPT ![k] = how]
  BY <1>1, ZenonT(60) DEF State
<1> HIDE DEF y
<1>3. \A p \in Due(r) : r.ready[p].do \in {"ask", "asked"} => r.ready[p].n \in Asks \ {k}
  <2> SUFFICES ASSUME NEW p \in Due(r), r.ready[p].do \in {"ask", "asked"}
               PROVE  r.ready[p].n \in Asks \ {k}
    OBVIOUS
  <2>1. ItemOK(r, r.ready[p])
    BY DEF Good, ReadyOK
  <2> QED
    BY <2>1 DEF ItemOK
<1>4. ReadyOK(y)
  <2>1. ASSUME NEW p \in Due(r), ItemOK(r, r.ready[p]) PROVE ItemOK(y, r.ready[p])
    BY <1>2, <1>3, <2>1 DEF ItemOK, Succeeds
  <2>2. ASSUME NEW p \in Due(r), NEW q \in Due(r), PairOK(r, r.ready[p], r.ready[q])
        PROVE  PairOK(y, r.ready[p], r.ready[q])
    BY <1>2, <2>2 DEF PairOK, Succeeds
  <2> QED
    BY <1>2, <2>1, <2>2, SameReady
<1>5. PeersOK(y) /\ ToldOK(y)
  BY <1>2 DEF Good, PeersOK, ToldOK
<1>6. PromptOK(y)
  <2>1. ASSUME NEW j \in Asks
        PROVE  /\ y.of[j] = 0 <=> y.ask[j] = "none"
               /\ y.ask[j] = "waiting" /\ ~Mine(y.of[j]) => y.prompt = j
    BY <1>2 DEF Good, PromptOK
  <2>2. r.prompt # 0 => r.prompt \in Asks
    BY <1>1 DEF State
  <2>3. y.prompt # 0 => ~Mine(y.of[y.prompt]) /\ y.ask[y.prompt] \in {"waiting", "answered", "cancelled"}
    BY <1>2, <2>2 DEF Good, PromptOK
  <2> QED
    BY <2>1, <2>3 DEF PromptOK
<1>7. Good(y)
  BY <1>2, <1>4, <1>5, <1>6 DEF Good
<1> DEFINE e == [do |-> "asked", n |-> k]
<1>8. ~Mine(r.of[k]) => r.prompt = k
  BY DEF Good, PromptOK
<1>9. ItemOK(y, e)
  BY <1>2, <1>8 DEF ItemOK
<1>10. ASSUME NEW p \in Due(y) PROVE PairOK(y, y.ready[p], e)
  <2>1. r.ready[p] # e
    BY <1>2, <1>3 DEF Due
  <2> QED
    BY <1>2, <1>8, <2>1 DEF PairOK
<1>11. Good(x)
  BY <1>1, <1>7, <1>9, <1>10, SoonGood
<1>12. AsksOnly(r, x) /\ x.ask = [r.ask EXCEPT ![k] = how]
  <2>1. /\ x \in State
        /\ x.current = y.current /\ x.peer = y.peer /\ x.turn = y.turn /\ x.read = y.read
        /\ x.go = y.go /\ x.fut = y.fut /\ x.closed = y.closed /\ x.conn = y.conn
        /\ x.proc = y.proc /\ x.prompt = y.prompt /\ x.ask = y.ask
        /\ x.of = y.of /\ x.told = y.told
        /\ Len(x.ready) = Len(y.ready) + 1
        /\ x.ready[Len(y.ready) + 1] = e
        /\ \A p \in Due(y) : x.ready[p] = y.ready[p]
    BY <1>1, <1>2, SoonFields
  <2>2. Len(y.ready) \in Nat
    BY <1>2, ReadyType
  <2>3. \A p \in Due(x) : p = Len(y.ready) + 1 \/ p \in Due(y)
    BY <2>1, <2>2 DEF Due
  <2>4. \A p \in Due(x) : x.ready[p].do = "asked" \/ \E q \in Due(r) : x.ready[p] = r.ready[q]
    BY <1>2, <2>1, <2>3 DEF Due
  <2> HIDE DEF x
  <2> QED
    BY <1>2, <2>1, <2>4 DEF AsksOnly
<1> QED
  BY <1>11, <1>12 DEF y

\* Leaving everything alone is one way to change questions only.
LEMMA SameAsksOnly == ASSUME NEW r PROVE AsksOnly(r, r)
BY DEF AsksOnly

\* Cancelling a question, the questions of a peer, or its connect_task.
LEMMA CancelAskGood ==
    ASSUME NEW r, Good(r), NEW k \in Asks
    PROVE  /\ Good(CancelAsk(r, k)) /\ AsksOnly(r, CancelAsk(r, k))
           /\ CancelAsk(r, k).ask \in {r.ask, [r.ask EXCEPT ![k] = "cancelled"]}
           /\ CancelAsk(r, k).ask[k] # "waiting"
<1>1. CASE r.ask[k] = "waiting"
  <2>1. Good(CancelAsk(r, k)) /\ AsksOnly(r, CancelAsk(r, k))
        /\ CancelAsk(r, k).ask = [r.ask EXCEPT ![k] = "cancelled"]
    BY <1>1, AnswerGood DEF CancelAsk
  <2>2. r.ask \in [Asks -> {"none", "new", "waiting", "answered", "cancelled", "over", "raised"}]
    BY DEF Good, State
  <2> QED
    BY <2>1, <2>2
<1>2. CASE r.ask[k] # "waiting"
  BY <1>2, SameAsksOnly DEF CancelAsk
<1> QED
  BY <1>1, <1>2

\* The end of an interaction agent cancels at most the question of its peer.
LEMMA CancelAgentGood ==
    ASSUME NEW r, Good(r), NEW i \in Calls
    PROVE  Good(CancelAgent(r, i)) /\ AsksOnly(r, CancelAgent(r, i))
<1> DEFINE ks == {k \in Asks : r.of[k] = i /\ r.ask[k] = "waiting"}
<1>1. CASE Polkit \/ ks = {}
  BY <1>1, SameAsksOnly DEF CancelAgent
<1>2. CASE ~(Polkit \/ ks = {})
  <2>1. CancelAgent(r, i) = CancelAsk(r, CHOOSE k \in ks : TRUE)
    BY <1>2 DEF CancelAgent
  <2>2. (CHOOSE k \in ks : TRUE) \in Asks
    BY <1>2
  <2> QED
    BY <2>1, <2>2, CancelAskGood
<1> QED
  BY <1>1, <1>2


\* What the selector, a process or a connect_task changes.
SameRule(r, x) ==
    /\ x.current = r.current /\ x.peer = r.peer /\ x.ready = r.ready
    /\ x.go = r.go /\ x.fut = r.fut /\ x.closed = r.closed
    /\ x.prompt = r.prompt /\ x.ask = r.ask /\ x.of = r.of /\ x.told = r.told

\* None of that disturbs the rule, as long as a connect_task does not begin again.
LEMMA SameRuleGood ==
    ASSUME NEW r, Good(r), NEW x \in State, SameRule(r, x),
           \/ x.turn = r.turn /\ (x.read <=> r.read)
           \/ x.turn = 0 /\ x.read
           \/ x.turn = Len(x.ready) /\ ~x.read,
           \A j \in Calls : r.fut[j] = "none" => x.conn[j] = "none" /\ x.proc[j] = "none",
           \A j \in Calls : x.conn[j] \in {"new", "running"} => r.conn[j] \in {"new", "running"}
    PROVE  Good(x)
<1>1. r \in State /\ Len(r.ready) \in Nat
  BY ReadyType DEF Good
<1>2. Due(x) = Due(r)
  BY DEF SameRule, Due
<1>3. ASSUME NEW p \in Due(r)
      PROVE  ItemOK(x, r.ready[p])
  <2>1. ItemOK(r, r.ready[p])
    BY DEF Good, ReadyOK
  <2> QED
    BY <2>1 DEF ItemOK, SameRule, Succeeds
<1>4. ASSUME NEW p \in Due(r), NEW q \in Due(r), p < q
      PROVE  PairOK(x, r.ready[p], r.ready[q])
  <2>1. PairOK(r, r.ready[p], r.ready[q])
    BY <1>4 DEF Good, ReadyOK
  <2> QED
    BY <2>1 DEF PairOK, SameRule, Succeeds
<1>5. x.turn <= Len(x.ready) /\ (x.read => x.turn = 0)
  BY <1>1 DEF SameRule, Good, ReadyOK
<1>6. ASSUME NEW p \in Due(r), r.ready[p].do \in Reads PROVE p <= x.turn \/ x.read
  <2>1. p <= r.turn \/ r.read
    BY <1>6 DEF Good, ReadyOK
  <2> QED
    BY <1>1, <2>1 DEF Due, SameRule
<1>7. ReadyOK(x)
  <2>1. x.ready = r.ready
    BY DEF SameRule
  <2> QED
    BY <1>2, <1>3, <1>4, <1>5, <1>6, <2>1 DEF ReadyOK
<1>8. PeersOK(x)
  BY DEF SameRule, Good, PeersOK
<1>9. PromptOK(x) /\ ToldOK(x)
  BY DEF SameRule, Good, PromptOK, ToldOK
<1> QED
  BY <1>7, <1>8, <1>9 DEF Good

\* A connect_task that has not ended ends.
LEMMA ConnEndsGood ==
    ASSUME NEW r, Good(r), NEW i \in Calls, r.fut[i] # "none",
           NEW how \in {"cancelled", "failed", "over"}
    PROVE  LET x == [r EXCEPT !.conn[i] = how]
           IN  /\ Good(x) /\ SameRule(r, x) /\ x.turn = r.turn /\ x.read = r.read
               /\ x.conn[i] = how /\ x.proc = r.proc
<1> DEFINE x == [r EXCEPT !.conn[i] = how]
<1>1. r \in State
  BY DEF Good
<1>2. /\ x \in State /\ SameRule(r, x) /\ x.turn = r.turn /\ x.read = r.read /\ x.proc = r.proc
      /\ x.conn[i] = how /\ \A j \in Calls \ {i} : x.conn[j] = r.conn[j]
  BY <1>1, ZenonT(60) DEF State, SameRule
<1> HIDE DEF x
<1>3. \A j \in Calls : r.fut[j] = "none" => x.conn[j] = "none" /\ x.proc[j] = "none"
  BY <1>2 DEF Good, PeersOK
<1>4. Good(x)
  BY <1>2, <1>3, SameRuleGood
<1> QED
  BY <1>2, <1>4 DEF x

\* What is left of a go() when its connect_task is cancelled.
LEMMA CancelConnectGood ==
    ASSUME NEW r, Good(r), NEW i \in Calls, r.fut[i] # "none"
    PROVE  LET x == CancelConnect(r, i) IN
           /\ Good(x)
           /\ x.current = r.current /\ x.peer = r.peer /\ x.go = r.go /\ x.fut = r.fut
           /\ \A p \in Due(x) : x.ready[p].do = "asked" \/ \E q \in Due(r) : x.ready[p] = r.ready[q]
<1> DEFINE y == [r EXCEPT !.conn[i] = "cancelled"]
<1>1. CASE r.conn[i] \in {"new", "running"}
  <2>1. Good(y) /\ SameRule(r, y)
    BY ConnEndsGood
  <2> HIDE DEF y
  <2>2. Good(CancelAgent(y, i)) /\ AsksOnly(y, CancelAgent(y, i))
    BY <2>1, CancelAgentGood
  <2>3. CancelConnect(r, i) = CancelAgent(y, i)
    BY <1>1 DEF CancelConnect, y
  <2> QED
    BY <2>1, <2>2, <2>3 DEF AsksOnly, SameRule, Due
<1>2. CASE r.conn[i] \notin {"new", "running"}
  BY <1>2 DEF CancelConnect
<1> QED
  BY <1>1, <1>2

-----------------------------------------------------------------------------
\* The callback at the head is taken from those that are due.
Taken(x, e) ==
    /\ Good(x) /\ e \in Item /\ ItemOK(x, e)
    /\ \A p \in Due(x) : x.ready[p] \in Item /\ PairOK(x, e, x.ready[p])

\* It finds what it is for, and all that is due after it agrees with it.
LEMMA HeadTaken ==
    ASSUME Good(s), s.turn > 0
    PROVE  Taken([s EXCEPT !.turn = @ - 1, !.ready = Tail(@)], Head(s.ready))
<1> DEFINE w == Tail(s.ready)
           t == s.turn - 1
           x == [s EXCEPT !.turn = t, !.ready = w]
           e == s.ready[1]
<1>1. s \in State /\ s.ready \in Seq(Item) /\ Len(s.ready) \in Nat /\ s.turn \in Nat
      /\ s.turn <= Len(s.ready)
  BY ReadyType DEF Good, State, ReadyOK
<1>2. /\ t \in Nat /\ w \in Seq(Item) /\ Len(w) = Len(s.ready) - 1 /\ Head(s.ready) = e
      /\ \A p \in 1..Len(w) : w[p] = s.ready[p + 1] /\ p + 1 \in Due(s)
      /\ 1 \in Due(s)
  BY <1>1 DEF Due
<1>3. t = s.turn - 1
  OBVIOUS
<1> HIDE DEF t, w
<1>4. x \in State
  BY <1>1, <1>2 DEF State, Item
<1>5. /\ x.ready = w /\ x.turn = t /\ x.read = s.read
      /\ x.current = s.current /\ x.peer = s.peer /\ x.closed = s.closed /\ x.fut = s.fut
      /\ x.conn = s.conn /\ x.proc = s.proc /\ x.prompt = s.prompt /\ x.ask = s.ask
      /\ x.of = s.of /\ x.told = s.told /\ x.go = s.go
  BY <1>1 DEF State
<1> HIDE DEF x
<1>6. \A f : (ItemOK(s, f) => ItemOK(x, f)) /\ \A g : PairOK(s, f, g) => PairOK(x, f, g)
  BY <1>5 DEF ItemOK, PairOK, Succeeds
<1>7. \A p \in Due(x) : x.ready[p] = s.ready[p + 1] /\ p + 1 \in Due(s) /\ p \in Nat /\ p > 0
  BY <1>2, <1>5 DEF Due
<1>8. ReadyOK(x)
  <2>1. x.turn <= Len(x.ready) /\ ~s.read
    BY <1>1, <1>2, <1>3, <1>5 DEF Good, ReadyOK
  <2>2. ASSUME NEW p \in Due(x)
        PROVE  ItemOK(x, x.ready[p]) /\ (x.ready[p].do \in Reads => p <= x.turn \/ x.read)
    <3>1. ItemOK(s, s.ready[p + 1])
      BY <1>7 DEF Good, ReadyOK
    <3>2. s.ready[p + 1].do \in Reads => p + 1 <= s.turn
      BY <1>7, <2>1 DEF Good, ReadyOK
    <3> QED
      BY <1>1, <1>3, <1>5, <1>6, <1>7, <3>1, <3>2
  <2>3. ASSUME NEW p \in Due(x), NEW q \in Due(x), p < q
        PROVE  PairOK(x, x.ready[p], x.ready[q])
    <3>1. p + 1 < q + 1
      BY <1>7, <2>3
    <3>2. PairOK(s, s.ready[p + 1], s.ready[q + 1])
      BY <1>7, <3>1 DEF Good, ReadyOK
    <3> QED
      BY <1>6, <1>7, <3>2
  <2> QED
    BY <1>5, <2>1, <2>2, <2>3 DEF ReadyOK
<1>9. PeersOK(x) /\ PromptOK(x) /\ ToldOK(x)
  BY <1>5 DEF Good, PeersOK, PromptOK, ToldOK
<1>10. ItemOK(x, e) /\ e \in Item
  <2>1. ItemOK(s, s.ready[1])
    BY <1>2 DEF Good, ReadyOK
  <2>2. s.ready[1] \in Item
    BY <1>1, <1>2, ReadyType
  <2> QED
    BY <1>6, <2>1, <2>2
<1>11. ASSUME NEW p \in Due(x) PROVE x.ready[p] \in Item /\ PairOK(x, e, x.ready[p])
  <2>1. 1 < p + 1 /\ p + 1 \in Due(s) /\ 1 \in Due(s)
    BY <1>2, <1>7
  <2>2. \A a, b \in Due(s) : a < b => PairOK(s, s.ready[a], s.ready[b])
    BY DEF Good, ReadyOK
  <2>4. PairOK(s, s.ready[1], s.ready[p + 1])
    BY <2>1, <2>2
  <2>3. s.ready[p + 1] \in Item
    BY <1>1, <1>7, ReadyType
  <2> QED
    BY <1>6, <1>7, <2>3, <2>4
<1>12. Taken(x, e)
  BY <1>4, <1>8, <1>9, <1>10, <1>11 DEF Taken, Good
<1> QED
  BY <1>2, <1>12 DEF x, t, w

\* A callback that is due once is not due again when it runs.
LEMMA TakenOnce ==
    ASSUME NEW r, NEW e, Taken(r, e), e.do \in Once
    PROVE  Absent(r, e.do, e.n)
<1>1. e = [do |-> e.do, n |-> e.n]
  BY DEF Taken, Item
<1> QED
  BY <1>1 DEF Taken, PairOK, Absent

\* do_connect_transport() and _connect_task_done may be due for any peer that was made.
LEMMA LaterGood ==
    ASSUME NEW r, Good(r), NEW i \in Calls, r.fut[i] # "none", NEW do \in {"connect", "connected"}
    PROVE  Good(Soon(r, do, i))
<1> DEFINE c == [do |-> do, n |-> i]
<1>1. do \notin Once /\ do \notin Reads /\ do \in Kinds /\ i \in Nat
  BY DEF Once, Reads, Kinds, Calls
<1>2. ItemOK(r, c) /\ c.do = do
  BY DEF ItemOK
<1>3. \A f : PairOK(r, f, c)
  <2> HIDE DEF c
  <2> QED
    BY <1>1, <1>2 DEF PairOK
<1> QED
  BY <1>1, <1>2, <1>3, SoonGood

\* A go() for a rule without a peer makes one: nothing that is due takes it for another's.
LEMMA GoBeginsGood ==
    ASSUME SuperuserAssumption, NEW r, NEW e, Taken(r, e), e.do = "go"
    PROVE  Good(GoBegins(r, e.n))
<1> DEFINE i == e.n
           x == [r EXCEPT !.current = "init", !.peer = i, !.go[i] = "start", !.fut[i] = "pending",
                          !.conn[i] = "new"]
<1>1. Good(r) /\ r \in State /\ i \in Calls /\ r.go[i] = "new"
  BY DEF Taken, ItemOK, Good
<1>2. Absent(r, "go", i)
  BY TakenOnce DEF Once
<1>3. r.fut[i] = "none" /\ ~r.closed[i] /\ r.conn[i] = "none" /\ r.proc[i] = "none"
  BY <1>1 DEF Good, PeersOK
<1>4. ASSUME NEW p \in Due(r), r.ready[p].do \in {"go", "start", "initdone"}
      PROVE  r.ready[p].n \in Calls \ {i}
  <2>1. ItemOK(r, r.ready[p]) /\ r.ready[p] \in Item
    BY <1>1 DEF Taken, Good, ReadyOK
  <2>2. r.ready[p].n \in Calls
    BY <1>4, <2>1 DEF ItemOK
  <2>3. CASE r.ready[p].do \in {"start", "initdone"}
    BY <1>1, <2>1, <2>2, <2>3 DEF ItemOK, Ended
  <2>4. CASE r.ready[p].do = "go"
    <3>1. r.ready[p] = [do |-> r.ready[p].do, n |-> r.ready[p].n]
      BY <2>1 DEF Item
    <3> QED
      BY <1>2, <2>2, <2>4, <3>1 DEF Absent
  <2> QED
    BY <1>4, <2>3, <2>4
<1>5. CASE r.current # "none"
  <2>1. Absent(r, "start", i)
    <3> SUFFICES ASSUME NEW p \in Due(r), r.ready[p] = [do |-> "start", n |-> i] PROVE FALSE
      BY DEF Absent
    <3>1. r.ready[p].do = "start" /\ r.ready[p].n = i
      OBVIOUS
    <3> QED
      BY <1>4, <3>1
  <2>2. Good(Return(r, i, "busy"))
    BY <1>1, <1>2, <1>3, <2>1, ReturnGood DEF Ended
  <2> QED
    BY <1>5, <2>2 DEF GoBegins
<1>6. CASE r.current = "none"
  <2>1. r.peer = 0
    BY <1>1, <1>6 DEF Good, PeersOK
  <2>2. ASSUME NEW p \in Due(r), r.ready[p].do = "start" PROVE ~Succeeds(r, r.ready[p].n)
    BY <2>2 DEF Taken, PairOK
  <2> HIDE DEF i
  <2>3. /\ x \in State /\ x.ready = r.ready /\ x.turn = r.turn /\ x.read = r.read
        /\ x.current = "init" /\ x.peer = i /\ x.closed = r.closed /\ x.proc = r.proc
        /\ x.prompt = r.prompt /\ x.ask = r.ask /\ x.of = r.of /\ x.told = r.told
        /\ x.go[i] = "start" /\ x.fut[i] = "pending" /\ x.conn[i] = "new"
        /\ \A j \in Calls \ {i} : x.go[j] = r.go[j] /\ x.fut[j] = r.fut[j] /\ x.conn[j] = r.conn[j]
    BY <1>1, ZenonT(60) DEF State
  <2> HIDE DEF x
  <2>4. ASSUME NEW p \in Due(r), ItemOK(r, r.ready[p]) PROVE ItemOK(x, r.ready[p])
    <3>1. CASE r.ready[p].do \in {"go", "start", "initdone"}
      BY <1>4, <2>2, <2>3, <2>4, <3>1 DEF ItemOK, Succeeds
    <3>2. CASE r.ready[p].do \notin {"go", "start", "initdone"}
      BY <2>3, <2>4, <3>2 DEF ItemOK
    <3> QED
      BY <3>1, <3>2
  <2>5. ASSUME NEW p \in Due(r), NEW q \in Due(r), PairOK(r, r.ready[p], r.ready[q])
        PROVE  PairOK(x, r.ready[p], r.ready[q])
    BY <1>4, <2>3, <2>5 DEF PairOK, Succeeds
  <2>6. ReadyOK(x)
    BY <1>1, <2>3, <2>4, <2>5, SameReady
  <2>7. PeersOK(x)
    <3>1. ASSUME NEW j \in Calls
          PROVE  /\ x.fut[j] # "none" /\ ~x.closed[j] <=> x.peer = j
                 /\ x.fut[j] = "none" => /\ x.go[j] \in {"unused", "new", "busy"} /\ ~x.closed[j]
                                         /\ x.conn[j] = "none" /\ x.proc[j] = "none"
                 /\ x.fut[j] # "none" => x.go[j] \notin {"unused", "new", "busy"}
                 /\ x.fut[j] = "pending" => x.go[j] = "start"
                 /\ x.go[j] = "exit" => x.fut[j] = "exited"
      <4>1. CASE j = i
        BY <1>3, <2>3, <4>1
      <4>2. CASE j # i
        <5>1. 0 \notin Calls
          BY DEF Calls
        <5> QED
          BY <1>1, <2>1, <2>3, <4>2, <5>1 DEF Good, PeersOK
      <4> QED
        BY <4>1, <4>2
    <3>2. i # 0
      BY <1>1 DEF Calls
    <3> QED
      BY <2>3, <3>1, <3>2 DEF PeersOK
  <2>8. PromptOK(x)
    BY <1>1, <2>3 DEF Good, PromptOK
  <2>9. ToldOK(x)
    <3>1. r.told = 1 => r.go[1] \in Ended /\ i # 1
      BY <1>1 DEF Good, ToldOK, Ended
    <3>2. 1 \in Calls
      BY DEF SuperuserAssumption, Calls
    <3> QED
      BY <1>1, <2>3, <3>1, <3>2 DEF Good, ToldOK
  <2>10. Good(x)
    BY <2>3, <2>6, <2>7, <2>8, <2>9 DEF Good
  <2>11. Good(Soon(x, "connect", i))
    BY <1>1, <2>3, <2>10, LaterGood
  <2> QED
    BY <1>6, <2>11 DEF GoBegins, x, i
<1> QED
  BY <1>5, <1>6

\* do_connect_transport() starts the process, or fails.
LEMMA ConnectGood ==
    ASSUME NEW r, NEW e, Taken(r, e), e.do = "connect", NEW x \in Connect(r, e.n)
    PROVE  Good(x)
<1> DEFINE i == e.n
           u == [r EXCEPT !.conn[i] = "running", !.proc[i] = "running"]
           f == [r EXCEPT !.conn[i] = "failed"]
<1>1. Good(r) /\ r \in State /\ i \in Calls /\ r.fut[i] # "none"
  BY DEF Taken, ItemOK, Good
<1>2. CASE r.conn[i] # "new"
  BY <1>1, <1>2 DEF Connect
<1>3. ASSUME r.conn[i] = "new" PROVE Good(u)
  <2> HIDE DEF i
  <2>1. /\ u \in State /\ SameRule(r, u) /\ u.turn = r.turn /\ u.read = r.read
        /\ \A j \in Calls \ {i} : u.conn[j] = r.conn[j] /\ u.proc[j] = r.proc[j]
    BY <1>1, ZenonT(60) DEF State, SameRule
  <2> HIDE DEF u
  <2>2. \A j \in Calls : r.fut[j] = "none" => u.conn[j] = "none" /\ u.proc[j] = "none"
    BY <1>1, <2>1 DEF Good, PeersOK
  <2> QED
    BY <1>1, <1>3, <2>1, <2>2, SameRuleGood
<1>4. Good(Soon(f, "connected", i))
  <2>1. Good(f) /\ SameRule(r, f)
    BY <1>1, ConnEndsGood
  <2> HIDE DEF f
  <2> QED
    BY <1>1, <2>1, LaterGood DEF SameRule
<1> QED
  BY <1>2, <1>3, <1>4 DEF Connect

\* _connect_task_done closes the peer of a connect_task that failed.
LEMMA ConnectedGood ==
    ASSUME NEW r, NEW e, Taken(r, e), e.do = "connected"
    PROVE  Good(Connected(r, e.n))
<1>1. Good(r) /\ e.n \in Calls /\ r.fut[e.n] # "none"
  BY DEF Taken, ItemOK
<1> QED
  BY <1>1, CloseGood DEF Connected

\* process_exited closes the peer.
LEMMA ExitedGood ==
    ASSUME NEW r, NEW e, Taken(r, e), e.do = "exit"
    PROVE  Good(ProcessExited(r, e.n))
<1>1. Good(r) /\ e.n \in Calls /\ r.fut[e.n] # "none"
  BY DEF Taken, ItemOK
<1> QED
  BY <1>1, CloseGood DEF ProcessExited

\* communicate() ends.
LEMMA AgentEndsGood ==
    ASSUME NEW r, NEW e, Taken(r, e), e.do = "eof", NEW how \in {"over", "failed"}
    PROVE  Good(AgentEnds(r, e.n, how))
<1> DEFINE i == e.n
           y == [r EXCEPT !.conn[i] = how]
           z == CancelAgent(y, i)
           x == Soon(z, "connected", i)
           c == [do |-> "start", n |-> i]
<1>1. Good(r) /\ r \in State /\ i \in Calls /\ i \in Nat /\ r.fut[i] # "none"
  BY DEF Taken, ItemOK, Good, Calls
<1>2. CASE r.conn[i] # "running"
  BY <1>1, <1>2 DEF AgentEnds
<1>3. CASE r.conn[i] = "running"
  <2>1. Good(y) /\ SameRule(r, y) /\ y.conn[i] = how
    <3>1. Good(y) /\ SameRule(r, y)
      BY <1>1, ConnEndsGood
    <3>2. y.conn[i] = how
      BY <1>1 DEF State
    <3> QED
      BY <3>1, <3>2
  <2>2. Good(z) /\ AsksOnly(y, z)
    <3> HIDE DEF y, i
    <3> QED
      BY <1>1, <2>1, CancelAgentGood
  <2> HIDE DEF z
  <2>3. z.go = r.go /\ z.fut = r.fut /\ z.conn[i] = how
    BY <2>1, <2>2 DEF SameRule, AsksOnly
  <2>4. Good(x)
    BY <1>1, <2>2, <2>3, LaterGood
  <2>5. z \in State /\ Len(z.ready) \in Nat
    BY <2>2, ReadyType DEF Good
  <2>6. /\ x.go = r.go /\ x.fut = r.fut /\ x.conn[i] = how
        /\ Len(x.ready) = Len(z.ready) + 1
        /\ x.ready[Len(z.ready) + 1] = [do |-> "connected", n |-> i]
        /\ \A p \in Due(z) : x.ready[p] = z.ready[p]
    <3>1. "connected" \in Kinds
      BY DEF Kinds
    <3> QED
      BY <1>1, <2>3, <2>5, <3>1, SoonFields
  <2> HIDE DEF x
  <2>7. ASSUME r.go[i] = "exit" PROVE Good(Soon(x, "start", i))
    <3>1. "start" \in Kinds /\ "start" \notin Reads
      BY DEF Kinds, Once, Reads
    <3>2. ItemOK(x, c)
      BY <1>1, <2>6, <2>7 DEF ItemOK, Succeeds
    <3>3. \A q \in Due(r) : r.ready[q] # c
      <4> SUFFICES ASSUME NEW q \in Due(r), r.ready[q] = c PROVE FALSE
        OBVIOUS
      <4>1. ItemOK(r, r.ready[q]) /\ r.ready[q].do = "start" /\ r.ready[q].n = i
        BY <1>1 DEF Good, ReadyOK
      <4> QED
        BY <1>3, <2>7, <4>1 DEF ItemOK
    <3>4. \A q \in Due(z) : z.ready[q] # c
      <4>1. c.do # "asked" /\ y.ready = r.ready
        BY <2>1 DEF SameRule
      <4> HIDE DEF c, y
      <4> QED
        BY <2>2, <3>3, <4>1 DEF AsksOnly, Due
    <3>5. \A q \in Due(x) : x.ready[q] # c
      <4>1. \A q \in Due(x) : q = Len(z.ready) + 1 \/ q \in Due(z)
        BY <2>5, <2>6 DEF Due
      <4> QED
        BY <2>6, <3>4, <4>1
    <3>6. c.do = "start" /\ c.n = i
      OBVIOUS
    <3>7. \A q \in Due(x) : PairOK(x, x.ready[q], c)
      <4> HIDE DEF c
      <4> QED
        BY <2>6, <2>7, <3>5, <3>6 DEF PairOK, Succeeds
    <3> QED
      BY <1>1, <2>4, <3>1, <3>2, <3>7, SoonGood
  <2> QED
    BY <1>3, <2>4, <2>7 DEF AgentEnds, x, z
<1> QED
  BY <1>2, <1>3

\* start() and go() go on.
LEMMA GoResumesGood ==
    ASSUME SuperuserAssumption, NEW r, NEW e, Taken(r, e), e.do = "start"
    PROVE  Good(GoResumes(r, e.n))
<1> DEFINE i == e.n
           c == CancelConnect(r, i)
           u == [c EXCEPT !.current = "up"]
<1>1. /\ Good(r) /\ r \in State /\ i \in Calls
      /\ r.go[i] = "start" => r.fut[i] \notin {"none", "pending"}
      /\ r.go[i] \in {"start", "exit"}
      /\ r.go[i] = "exit" => r.conn[i] \notin {"new", "running"}
      /\ Succeeds(r, i) => r.peer \in {0, i}
  BY DEF Taken, ItemOK, Good
<1>2. r.fut[i] \in {"init", "exited", "cancelled", "exc"} /\ (r.go[i] = "exit" => r.fut[i] = "exited")
  BY <1>1 DEF Good, PeersOK, State
<1>3. Absent(r, "start", i)
  BY TakenOnce DEF Once
<1>4. Absent(r, "go", i)
  <2> SUFFICES ASSUME NEW p \in Due(r), r.ready[p] = [do |-> "go", n |-> i] PROVE FALSE
    BY DEF Absent
  <2>1. ItemOK(r, r.ready[p]) /\ r.ready[p].do = "go" /\ r.ready[p].n = i
    BY <1>1 DEF Good, ReadyOK
  <2> QED
    BY <1>1, <2>1 DEF ItemOK
<1> HIDE DEF i
<1>5. /\ Good(c) /\ c \in State
      /\ c.current = r.current /\ c.peer = r.peer /\ c.go = r.go /\ c.fut = r.fut
      /\ \A p \in Due(c) : c.ready[p].do = "asked" \/ \E q \in Due(r) : c.ready[p] = r.ready[q]
  BY <1>1, <1>2, CancelConnectGood DEF Good
<1> HIDE DEF c
<1>6. ASSUME NEW do \in {"go", "start"} PROVE Absent(c, do, i)
  <2> DEFINE f == [do |-> do, n |-> i]
  <2>1. f.do # "asked"
    OBVIOUS
  <2>2. \A q \in Due(r) : r.ready[q] # f
    BY <1>3, <1>4 DEF Absent
  <2>3. \A q \in Due(c) : c.ready[q] # f
    <3> HIDE DEF f
    <3> QED
      BY <1>5, <2>1, <2>2
  <2> QED
    BY <2>3 DEF Absent
<1>7. ASSUME NEW how \in {"failed", "cancelled", "raised"}
      PROVE  Good(Return(r, i, how)) /\ Good(Return(c, i, how))
  <2>1. how \in Ended /\ how # "busy"
    BY DEF Ended
  <2>2. Good(Return(r, i, how))
    BY <1>1, <1>2, <1>3, <1>4, <2>1, ReturnGood
  <2>3. Good(Return(c, i, how))
    BY <1>1, <1>2, <1>5, <1>6, <2>1, ReturnGood
  <2> QED
    BY <2>2, <2>3
<1>8. ASSUME r.go[i] = "start", r.fut[i] = "exited", r.conn[i] \in {"new", "running"}
      PROVE  Good([r EXCEPT !.go[i] = "exit"])
  <2> DEFINE x == [r EXCEPT !.go[i] = "exit"]
  <2>1. /\ x \in State /\ x.ready = r.ready /\ x.turn = r.turn /\ x.read = r.read
        /\ x.current = r.current /\ x.peer = r.peer /\ x.closed = r.closed /\ x.fut = r.fut
        /\ x.conn = r.conn /\ x.proc = r.proc /\ x.prompt = r.prompt /\ x.ask = r.ask
        /\ x.of = r.of /\ x.told = r.told /\ x.go[i] = "exit"
        /\ \A j \in Calls \ {i} : x.go[j] = r.go[j]
    BY <1>1, ZenonT(60) DEF State
  <2> HIDE DEF x
  <2>2. ASSUME NEW p \in Due(r), r.ready[p].do \in {"go", "start", "initdone"}
        PROVE  r.ready[p].n \in Calls \ {i}
    <3>1. ItemOK(r, r.ready[p]) /\ r.ready[p] \in Item
      BY <1>1 DEF Taken, Good, ReadyOK
    <3>2. r.ready[p].n \in Calls
      BY <2>2, <3>1 DEF ItemOK
    <3>3. r.ready[p] = [do |-> r.ready[p].do, n |-> r.ready[p].n]
      BY <3>1 DEF Item
    <3>4. CASE r.ready[p].do = "initdone"
      BY <1>1, <3>1, <3>2, <3>4 DEF ItemOK, Ended
    <3> QED
      BY <1>3, <1>4, <2>2, <3>2, <3>3, <3>4 DEF Absent
  <2>3. ASSUME NEW p \in Due(r), ItemOK(r, r.ready[p]) PROVE ItemOK(x, r.ready[p])
    BY <2>1, <2>2, <2>3 DEF ItemOK, Succeeds
  <2>4. ASSUME NEW p \in Due(r), NEW q \in Due(r), PairOK(r, r.ready[p], r.ready[q])
        PROVE  PairOK(x, r.ready[p], r.ready[q])
    BY <2>1, <2>2, <2>4 DEF PairOK, Succeeds
  <2>5. ReadyOK(x)
    BY <1>1, <2>1, <2>3, <2>4, SameReady
  <2>6. PeersOK(x) /\ PromptOK(x)
    BY <1>1, <1>8, <2>1 DEF Good, PeersOK, PromptOK
  <2>7. ToldOK(x)
    <3>1. r.told = 1 => r.go[1] \in Ended /\ i # 1
      BY <1>1 DEF Good, ToldOK, Ended
    <3>2. 1 \in Calls
      BY DEF SuperuserAssumption, Calls
    <3> QED
      BY <1>1, <2>1, <3>1, <3>2 DEF Good, ToldOK
  <2> QED
    BY <2>1, <2>5, <2>6, <2>7 DEF Good, x
<1>9. ASSUME r.go[i] = "start", r.fut[i] = "init", r.peer # 0 PROVE Good(Return(u, i, "ok"))
  <2>1. r.peer = i
    BY <1>1, <1>9 DEF Succeeds
  <2>2. /\ u \in State /\ u.ready = c.ready /\ u.turn = c.turn /\ u.read = c.read
        /\ u.current = "up" /\ u.peer = c.peer /\ u.closed = c.closed /\ u.fut = c.fut
        /\ u.conn = c.conn /\ u.proc = c.proc /\ u.prompt = c.prompt /\ u.ask = c.ask
        /\ u.of = c.of /\ u.told = c.told /\ u.go = c.go
    BY <1>5 DEF State
  <2> HIDE DEF u
  <2>3. \A f : (ItemOK(c, f) => ItemOK(u, f)) /\ \A g : PairOK(c, f, g) => PairOK(u, f, g)
    BY <2>2 DEF ItemOK, PairOK, Succeeds
  <2>4. ReadyOK(u)
    BY <1>5, <2>2, <2>3, SameReady
  <2>5. PeersOK(u)
    BY <1>5, <1>9, <2>1, <2>2 DEF Good, PeersOK
  <2>6. PromptOK(u) /\ ToldOK(u)
    BY <1>5, <2>2 DEF Good, PromptOK, ToldOK
  <2>7. Good(u)
    BY <2>2, <2>4, <2>5, <2>6 DEF Good
  <2>8. Absent(u, "go", i) /\ Absent(u, "start", i)
    BY <1>6, <2>2 DEF Absent, Due
  <2>9. "ok" \in Ended
    BY DEF Ended
  <2> QED
    BY <1>1, <1>5, <1>9, <2>2, <2>7, <2>8, <2>9, ReturnGood
<1>10. CASE r.go[i] = "exit"
  BY <1>7, <1>10 DEF GoResumes, i
<1>11. CASE r.go[i] = "start"
  <2>1. CASE r.fut[i] = "exited"
    BY <1>7, <1>8, <1>11, <2>1 DEF GoResumes, i
  <2>2. CASE r.fut[i] = "cancelled"
    BY <1>7, <1>11, <2>2 DEF GoResumes, c, i
  <2>3. CASE r.fut[i] = "exc"
    BY <1>7, <1>11, <2>3 DEF GoResumes, c, i
  <2>4. CASE r.fut[i] = "init"
    BY <1>7, <1>9, <1>11, <2>4 DEF GoResumes, u, c, i
  <2> QED
    BY <1>2, <2>1, <2>2, <2>3, <2>4
<1> QED
  BY <1>1, <1>10, <1>11 DEF i

\* The peer's "init" finds no go() that could take its place.
LEMMA PeerInitGood ==
    ASSUME NEW r, NEW e, Taken(r, e), e.do = "init"
    PROVE  Good(PeerInit(r, e.n))
<1>1. Good(r) /\ e.n \in Calls
  BY DEF Taken, ItemOK
<1>2. CASE r.closed[e.n] \/ r.fut[e.n] # "pending"
  BY <1>1, <1>2 DEF PeerInit
<1>3. CASE ~r.closed[e.n] /\ r.fut[e.n] = "pending"
  <2>1. r.peer = e.n
    BY <1>1, <1>3 DEF Good, PeersOK
  <2>2. \A p \in Due(r) : r.ready[p].do # "go"
    BY DEF Taken, PairOK, Reads
  <2>3. Good(Soon([r EXCEPT !.fut[e.n] = "init"], "start", e.n))
    BY <1>1, <1>3, <2>1, <2>2, SettlesGood
  <2> QED
    BY <1>3, <2>3 DEF PeerInit
<1> QED
  BY <1>2, <1>3

\* What a question's task changes: the question, and the pending prompt.
LEMMA TaskGood ==
    ASSUME NEW r, Good(r), NEW k \in Asks, r.of[k] # 0, Absent(r, "ask", k), Absent(r, "asked", k),
           NEW a \in {"waiting", "over", "raised"}, NEW m \in Asks \cup {0},
           \A j \in Asks \ {k} : r.ask[j] = "waiting" /\ ~Mine(r.of[j]) => m = j,
           a = "waiting" /\ ~Mine(r.of[k]) => m = k,
           m # 0 => \/ m = k /\ a = "waiting" /\ ~Mine(r.of[k])
                    \/ m # k /\ m = r.prompt,
           m # r.prompt =>
             /\ \A p \in Due(r) : r.ready[p].do = "asked" /\ ~Mine(r.of[r.ready[p].n]) => m = 0
             /\ \A p, q \in Due(r) : p < q /\ r.ready[p].do = "ask" /\ r.ready[q].do = "asked"
                                       => Mine(r.of[r.ready[q].n])
    PROVE  Good([r EXCEPT !.ask[k] = a, !.prompt = m])
<1> DEFINE x == [r EXCEPT !.ask[k] = a, !.prompt = m]
<1>1. r \in State
  BY DEF Good
<1>2. /\ x \in State /\ x.ready = r.ready /\ x.turn = r.turn /\ x.read = r.read
      /\ x.current = r.current /\ x.peer = r.peer /\ x.closed = r.closed /\ x.fut = r.fut
      /\ x.conn = r.conn /\ x.proc = r.proc /\ x.go = r.go
      /\ x.of = r.of /\ x.told = r.told /\ x.prompt = m /\ x.ask[k] = a
      /\ \A j \in Asks \ {k} : x.ask[j] = r.ask[j]
  BY <1>1, ZenonT(60) DEF State
<1> HIDE DEF x
<1>3. ASSUME NEW p \in Due(r), r.ready[p].do \in {"ask", "asked"}
      PROVE  r.ready[p].n \in Asks \ {k}
  <2>1. ItemOK(r, r.ready[p]) /\ r.ready[p] \in Item
    BY <1>1, ReadyType DEF Good, ReadyOK
  <2>2. r.ready[p].n \in Asks
    BY <1>3, <2>1 DEF ItemOK
  <2>3. r.ready[p] = [do |-> r.ready[p].do, n |-> r.ready[p].n]
    BY <2>1 DEF Item
  <2> QED
    BY <1>3, <2>2, <2>3 DEF Absent
<1>4. ASSUME NEW p \in Due(r), ItemOK(r, r.ready[p]) PROVE ItemOK(x, r.ready[p])
  <2>1. CASE r.ready[p].do = "asked"
    BY <1>2, <1>3, <1>4, <2>1 DEF ItemOK
  <2>2. CASE r.ready[p].do # "asked"
    BY <1>2, <1>3, <1>4, <2>2 DEF ItemOK, Succeeds
  <2> QED
    BY <2>1, <2>2
<1>5. ASSUME NEW p \in Due(r), NEW q \in Due(r), p < q, PairOK(r, r.ready[p], r.ready[q])
      PROVE  PairOK(x, r.ready[p], r.ready[q])
  BY <1>2, <1>5 DEF PairOK, Succeeds
<1>6. ReadyOK(x)
  BY <1>2, <1>4, <1>5, SameReady
<1>7. PeersOK(x) /\ ToldOK(x)
  BY <1>2 DEF Good, PeersOK, ToldOK
<1>8. PromptOK(x)
  <2>1. ASSUME NEW j \in Asks
        PROVE  /\ x.of[j] = 0 <=> x.ask[j] = "none"
               /\ x.ask[j] = "waiting" /\ ~Mine(x.of[j]) => x.prompt = j
    <3>1. CASE j = k
      BY <1>2, <3>1
    <3>2. CASE j # k
      BY <1>2, <3>2 DEF Good, PromptOK
    <3> QED
      BY <3>1, <3>2
  <2>2. ASSUME m # 0
        PROVE  ~Mine(x.of[m]) /\ x.ask[m] \in {"waiting", "answered", "cancelled"}
    <3>1. CASE m = k
      BY <1>2, <2>2, <3>1
    <3>2. CASE m # k
      BY <1>2, <2>2, <3>2 DEF Good, PromptOK
    <3> QED
      BY <3>1, <3>2
  <2> QED
    BY <1>2, <2>1, <2>2 DEF PromptOK
<1> QED
  BY <1>2, <1>6, <1>7, <1>8 DEF Good, x

\* A task that asks.
LEMMA AskpassGood ==
    ASSUME NEW r, NEW e, Taken(r, e), e.do = "ask"
    PROVE  Good(Askpass(r, e.n))
<1> DEFINE k == e.n
<1>1. Good(r) /\ r \in State /\ k \in Asks /\ r.ask[k] = "new" /\ r.of[k] # 0
  <2>1. Good(r) /\ r \in State /\ k \in Asks /\ r.ask[k] = "new"
    BY DEF Taken, ItemOK, Good
  <2> QED
    BY <2>1 DEF Good, PromptOK
<1>2. Absent(r, "ask", k)
  BY TakenOnce DEF Once
<1>3. Absent(r, "asked", k)
  <2> SUFFICES ASSUME NEW p \in Due(r), r.ready[p] = [do |-> "asked", n |-> k] PROVE FALSE
    BY DEF Absent
  <2>1. ItemOK(r, r.ready[p]) /\ r.ready[p].do = "asked" /\ r.ready[p].n = k
    BY <1>1 DEF Good, ReadyOK
  <2> QED
    BY <1>1, <2>1 DEF ItemOK
<1>4. r.prompt # k /\ r.prompt \in Asks \cup {0} /\ 0 \notin Asks
  BY <1>1 DEF Good, PromptOK, State, Asks
<1>5. \A p \in Due(r) : r.ready[p].do = "asked" /\ ~Mine(r.of[r.ready[p].n]) =>
        r.prompt = r.ready[p].n /\ r.ready[p].n \in Asks
  <2> SUFFICES ASSUME NEW p \in Due(r), r.ready[p].do = "asked", ~Mine(r.of[r.ready[p].n])
               PROVE  r.prompt = r.ready[p].n /\ r.ready[p].n \in Asks
    OBVIOUS
  <2>1. ItemOK(r, r.ready[p]) /\ PairOK(r, e, r.ready[p])
    BY <1>1 DEF Taken, Good, ReadyOK
  <2> QED
    BY <2>1 DEF ItemOK, PairOK
<1>6. \A j \in Asks : r.ask[j] = "waiting" /\ ~Mine(r.of[j]) => r.prompt = j
  BY <1>1 DEF Good, PromptOK
<1> HIDE DEF k
<1>7. [r EXCEPT !.ask[k] = "waiting", !.prompt = r.prompt] = [r EXCEPT !.ask[k] = "waiting"]
      /\ [r EXCEPT !.ask[k] = "raised", !.prompt = r.prompt] = [r EXCEPT !.ask[k] = "raised"]
  BY <1>1 DEF State
<1>8. CASE Mine(r.of[k])
  <2>1. Good([r EXCEPT !.ask[k] = "waiting", !.prompt = r.prompt])
    BY <1>1, <1>2, <1>3, <1>4, <1>6, <1>8, TaskGood
  <2> QED
    BY <1>7, <1>8, <2>1 DEF Askpass, k
<1>9. CASE ~Mine(r.of[k]) /\ r.prompt # 0
  <2>1. Good([r EXCEPT !.ask[k] = "raised", !.prompt = r.prompt])
    BY <1>1, <1>2, <1>3, <1>4, <1>6, <1>9, TaskGood
  <2> QED
    BY <1>7, <1>9, <2>1 DEF Askpass, k
<1>10. CASE ~Mine(r.of[k]) /\ r.prompt = 0
  <2>1. \A p \in Due(r) : r.ready[p].do = "asked" => Mine(r.of[r.ready[p].n])
    BY <1>4, <1>5, <1>10
  <2>2. \A j \in Asks : ~(r.ask[j] = "waiting" /\ ~Mine(r.of[j]))
    BY <1>4, <1>6, <1>10
  <2>3. Good([r EXCEPT !.ask[k] = "waiting", !.prompt = k])
    BY <1>1, <1>2, <1>3, <1>10, <2>1, <2>2, TaskGood
  <2> QED
    BY <1>10, <2>3 DEF Askpass, k
<1> QED
  BY <1>8, <1>9, <1>10

\* A task that goes on after its question, and clears the prompt, which is its own.
LEMMA AskedGood ==
    ASSUME NEW r, NEW e, Taken(r, e), e.do = "asked"
    PROVE  Good(Asked(r, e.n))
<1> DEFINE k == e.n
<1>1. /\ Good(r) /\ r \in State /\ k \in Asks /\ r.ask[k] \in {"answered", "cancelled"}
      /\ ~Mine(r.of[k]) => r.prompt \in {0, k}
  BY DEF Taken, ItemOK, Good
<1>2. r.of[k] # 0 /\ (Mine(r.of[k]) => r.prompt # k) /\ r.prompt \in Asks \cup {0} /\ 0 \notin Asks
  <2>1. r.of[k] # 0
    BY <1>1 DEF Good, PromptOK
  <2>2. Mine(r.of[k]) => r.prompt # k
    BY <1>1 DEF Good, PromptOK, Asks
  <2> QED
    BY <1>1, <2>1, <2>2 DEF State, Asks
<1>3. Absent(r, "asked", k)
  BY TakenOnce DEF Once
<1>4. Absent(r, "ask", k)
  <2> SUFFICES ASSUME NEW p \in Due(r), r.ready[p] = [do |-> "ask", n |-> k] PROVE FALSE
    BY DEF Absent
  <2>1. ItemOK(r, r.ready[p]) /\ r.ready[p].do = "ask" /\ r.ready[p].n = k
    BY <1>1 DEF Good, ReadyOK
  <2> QED
    BY <1>1, <2>1 DEF ItemOK
<1>5. \A j \in Asks : r.ask[j] = "waiting" /\ ~Mine(r.of[j]) => r.prompt = j
  BY <1>1 DEF Good, PromptOK
<1>6. \A p, q \in Due(r) : p < q /\ r.ready[p].do = "ask" /\ r.ready[q].do = "asked"
        /\ ~Mine(r.of[r.ready[q].n]) => r.prompt \in Asks \ {k}
  <2> SUFFICES ASSUME NEW p \in Due(r), NEW q \in Due(r), p < q, r.ready[p].do = "ask",
                      r.ready[q].do = "asked", ~Mine(r.of[r.ready[q].n])
               PROVE  r.prompt \in Asks \ {k}
    OBVIOUS
  <2>1. ItemOK(r, r.ready[q]) /\ PairOK(r, r.ready[p], r.ready[q]) /\ r.ready[q] \in Item
    BY <1>1 DEF Taken, Good, ReadyOK
  <2>2. r.prompt = r.ready[q].n /\ r.ready[q].n \in Asks
    BY <2>1 DEF ItemOK, PairOK
  <2>3. r.ready[q] = [do |-> "asked", n |-> r.ready[q].n]
    BY <2>1 DEF Item
  <2> QED
    BY <1>3, <2>2, <2>3 DEF Absent
<1> HIDE DEF k
<1>7. CASE Mine(r.of[k])
  <2>1. [r EXCEPT !.ask[k] = "over", !.prompt = r.prompt] = [r EXCEPT !.ask[k] = "over"]
    BY <1>1 DEF State
  <2>2. Good([r EXCEPT !.ask[k] = "over", !.prompt = r.prompt])
    BY <1>1, <1>2, <1>3, <1>4, <1>5, <1>7, TaskGood
  <2> QED
    BY <1>7, <2>1, <2>2 DEF Asked, k
<1>8. CASE ~Mine(r.of[k])
  <2>1. \A j \in Asks \ {k} : ~(r.ask[j] = "waiting" /\ ~Mine(r.of[j]))
    BY <1>1, <1>2, <1>5, <1>8
  <2>2. \A p, q \in Due(r) : p < q /\ r.ready[p].do = "ask" /\ r.ready[q].do = "asked"
          => Mine(r.of[r.ready[q].n])
    BY <1>1, <1>2, <1>6, <1>8
  <2>3. Good([r EXCEPT !.ask[k] = "over", !.prompt = 0])
    BY <1>1, <1>2, <1>3, <1>4, <2>1, <2>2, TaskGood
  <2> QED
    BY <1>8, <2>3 DEF Asked, k
<1> QED
  BY <1>7, <1>8

\* do_authorize answers a question that waits, and changes no other.
LEMMA AuthorizeGood ==
    ASSUME NEW r, NEW e, Taken(r, e), e.do = "authorize"
    PROVE  Good(DoAuthorize(r, e.n))
<1> DEFINE x == [r EXCEPT !.doubts = @ + 1]
<1>1. Good(r) /\ r \in State /\ e.n \in Asks
  BY DEF Taken, ItemOK, Good
<1>2. Good(x)
  <2>1. x \in State /\ SameRule(r, x) /\ x.turn = r.turn /\ x.read = r.read /\ x.conn = r.conn
        /\ x.proc = r.proc
    BY <1>1, SMTT(30) DEF State, SameRule
  <2> HIDE DEF x
  <2>2. \A j \in Calls : r.fut[j] = "none" => x.conn[j] = "none" /\ x.proc[j] = "none"
    BY <1>1, <2>1 DEF Good, PeersOK
  <2> QED
    BY <1>1, <2>1, <2>2, SameRuleGood
<1>3. r.ask[e.n] = "waiting" => Good(Soon([r EXCEPT !.ask[e.n] = "answered"], "asked", e.n))
  BY <1>1, AnswerGood
<1> QED
  BY <1>1, <1>2, <1>3 DEF DoAuthorize

\* The client is told, once.
LEMMA InitDoneGood ==
    ASSUME NEW r, NEW e, Taken(r, e), e.do = "initdone"
    PROVE  Good(InitDone(r, e.n))
<1> DEFINE x == [r EXCEPT !.told = 1]
<1>1. Good(r) /\ r \in State /\ e.n \in Calls /\ Mine(e.n) /\ r.go[e.n] \in Ended /\ r.told = 0
  BY DEF Taken, ItemOK, Good
<1>2. /\ x \in State /\ x.ready = r.ready /\ x.turn = r.turn /\ x.read = r.read
      /\ x.current = r.current /\ x.peer = r.peer /\ x.closed = r.closed /\ x.fut = r.fut
      /\ x.conn = r.conn /\ x.proc = r.proc /\ x.go = r.go
      /\ x.of = r.of /\ x.told = 1 /\ x.prompt = r.prompt /\ x.ask = r.ask
  <2>1. r \in State
    BY <1>1
  <2> QED
    BY <2>1 DEF State
<1> HIDE DEF x
<1>3. Absent(r, "initdone", e.n)
  BY TakenOnce DEF Once
<1>4. ASSUME NEW p \in Due(r) PROVE r.ready[p].do # "initdone"
  <2> SUFFICES ASSUME r.ready[p].do = "initdone" PROVE FALSE
    OBVIOUS
  <2>1. ItemOK(r, r.ready[p]) /\ r.ready[p] \in Item
    BY <1>1 DEF Taken, Good, ReadyOK
  <2>2. r.ready[p] = [do |-> "initdone", n |-> r.ready[p].n]
    BY <2>1 DEF Item
  <2>3. r.ready[p].n = e.n
    BY <1>1, <2>1 DEF ItemOK, Mine
  <2> QED
    BY <1>3, <2>2, <2>3 DEF Absent
<1>5. ASSUME NEW p \in Due(r), ItemOK(r, r.ready[p]) PROVE ItemOK(x, r.ready[p])
  BY <1>2, <1>4, <1>5 DEF ItemOK, Succeeds
<1>6. \A f, g : PairOK(r, f, g) => PairOK(x, f, g)
  BY <1>2 DEF PairOK, Succeeds
<1>7. ReadyOK(x)
  BY <1>1, <1>2, <1>5, <1>6, SameReady
<1>8. PeersOK(x) /\ PromptOK(x)
  BY <1>1, <1>2 DEF Good, PeersOK, PromptOK
<1>9. ToldOK(x)
  BY <1>1, <1>2 DEF ToldOK, Mine
<1>10. InitDone(r, e.n) = x
  BY <1>1 DEF InitDone, x
<1> QED
  BY <1>2, <1>7, <1>8, <1>9, <1>10 DEF Good

\* Whatever callback the loop runs keeps the invariant.
LEMMA RunGood ==
    ASSUME SuperuserAssumption, Good(s), Run
    PROVE  Good(s')
<1> DEFINE r == [s EXCEPT !.turn = @ - 1, !.ready = Tail(@)]
           e == Head(s.ready)
<1>1. Taken(r, e) /\ s' \in Callback(r, e)
  BY HeadTaken DEF Run
<1> HIDE DEF r, e
<1>2. e.do \in Kinds
  BY <1>1 DEF Taken, Item
<1>3. CASE e.do = "go"
  BY <1>1, <1>3, GoBeginsGood DEF Callback
<1>4. CASE e.do = "connect"
  BY <1>1, <1>4, ConnectGood DEF Callback
<1>5. CASE e.do = "connected"
  BY <1>1, <1>5, ConnectedGood DEF Callback
<1>6. CASE e.do = "start"
  BY <1>1, <1>6, GoResumesGood DEF Callback
<1>7. CASE e.do = "init"
  BY <1>1, <1>7, PeerInitGood DEF Callback
<1>8. CASE e.do = "exit"
  BY <1>1, <1>8, ExitedGood DEF Callback
<1>9. CASE e.do = "eof"
  <2>1. PICK how \in {"over", "failed"} : s' = AgentEnds(r, e.n, how)
    BY <1>1, <1>9 DEF Callback
  <2> QED
    BY <1>1, <1>9, <2>1, AgentEndsGood
<1>10. CASE e.do = "ask"
  BY <1>1, <1>10, AskpassGood DEF Callback
<1>11. CASE e.do = "asked"
  BY <1>1, <1>11, AskedGood DEF Callback
<1>12. CASE e.do = "authorize"
  BY <1>1, <1>12, AuthorizeGood DEF Callback
<1>13. CASE e.do = "initdone"
  BY <1>1, <1>13, InitDoneGood DEF Callback
<1> QED
  BY <1>2, <1>3, <1>4, <1>5, <1>6, <1>7, <1>8, <1>9, <1>10, <1>11, <1>12, <1>13 DEF Kinds, Reads, Once

-----------------------------------------------------------------------------
\* While a D-Bus method runs, no file descriptor has caused anything that is still due.
LEMMA SelectingReads ==
    ASSUME Good(s), Selecting
    PROVE  \A p \in Due(s) : s.ready[p].do \notin Reads
<1>1. ASSUME NEW p \in Due(s), s.ready[p].do \in Reads PROVE FALSE
  <2>1. p <= s.turn \/ s.read
    BY <1>1 DEF Good, ReadyOK
  <2> QED
    BY <2>1 DEF Selecting, Due
<1> QED
  BY <1>1

\* A turn begins with all that is due.
LEMMA PollGood ==
    ASSUME Good(s), Poll
    PROVE  Good(s')
<1> DEFINE t == Len(s.ready)
           x == [s EXCEPT !.turn = t, !.read = FALSE]
<1>1. s \in State /\ t \in Nat
  BY ReadyType DEF Good
<1>2. t = Len(s.ready)
  OBVIOUS
<1> HIDE DEF t
<1>3. x \in State /\ SameRule(s, x) /\ x.turn = t /\ x.read = FALSE /\ x.conn = s.conn /\ x.proc = s.proc
  BY <1>1 DEF State, SameRule
<1>4. s' = x
  BY DEF Poll, t
<1> HIDE DEF x
<1>5. \A j \in Calls : s.fut[j] = "none" => x.conn[j] = "none" /\ x.proc[j] = "none"
  BY <1>3 DEF Good, PeersOK
<1>6. x.turn = Len(x.ready) /\ ~x.read
  BY <1>2, <1>3 DEF SameRule
<1> QED
  BY <1>3, <1>4, <1>5, <1>6, SameRuleGood

\* start() of D-Bus makes a go(), which comes after nothing that was read.
LEMMA StartGood ==
    ASSUME SuperuserAssumption, Good(s), Start
    PROVE  Good(s')
<1>1. PICK i \in Calls : s.go[i] = "unused" /\ s' = Soon([s EXCEPT !.go[i] = "new"], "go", i)
  BY DEF Start
<1> DEFINE x == [s EXCEPT !.go[i] = "new"]
           c == [do |-> "go", n |-> i]
<1>2. s \in State /\ i \in Nat /\ "go" \in Kinds /\ "go" \notin Reads /\ Selecting
  BY DEF Good, Calls, Kinds, Once, Reads, Start
<1>3. /\ x \in State /\ x.ready = s.ready /\ x.turn = s.turn /\ x.read = s.read
      /\ x.current = s.current /\ x.peer = s.peer /\ x.closed = s.closed /\ x.fut = s.fut
      /\ x.conn = s.conn /\ x.proc = s.proc /\ x.go[i] = "new"
      /\ x.of = s.of /\ x.told = s.told /\ x.prompt = s.prompt /\ x.ask = s.ask
      /\ \A j \in Calls \ {i} : x.go[j] = s.go[j]
  BY <1>2, ZenonT(60) DEF State
<1> HIDE DEF x
<1>4. ASSUME NEW p \in Due(s), s.ready[p].do \in {"go", "start", "initdone"}
      PROVE  s.ready[p].n \in Calls \ {i}
  <2>1. ItemOK(s, s.ready[p])
    BY DEF Good, ReadyOK
  <2> QED
    BY <1>1, <1>4, <2>1 DEF ItemOK, Ended
<1>5. ASSUME NEW p \in Due(s), ItemOK(s, s.ready[p]) PROVE ItemOK(x, s.ready[p])
  BY <1>3, <1>4, <1>5 DEF ItemOK, Succeeds
<1>6. ASSUME NEW p \in Due(s), NEW q \in Due(s), PairOK(s, s.ready[p], s.ready[q])
      PROVE  PairOK(x, s.ready[p], s.ready[q])
  BY <1>3, <1>4, <1>6 DEF PairOK, Succeeds
<1>7. ReadyOK(x)
  BY <1>3, <1>5, <1>6, SameReady
<1>8. PeersOK(x) /\ PromptOK(x)
  BY <1>1, <1>3 DEF Good, PeersOK, PromptOK
<1>9. ToldOK(x)
  <2>1. s.told = 1 => s.go[1] \in Ended /\ i # 1
    BY <1>1 DEF Good, ToldOK, Ended
  <2>2. 1 \in Calls
    BY DEF SuperuserAssumption, Calls
  <2> QED
    BY <1>3, <2>1, <2>2 DEF Good, ToldOK
<1>10. Good(x)
  BY <1>3, <1>7, <1>8, <1>9 DEF Good
<1>11. ItemOK(x, c) /\ c.do = "go" /\ c.n = i
  BY <1>3 DEF ItemOK
<1>12. \A p \in Due(x) : x.ready[p] \notin {c} /\ x.ready[p].do \notin Reads
  <2>1. \A p \in Due(s) : s.ready[p].do \notin Reads
    BY <1>2, SelectingReads
  <2>2. \A p \in Due(s) : s.ready[p] # c
    BY <1>4
  <2> QED
    BY <1>3, <2>1, <2>2 DEF Due
<1>13. \A p \in Due(x) : PairOK(x, x.ready[p], c)
  <2> HIDE DEF c
  <2> QED
    BY <1>11, <1>12 DEF PairOK
<1> QED
  BY <1>1, <1>2, <1>10, <1>11, <1>13, SoonGood DEF x

\* The counters of the model do not matter.
LEMMA CountGood ==
    ASSUME NEW r, Good(r), NEW x \in State, SameRule(r, x), x.turn = r.turn, x.read = r.read,
           x.conn = r.conn, x.proc = r.proc
    PROVE  Good(x)
<1>1. \A j \in Calls : r.fut[j] = "none" => x.conn[j] = "none" /\ x.proc[j] = "none"
  BY DEF Good, PeersOK
<1> QED
  BY <1>1, SameRuleGood

\* The prompt is cancelled while nothing is due that asks.
LEMMA CancelPromptGood ==
    ASSUME NEW r, Good(r), \A p \in Due(r) : r.ready[p].do \notin Reads
    PROVE  Good(CancelPrompt(r))
<1> DEFINE k == r.prompt
           c == CancelAsk(r, k)
           x == [c EXCEPT !.prompt = 0]
<1>1. CASE k = 0
  BY <1>1 DEF CancelPrompt
<1>2. CASE k # 0
  <2>1. k \in Asks
    BY <1>2 DEF Good, State
  <2>2. /\ Good(c) /\ AsksOnly(r, c) /\ c.ask[k] # "waiting" /\ c \in State
    BY <2>1, CancelAskGood DEF Good
  <2> HIDE DEF c
  <2>3. \A p \in Due(c) : c.ready[p].do # "ask"
    BY <2>2 DEF AsksOnly, Reads
  <2>4. c.prompt = k
    BY <2>2 DEF AsksOnly
  <2> HIDE DEF k
  <2>5. /\ x \in State /\ x.ready = c.ready /\ x.turn = c.turn /\ x.read = c.read
        /\ x.current = c.current /\ x.peer = c.peer /\ x.closed = c.closed /\ x.fut = c.fut
        /\ x.conn = c.conn /\ x.proc = c.proc /\ x.go = c.go
        /\ x.of = c.of /\ x.told = c.told /\ x.prompt = 0 /\ x.ask = c.ask
    BY <2>2 DEF State
  <2> HIDE DEF x
  <2>6. \A f : ItemOK(c, f) => ItemOK(x, f)
    BY <2>5 DEF ItemOK, Succeeds
  <2>7. ASSUME NEW p \in Due(c), NEW q \in Due(c), PairOK(c, c.ready[p], c.ready[q])
        PROVE  PairOK(x, c.ready[p], c.ready[q])
    BY <2>3, <2>5, <2>7 DEF PairOK, Succeeds
  <2>8. ReadyOK(x)
    BY <2>2, <2>5, <2>6, <2>7, SameReady
  <2>9. PeersOK(x) /\ ToldOK(x)
    BY <2>2, <2>5 DEF Good, PeersOK, ToldOK
  <2>10. PromptOK(x)
    BY <2>2, <2>4, <2>5 DEF Good, PromptOK
  <2>11. Good(x)
    BY <2>5, <2>8, <2>9, <2>10 DEF Good
  <2> QED
    BY <1>2, <2>11 DEF CancelPrompt, x, c, k
<1> QED
  BY <1>1, <1>2

\* stop() and set_configs()
LEMMA ShutdownGood ==
    ASSUME Good(s), Selecting
    PROVE  Good(Shutdown([s EXCEPT !.stops = @ + 1]))
<1> DEFINE m == s.stops + 1
           r == [s EXCEPT !.stops = m]
           c == CancelPrompt(r)
<1>1. s \in State /\ m \in Nat
  BY DEF Good, State
<1> HIDE DEF m
<1>2. r \in State /\ SameRule(s, r) /\ r.turn = s.turn /\ r.read = s.read /\ r.conn = s.conn
      /\ r.proc = s.proc
  BY <1>1 DEF State, SameRule
<1> HIDE DEF r
<1>3. Good(r)
  BY <1>2, CountGood
<1>4. \A p \in Due(r) : r.ready[p].do \notin Reads
  BY <1>2, SelectingReads DEF SameRule, Due
<1>5. Good(c)
  BY <1>3, <1>4, CancelPromptGood
<1> HIDE DEF c
<1>6. CASE c.peer # 0
  <2>1. c.peer \in Calls
    BY <1>5, <1>6 DEF Good, State
  <2>2. c.fut[c.peer] # "none"
    BY <1>5, <2>1 DEF Good, PeersOK
  <2>3. Good(Close(c, c.peer, "cancelled"))
    BY <1>5, <2>1, <2>2, CloseGood
  <2> QED
    BY <1>6, <2>3 DEF Shutdown, c, r, m
<1>7. CASE c.peer = 0
  BY <1>5, <1>7 DEF Shutdown, c, r, m
<1> QED
  BY <1>6, <1>7

\* An answer is counted.
LEMMA AnswerCounted ==
    ASSUME Good(s)
    PROVE  LET r == [s EXCEPT !.answers = @ + 1]
           IN  Good(r) /\ SameRule(s, r) /\ r.turn = s.turn
<1> DEFINE r == [s EXCEPT !.answers = @ + 1]
<1>1. s \in State
  BY DEF Good
<1>2. r \in State /\ SameRule(s, r) /\ r.turn = s.turn /\ r.read = s.read /\ r.conn = s.conn
      /\ r.proc = s.proc
  BY <1>1, SMTT(30) DEF State, SameRule
<1> HIDE DEF r
<1>3. Good(r)
  BY <1>2, CountGood
<1> QED
  BY <1>2, <1>3 DEF r

\* answer() reaches the pending prompt, if it waits.
LEMMA AnswersGood ==
    ASSUME Good(s), Answer
    PROVE  Good(s')
<1> DEFINE r == [s EXCEPT !.answers = @ + 1]
           k == s.prompt
<1>1. s \in State
  BY DEF Good
<1>3. s' = IF k # 0 /\ s.ask[k] = "waiting" THEN Soon([r EXCEPT !.ask[k] = "answered"], "asked", k) ELSE r
  BY DEF Answer
<1>4. Good(r) /\ SameRule(s, r)
  BY AnswerCounted
<1> HIDE DEF r
<1>5. CASE k # 0 /\ s.ask[k] = "waiting"
  <2>1. k \in Asks /\ r.ask[k] = "waiting"
    BY <1>1, <1>4, <1>5 DEF State, SameRule
  <2>2. Good(Soon([r EXCEPT !.ask[k] = "answered"], "asked", k))
    BY <1>4, <2>1, AnswerGood
  <2> QED
    BY <1>3, <1>5, <2>2
<1>6. CASE ~(k # 0 /\ s.ask[k] = "waiting")
  BY <1>3, <1>4, <1>6
<1> QED
  BY <1>5, <1>6

\* The selector returns a file descriptor.
LEMMA ReadableGood ==
    ASSUME NEW r, Good(r), r.turn = 0, NEW do \in Reads, NEW n \in Nat,
           ItemOK(r, [do |-> do, n |-> n]), do = "ask" => Absent(r, "ask", n)
    PROVE  Good(Readable(r, do, n))
<1> DEFINE x == [r EXCEPT !.read = TRUE]
           c == [do |-> do, n |-> n]
<1>1. r \in State
  BY DEF Good
<1>2. x \in State /\ SameRule(r, x) /\ x.turn = r.turn /\ x.read = TRUE /\ x.conn = r.conn
      /\ x.proc = r.proc
  BY <1>1, ZenonT(60) DEF State, SameRule
<1> HIDE DEF x
<1>3. Good(x)
  <2>1. \A j \in Calls : r.fut[j] = "none" => x.conn[j] = "none" /\ x.proc[j] = "none"
    BY <1>2 DEF Good, PeersOK
  <2> QED
    BY <1>2, <2>1, SameRuleGood
<1>4. ItemOK(x, c)
  BY <1>2 DEF ItemOK, SameRule, Succeeds
<1>5. c.do = do /\ do \in Kinds /\ do \notin {"go", "start", "asked", "initdone"}
  BY DEF Kinds, Reads
<1>6. ASSUME NEW p \in Due(x) PROVE PairOK(x, x.ready[p], c)
  <2>1. x.ready[p].do \in Once => x.ready[p] # c
    <3>1. CASE do = "ask"
      BY <1>2, <3>1 DEF Absent, SameRule, Due
    <3>2. CASE do # "ask"
      <4>1. do \notin Once
        BY <1>5, <3>2 DEF Once
      <4> QED
        BY <1>5, <4>1
    <3> QED
      BY <3>1, <3>2
  <2> HIDE DEF c
  <2> QED
    BY <1>5, <2>1 DEF PairOK
<1>7. Good(Soon(x, do, n))
  BY <1>2, <1>3, <1>4, <1>5, <1>6, SoonGood
<1> QED
  BY <1>7 DEF Readable, x

\* A process says "init", exits or closes its stderr.
LEMMA ProcessGood ==
    ASSUME Good(s), NEW i \in Calls, ProcessSpeaks(i) \/ ProcessEnds(i) \/ StderrEnds(i)
    PROVE  Good(s')
<1>1. s \in State /\ i \in Nat /\ s.turn = 0
  BY DEF Good, Calls, ProcessSpeaks, ProcessEnds, StderrEnds
<1>2. s.fut[i] # "none"
  BY DEF Good, PeersOK, ProcessSpeaks, ProcessEnds, StderrEnds
<1>3. ASSUME NEW r \in State, SameRule(s, r), r.turn = s.turn, r.read = s.read, r.conn = s.conn,
             \A j \in Calls \ {i} : r.proc[j] = s.proc[j], NEW do \in {"init", "exit", "eof"}
      PROVE  Good(Readable(r, do, i))
  <2>1. \A j \in Calls : s.fut[j] = "none" => r.conn[j] = "none" /\ r.proc[j] = "none"
    BY <1>2, <1>3 DEF Good, PeersOK
  <2>2. Good(r)
    BY <1>3, <2>1, SameRuleGood
  <2>3. ItemOK(r, [do |-> do, n |-> i])
    BY <1>2, <1>3 DEF ItemOK, SameRule
  <2>4. do \in Reads /\ do # "ask"
    BY DEF Reads
  <2> QED
    BY <1>1, <1>3, <2>2, <2>3, <2>4, ReadableGood
<1>4. CASE ProcessSpeaks(i)
  <2> DEFINE r == [s EXCEPT !.hello[i] = TRUE]
  <2>1. r \in State /\ SameRule(s, r) /\ r.turn = s.turn /\ r.read = s.read /\ r.conn = s.conn
        /\ \A j \in Calls \ {i} : r.proc[j] = s.proc[j]
    <3>1. s \in State
      BY <1>1
    <3> QED
      BY <3>1 DEF State, SameRule
  <2>2. s' = Readable(r, "init", i)
    BY <1>4 DEF ProcessSpeaks
  <2> HIDE DEF r
  <2> QED
    BY <1>3, <2>1, <2>2
<1>5. CASE ProcessEnds(i)
  <2> DEFINE r == [s EXCEPT !.proc[i] = "exited"]
  <2>1. r \in State /\ SameRule(s, r) /\ r.turn = s.turn /\ r.read = s.read /\ r.conn = s.conn
        /\ \A j \in Calls \ {i} : r.proc[j] = s.proc[j]
    <3>1. s \in State
      BY <1>1
    <3> QED
      BY <3>1 DEF State, SameRule
  <2>2. s' = Readable(r, "exit", i)
    BY <1>5 DEF ProcessEnds
  <2> HIDE DEF r
  <2> QED
    BY <1>3, <2>1, <2>2
<1>6. CASE StderrEnds(i)
  <2>1. s' = Readable(s, "eof", i)
    BY <1>6 DEF StderrEnds
  <2>2. SameRule(s, s)
    BY DEF SameRule
  <2> QED
    BY <1>1, <1>3, <2>1, <2>2
<1> QED
  BY <1>4, <1>5, <1>6

\* A process asks a question of its own.
LEMMA AsksGood ==
    ASSUME Good(s), NEW i \in Calls, ProcessAsks(i)
    PROVE  Good(s')
<1>1. PICK k \in Asks : s.of[k] = 0 /\ s' = Readable([s EXCEPT !.of[k] = i, !.ask[k] = "new"], "ask", k)
  BY DEF ProcessAsks
<1> DEFINE x == [s EXCEPT !.of[k] = i, !.ask[k] = "new"]
<1>2. s \in State /\ k \in Nat /\ s.turn = 0 /\ i # 0 /\ s.ask[k] = "none" /\ s.prompt # k
  <2>1. s \in State /\ k \in Nat /\ s.turn = 0 /\ i # 0 /\ k # 0
    BY DEF Good, Asks, Calls, ProcessAsks
  <2> QED
    BY <1>1, <2>1 DEF Good, PromptOK
<1>3. /\ x \in State /\ x.ready = s.ready /\ x.turn = s.turn /\ x.read = s.read
      /\ x.current = s.current /\ x.peer = s.peer /\ x.closed = s.closed /\ x.fut = s.fut
      /\ x.conn = s.conn /\ x.proc = s.proc /\ x.go = s.go
      /\ x.told = s.told /\ x.prompt = s.prompt /\ x.of[k] = i /\ x.ask[k] = "new"
      /\ \A j \in Asks \ {k} : x.of[j] = s.of[j] /\ x.ask[j] = s.ask[j]
  <2>1. s \in State
    BY <1>2
  <2> QED
    BY <2>1, ZenonT(60) DEF State
<1> HIDE DEF x
<1>4. ASSUME NEW p \in Due(s), s.ready[p].do \in {"ask", "asked"}
      PROVE  s.ready[p].n \in Asks \ {k}
  <2>1. ItemOK(s, s.ready[p])
    BY DEF Good, ReadyOK
  <2> QED
    BY <1>2, <1>4, <2>1 DEF ItemOK
<1>5. ASSUME NEW p \in Due(s), ItemOK(s, s.ready[p]) PROVE ItemOK(x, s.ready[p])
  <2>1. CASE s.ready[p].do \in {"ask", "asked"}
    BY <1>3, <1>4, <1>5, <2>1 DEF ItemOK
  <2>2. CASE s.ready[p].do \notin {"ask", "asked"}
    BY <1>3, <1>5, <2>2 DEF ItemOK, Succeeds
  <2> QED
    BY <2>1, <2>2
<1>6. ASSUME NEW p \in Due(s), NEW q \in Due(s), PairOK(s, s.ready[p], s.ready[q])
      PROVE  PairOK(x, s.ready[p], s.ready[q])
  BY <1>3, <1>4, <1>6 DEF PairOK, Succeeds
<1>7. ReadyOK(x)
  BY <1>3, <1>5, <1>6, SameReady
<1>8. PeersOK(x) /\ ToldOK(x)
  BY <1>3 DEF Good, PeersOK, ToldOK
<1>9. PromptOK(x)
  <2>1. ASSUME NEW j \in Asks
        PROVE  /\ x.of[j] = 0 <=> x.ask[j] = "none"
               /\ x.ask[j] = "waiting" /\ ~Mine(x.of[j]) => x.prompt = j
    <3>1. CASE j = k
      BY <1>2, <1>3, <3>1
    <3>2. CASE j # k
      <4>1. /\ s.of[j] = 0 <=> s.ask[j] = "none"
            /\ s.ask[j] = "waiting" /\ ~Mine(s.of[j]) => s.prompt = j
        BY DEF Good, PromptOK
      <4>2. x.of[j] = s.of[j] /\ x.ask[j] = s.ask[j] /\ x.prompt = s.prompt
        BY <1>3, <3>2
      <4> QED
        BY <4>1, <4>2
    <3> QED
      BY <3>1, <3>2
  <2>2. s.prompt # 0 => s.prompt \in Asks \ {k}
    BY <1>2 DEF State
  <2>3. x.prompt # 0 => ~Mine(x.of[x.prompt]) /\ x.ask[x.prompt] \in {"waiting", "answered", "cancelled"}
    BY <1>3, <2>2 DEF Good, PromptOK
  <2> QED
    BY <2>1, <2>3 DEF PromptOK
<1>10. Good(x)
  BY <1>3, <1>7, <1>8, <1>9 DEF Good
<1>11. ItemOK(x, [do |-> "ask", n |-> k])
  BY <1>3 DEF ItemOK
<1>12. Absent(x, "ask", k)
  BY <1>3, <1>4 DEF Absent, Due
<1>13. "ask" \in Reads
  BY DEF Reads
<1>14. Good(Readable(x, "ask", k))
  BY <1>2, <1>3, <1>10, <1>11, <1>12, <1>13, ReadableGood
<1> QED
  BY <1>1, <1>14 DEF x

\* The client answers a question of the AuthorizeResponder.
LEMMA ClientGood ==
    ASSUME Good(s), NEW k \in Asks, ClientAuthorizes(k)
    PROVE  Good(s')
<1> DEFINE r == [s EXCEPT !.answers = @ + 1]
<1>1. k \in Nat /\ s.turn = 0
  BY DEF Asks, ClientAuthorizes
<1>2. Good(r) /\ r.turn = s.turn
  BY AnswerCounted
<1>3. s' = Readable(r, "authorize", k)
  BY DEF ClientAuthorizes
<1> HIDE DEF r
<1>4. ItemOK(r, [do |-> "authorize", n |-> k])
  BY DEF ItemOK
<1>5. "authorize" \in Reads
  BY DEF Reads
<1> QED
  BY <1>1, <1>2, <1>3, <1>4, <1>5, ReadableGood

-----------------------------------------------------------------------------
\* The invariant holds at start-up, with or without a go() that is due.
LEMMA InitGood == ASSUME SuperuserAssumption, Init PROVE Good(s)
<1>1. 1 \in Calls /\ 0 \notin Calls /\ AtStartup \in BOOLEAN
  BY DEF SuperuserAssumption, Calls
<1> DEFINE w == IF AtStartup THEN <<[do |-> "go", n |-> 1]>> ELSE <<>>
           g == [i \in Calls |-> IF AtStartup /\ i = 1 THEN "new" ELSE "unused"]
<1>2. w \in Seq(Item) /\ Len(w) \in {0, 1} /\ (Len(w) = 1 => AtStartup /\ w[1] = [do |-> "go", n |-> 1])
  <2>1. [do |-> "go", n |-> 1] \in Item
    BY DEF Item, Kinds, Once
  <2>2. CASE AtStartup
    BY <2>1, <2>2
  <2>3. CASE ~AtStartup
    BY <2>3
  <2> QED
    BY <2>2, <2>3
<1>3. /\ g \in [Calls -> {"unused", "new", "start", "exit"} \cup Ended]
      /\ AtStartup => g[1] = "new"
      /\ \A i \in Calls : g[i] \in {"unused", "new"}
  BY <1>1
<1>4. /\ s.ready = w /\ s.go = g /\ s.current = "none" /\ s.peer = 0 /\ s.turn = 0 /\ ~s.read
      /\ s.fut = [i \in Calls |-> "none"] /\ s.closed = [i \in Calls |-> FALSE]
      /\ s.conn = [i \in Calls |-> "none"] /\ s.proc = [i \in Calls |-> "none"]
      /\ s.prompt = 0 /\ s.ask = [k \in Asks |-> "none"] /\ s.of = [k \in Asks |-> 0]
      /\ s.told = 0
  BY DEF Init
<1>5. s \in State
  <2> HIDE DEF w, g
  <2>1. s = [current |-> "none", peer |-> 0, turn |-> 0, read |-> FALSE, ready |-> w, go |-> g,
             fut |-> [i \in Calls |-> "none"], closed |-> [i \in Calls |-> FALSE],
             conn |-> [i \in Calls |-> "none"], proc |-> [i \in Calls |-> "none"],
             hello |-> [i \in Calls |-> FALSE],
             prompt |-> 0, ask |-> [k \in Asks |-> "none"], of |-> [k \in Asks |-> 0],
             doubts |-> 0, told |-> 0, answers |-> 0, stops |-> 0]
    BY DEF Init, w, g
  <2> QED
    BY <1>2, <1>3, <2>1 DEF State, Item
<1> HIDE DEF w, g
<1>6. ReadyOK(s)
  <2>1. \A p \in Due(s) : p = 1 /\ Len(w) = 1
    <3>1. Due(s) = 1..Len(w)
      BY <1>4 DEF Due
    <3>2. CASE Len(w) = 0
      BY <3>1, <3>2
    <3>3. CASE Len(w) = 1
      BY <3>1, <3>3
    <3> QED
      BY <1>2, <3>2, <3>3
  <2>2. ASSUME NEW p \in Due(s) PROVE ItemOK(s, s.ready[p]) /\ s.ready[p].do \notin Reads
    <3>1. s.ready[p] = [do |-> "go", n |-> 1] /\ AtStartup
      BY <1>2, <1>4, <2>1
    <3> QED
      BY <1>1, <1>3, <1>4, <3>1 DEF ItemOK, Reads
  <2>3. 0 <= Len(w)
    BY <1>2
  <2> QED
    BY <1>4, <2>1, <2>2, <2>3 DEF ReadyOK
<1>7. PeersOK(s)
  BY <1>1, <1>3, <1>4 DEF PeersOK
<1>8. PromptOK(s) /\ ToldOK(s)
  BY <1>4 DEF PromptOK, ToldOK
<1> QED
  BY <1>5, <1>6, <1>7, <1>8 DEF Good

\* The rule of the superuser bridge is safe, for any number of go(), questions, answers and
\* stop(), with or without the go() of init(), and with either agent: the peer it knows is the
\* only one that is open, "current" is honest, a question that waits is the pending prompt, and
\* "superuser-init-done" is sent at most once.
THEOREM SuperuserSafety == ASSUME SuperuserAssumption PROVE Spec => []SuperuserSafe
<1>1. Init => Good(s)
  BY InitGood
<1>2. Good(s) /\ [Next]_vars => Good(s)'
  <2> SUFFICES ASSUME Good(s), [Next]_vars PROVE Good(s')
    OBVIOUS
  <2>1. CASE Poll
    BY <2>1, PollGood
  <2>2. CASE Run
    BY <2>2, RunGood
  <2>3. CASE Start
    BY <2>3, StartGood
  <2>4. CASE Stop \/ SetConfigs
    BY <2>4, ShutdownGood DEF Stop, SetConfigs
  <2>5. CASE Answer
    BY <2>5, AnswersGood
  <2>6. ASSUME NEW i \in Calls, ProcessSpeaks(i) \/ ProcessEnds(i) \/ StderrEnds(i) \/ ProcessAsks(i)
        PROVE  Good(s')
    BY <2>6, ProcessGood, AsksGood
  <2>7. ASSUME NEW k \in Asks, ClientAuthorizes(k) PROVE Good(s')
    BY <2>7, ClientGood
  <2>8. CASE UNCHANGED vars
    BY <2>8 DEF vars
  <2> QED
    BY <2>1, <2>2, <2>3, <2>4, <2>5, <2>6, <2>7, <2>8 DEF Next
<1>3. Good(s) => SuperuserSafe
  <2> SUFFICES ASSUME Good(s) PROVE SuperuserSafe
    OBVIOUS
  <2>1. OnePeer /\ CurrentHonest
    BY DEF Good, PeersOK, OnePeer, CurrentHonest
  <2>2. PromptKept
    <3>1. ASSUME NEW k \in Asks \ AuthorizeAsks(s), s.ask[k] = "waiting" PROVE s.prompt = k
      BY <3>1 DEF Good, PromptOK, AuthorizeAsks
    <3>2. s.prompt # 0 => s.ask[s.prompt] \in {"waiting", "answered", "cancelled"}
      BY DEF Good, PromptOK
    <3> QED
      BY <3>1, <3>2 DEF PromptKept
  <2> QED
    BY <2>1, <2>2 DEF Good, ToldOK, SuperuserSafe
<1> QED
  BY <1>1, <1>2, <1>3, PTL DEF Spec

=============================================================================
