------------------------------ MODULE TlsServer ------------------------------
(***************************************************************************)
(* The cockpit-tls server (src/src/tls): the main thread that accepts      *)
(* connections and stops when idle (server.c), the thread of every         *)
(* connection up to its loop and after it (connection.c), the files of the *)
(* client certificates (client-certificate.c), and the factory that has    *)
(* systemd start the instance of a certificate (wsinstance-factory.c).     *)
(***************************************************************************)
EXTENDS Integers, FiniteSets, Sequences, FiniteSetTheorems, TLAPS

CONSTANTS
    Conns,         \* the connections, numbers
    Prints,        \* the fingerprints of client certificates
    Certificate,   \* whether the server has a certificate
    RequireHttps,  \* parameters.require_https
    Restarts,      \* bound on the instances that systemd stops
    Faults,        \* whether files, sockets and systemd may fail
    CreateFails    \* whether pthread_create() may fail

(* What an instance has to satisfy.                                       *)
TlsServerAssumption ==
    /\ Conns \subseteq Nat /\ IsFiniteSet(Conns) /\ Certificate \in BOOLEAN /\ RequireHttps \in BOOLEAN
    /\ Restarts \in Nat /\ Faults \in BOOLEAN /\ CreateFails \in BOOLEAN /\ "nil" \notin Prints

VARIABLES
    sv,     \* the server
    cn,     \* the connections and their threads
    fa,     \* the factory process of every connection
    unit    \* systemd: the socket units of the instances

vars == <<sv, cn, fa, unit>>

Instances == Prints \cup {"nil"}   \* SHA256_NIL: no client certificate

(* sv: pc of the main thread; new, the connection being accepted; count;   *)
(* timer (idle_timerfd): off, armed or fired                               *)
(* cn[c]: pc; inst (wsinstance), file (client_cert_filename is linked),    *)
(* meta: the certificate in the metadata; to: what ws_fd is connected to   *)
(* fa[c]: pc, inst, job (job_path is set), queue: the bus messages it has  *)
(* not processed, own: its job is under way, reply                         *)
NoConn == [pc |-> "none", inst |-> "none", file |-> FALSE, meta |-> "none", to |-> "none"]
NoFactory ==
    [pc |-> "none", inst |-> "none", job |-> FALSE, queue |-> <<>>, own |-> FALSE,
     reply |-> "none"]

(* server_init(): the idle timer is armed.                                 *)
Init ==
    /\ sv = [pc |-> "poll", new |-> 0, count |-> 0, timer |-> "armed"]
    /\ cn = [c \in Conns |-> NoConn]
    /\ fa = [c \in Conns |-> NoFactory]
    /\ unit = [at |-> [i \in Instances |-> "absent"], stops |-> 0]

Threads == {c \in Conns : cn[c].pc \notin {"none", "backlog", "taken", "closed"}}

-----------------------------------------------------------------------------
(* The main thread                                                         *)

Connect ==
    /\ \E c \in Conns :
         /\ cn[c].pc = "none" /\ \A d \in Conns : d < c => cn[d].pc # "none"
         /\ cn' = [cn EXCEPT ![c].pc = "backlog"]
    /\ sv.pc # "exited"
    /\ UNCHANGED <<sv, fa, unit>>

TimerFires ==
    /\ sv.timer = "armed" /\ sv.pc # "exited"
    /\ sv' = [sv EXCEPT !.timer = "fired"]
    /\ UNCHANGED <<cn, fa, unit>>

(* server_poll_event() with a listener: accept4()                          *)
HandleAccept ==
    /\ sv.pc = "poll"
    /\ \E c \in Conns :
         /\ cn[c].pc = "backlog"
         /\ cn' = [cn EXCEPT ![c].pc = "taken"]
         /\ sv' = [sv EXCEPT !.pc = "count", !.new = c]
    /\ UNCHANGED <<fa, unit>>

(* handle_accept() under the mutex                                         *)
CountUp ==
    /\ sv.pc = "count"
    /\ sv' = [sv EXCEPT !.pc = "spawn", !.count = @ + 1,
                        !.timer = IF sv.count = 0 THEN "off" ELSE @]
    /\ UNCHANGED <<cn, fa, unit>>

(* pthread_create(); when it fails the connection is closed.               *)
Spawn ==
    /\ sv.pc = "spawn"
    /\ \E created \in IF CreateFails THEN BOOLEAN ELSE {TRUE} :
         cn' = [cn EXCEPT ![sv.new].pc = IF created THEN "handshake" ELSE "closed"]
    /\ sv' = [sv EXCEPT !.pc = "poll", !.new = 0]
    /\ UNCHANGED <<fa, unit>>

(* server_poll_event() with the idle timer: server_run() returns and       *)
(* server_cleanup() follows.                                               *)
IdleTimeout ==
    /\ sv.pc = "poll" /\ sv.timer = "fired"
    /\ sv' = [sv EXCEPT !.pc = "exited"]
    /\ UNCHANGED <<cn, fa, unit>>

-----------------------------------------------------------------------------
(* The thread of a connection                                              *)

To(c, pc) == cn' = [cn EXCEPT ![c].pc = pc]

(* connection_handshake(): nothing in 30 seconds, no data, a handshake     *)
(* that fails, or a certificate that is not valid.                         *)
HandshakeFails(c) ==
    /\ cn[c].pc = "handshake" /\ To(c, "end")
    /\ UNCHANGED <<sv, fa, unit>>

HandshakePlain(c) ==
    /\ cn[c].pc = "handshake" /\ To(c, "metadata")
    /\ UNCHANGED <<sv, fa, unit>>

(* The file of a certificate has no name until it is complete: creating,   *)
(* writing and linking it succeed together or leave nothing.               *)
WriteCertificate == IF Faults THEN BOOLEAN ELSE {TRUE}

(* client_certificate_accept(): a file for the certificate is written and  *)
(* then linked, or the connection ends.                                    *)
CertificateAccept(c) ==
    /\ cn[c].pc = "handshake" /\ Certificate
    /\ \E i \in Instances, linked \in WriteCertificate :
         cn' = [cn EXCEPT ![c] =
                  IF i = "nil" \/ linked
                  THEN [@ EXCEPT !.pc = "metadata", !.inst = i, !.file = i # "nil"]
                  ELSE [@ EXCEPT !.pc = "end"]]
    /\ UNCHANGED <<sv, fa, unit>>

(* connection_create_metadata()                                            *)
CreateMetadata(c) ==
    /\ cn[c].pc = "metadata"
    /\ \/ cn' = [cn EXCEPT ![c].pc = "connect",
                           ![c].meta = IF cn[c].file THEN cn[c].inst ELSE "none"]
       \/ Faults /\ To(c, "end")
    /\ UNCHANGED <<sv, fa, unit>>

(* connection_connect_to_wsinstance(): there is no socket, neither from    *)
(* the system nor from httpredirect.c, or http.sock refuses.               *)
ConnectFails(c) ==
    /\ Faults /\ cn[c].pc = "connect" /\ To(c, "end")
    /\ UNCHANGED <<sv, fa, unit>>

(* connection_connect_to_wsinstance() without TLS: the http instance, for  *)
(* the local host or when https is not required, or httpredirect.c         *)
ConnectHttp(c) ==
    /\ cn[c].pc = "connect" /\ cn[c].inst = "none"
    /\ \E local \in BOOLEAN :
         cn' = [cn EXCEPT ![c].pc = "loop",
                          ![c].to = IF RequireHttps /\ ~local THEN "redirect" ELSE "http"]
    /\ UNCHANGED <<sv, fa, unit>>

(* connection_connect_to_dynamic_wsinstance(): the first attempt; without  *)
(* a socket the factory is asked.                                          *)
ConnectFirst(c) ==
    /\ cn[c].pc = "connect" /\ cn[c].inst # "none"
    /\ IF unit.at[cn[c].inst] = "listening"
       THEN /\ cn' = [cn EXCEPT ![c].pc = "loop", ![c].to = cn[c].inst]
            /\ UNCHANGED fa
       ELSE /\ To(c, "request")
            /\ fa' = [fa EXCEPT ![c] = [NoFactory EXCEPT !.pc = "start", !.inst = cn[c].inst]]
    /\ UNCHANGED <<sv, unit>>

(* request_dynamic_wsinstance(): the reply, the end of the factory, or no  *)
(* answer in time; only "done" makes another attempt.                      *)
RequestEnds(c) ==
    /\ cn[c].pc = "request"
    /\ fa[c].pc = "end" \/ Faults
    /\ To(c, IF fa[c].reply = "done" THEN "again" ELSE "end")
    /\ UNCHANGED <<sv, fa, unit>>

ConnectAgain(c) ==
    /\ cn[c].pc = "again"
    /\ IF unit.at[cn[c].inst] = "listening"
       THEN cn' = [cn EXCEPT ![c].pc = "loop", ![c].to = cn[c].inst]
       ELSE To(c, "end")
    /\ UNCHANGED <<sv, fa, unit>>

(* connection_thread_loop() is module TlsConnection.                       *)
LoopEnds(c) ==
    /\ cn[c].pc = "loop" /\ To(c, "end")
    /\ UNCHANGED <<sv, fa, unit>>

(* connection_thread_main() after the loop: the file is unlinked, and the  *)
(* sockets are closed.                                                     *)
Cleanup(c) ==
    /\ cn[c].pc = "end"
    /\ cn' = [cn EXCEPT ![c].pc = "closing", ![c].file = FALSE]
    /\ UNCHANGED <<sv, fa, unit>>

(* server_connection_thread_start_routine() under the mutex                *)
ThreadEnds(c) ==
    /\ cn[c].pc = "closing" /\ To(c, "closed")
    /\ sv' = [sv EXCEPT !.count = @ - 1, !.timer = IF sv.count = 1 THEN "armed" ELSE @]
    /\ UNCHANGED <<fa, unit>>

-----------------------------------------------------------------------------
(* The factory and systemd                                                 *)

(* main() of the factory: the match for JobRemoved is there before the     *)
(* call of StartUnit; a job for a unit that is up is done at once.         *)
FactoryCalls(c) ==
    /\ fa[c].pc = "start"
    /\ LET up == unit.at[fa[c].inst] = "listening"
       IN  /\ fa' = [fa EXCEPT ![c].pc = "called", ![c].own = ~up,
                                 ![c].queue = IF up THEN <<"done">> ELSE <<>>]
           /\ unit' = IF up THEN unit ELSE [unit EXCEPT !.at[fa[c].inst] = "starting"]
    /\ UNCHANGED <<sv, cn>>

(* A job of systemd ends: every factory that called for it is told.        *)
JobRemoved(i) ==
    /\ unit.at[i] = "starting"
    /\ \E result \in IF Faults THEN {"done", "failed"} ELSE {"done"} :
         /\ unit' = [unit EXCEPT !.at[i] = IF result = "done" THEN "listening" ELSE "absent"]
         /\ fa' = [c \in Conns |->
                     IF fa[c].inst = i /\ fa[c].own
                     THEN [fa[c] EXCEPT !.queue = Append(@, result), !.own = FALSE] ELSE fa[c]]
    /\ UNCHANGED <<sv, cn>>

(* Signals of other jobs                                                   *)
OtherJob(c) ==
    /\ Faults /\ fa[c].pc \in {"called", "wait"} /\ fa[c].queue = <<>>
    /\ fa' = [fa EXCEPT ![c].queue = Append(@, "other")]
    /\ UNCHANGED <<sv, cn, unit>>

(* A mutant of CallReturns: what came before the answer is thrown away.    *)
CallReturnsFresh(c) ==
    /\ fa[c].pc = "called"
    /\ fa' = [fa EXCEPT ![c].pc = "wait", ![c].job = TRUE, ![c].queue = <<>>]
    /\ UNCHANGED <<sv, cn, unit>>

(* The answer to StartUnit: job_path; signals that came before it are in   *)
(* the queue.                                                              *)
CallReturns(c) ==
    /\ fa[c].pc = "called"
    /\ fa' = [fa EXCEPT ![c].pc = "wait", ![c].job = TRUE]
    /\ UNCHANGED <<sv, cn, unit>>

(* sd_bus_process() and match_job_removed()                                *)
MatchJobRemoved(c) ==
    /\ fa[c].pc = "wait" /\ fa[c].queue # <<>> /\ fa[c].job
    /\ LET result == Head(fa[c].queue)
       IN  fa' = [fa EXCEPT ![c].queue = Tail(@), ![c].job = result = "other",
                            ![c].pc = IF result = "other" THEN @ ELSE "end",
                            ![c].reply = IF result = "other" THEN @ ELSE result]
    /\ UNCHANGED <<sv, cn, unit>>

(* Nothing in 20 seconds, or an error of the bus                           *)
FactoryGivesUp(c) ==
    /\ Faults /\ fa[c].pc \in {"start", "called", "wait"}
    /\ fa' = [fa EXCEPT ![c].pc = "end", ![c].own = FALSE]
    /\ UNCHANGED <<sv, cn, unit>>

(* An instance is stopped.                                                 *)
UnitStops(i) ==
    /\ unit.stops < Restarts /\ unit.at[i] = "listening"
    /\ unit' = [at |-> [unit.at EXCEPT ![i] = "absent"], stops |-> unit.stops + 1]
    /\ UNCHANGED <<sv, cn, fa>>

-----------------------------------------------------------------------------
Handshake(c) == HandshakeFails(c) \/ HandshakePlain(c) \/ CertificateAccept(c)

ThreadStep(c) ==
    \/ Handshake(c) \/ CreateMetadata(c) \/ ConnectFails(c) \/ ConnectHttp(c) \/ ConnectFirst(c)
    \/ RequestEnds(c) \/ ConnectAgain(c) \/ LoopEnds(c) \/ Cleanup(c) \/ ThreadEnds(c)

FactoryStep(c) ==
    FactoryCalls(c) \/ CallReturns(c) \/ MatchJobRemoved(c) \/ FactoryGivesUp(c)

MainStep == HandleAccept \/ CountUp \/ Spawn \/ IdleTimeout

Next ==
    \/ Connect \/ TimerFires \/ MainStep
    \/ \E c \in Conns : sv.pc # "exited" /\ ThreadStep(c)
    \/ \E c \in Conns : FactoryStep(c) \/ OtherJob(c)
    \/ \E i \in Instances : JobRemoved(i) \/ UnitStops(i)

Spec == Init /\ [][Next]_vars

-----------------------------------------------------------------------------
TypeOK ==
    /\ sv.count \in 0..Cardinality(Conns) /\ sv.timer \in {"off", "armed", "fired"}
    /\ \A c \in Conns : Len(fa[c].queue) <= 2 /\ cn[c].inst \in Instances \cup {"none"}

(* assert (server.connection_count == 0) in server_cleanup(): the server   *)
(* stops only when no connection has a thread, so that none loses its      *)
(* process, its directories or the mutex.                                  *)
StopsIdle == sv.pc = "exited" => sv.count = 0 /\ Threads = {}

(* The timer runs exactly while nothing is counted, across the steps of    *)
(* the threads and of the main thread.                                     *)
TimerFollows == sv.timer = "off" <=> sv.count > 0

(* The file of a certificate is there only while its connection is, and    *)
(* an instance is told of a certificate only with its file in place.       *)
FileWhileConnected ==
    \A c \in Conns :
      /\ cn[c].file => cn[c].pc \in {"metadata", "connect", "request", "again", "loop", "end"}
      /\ cn[c].pc = "loop" /\ cn[c].meta # "none" => cn[c].file /\ cn[c].to = cn[c].meta

(* A factory that says "done" has seen its job end that way.               *)
DoneIsDone ==
    \A c \in Conns : fa[c].reply = "done" /\ unit.stops = 0 => unit.at[fa[c].inst] = "listening"

(* Without faults, and unless systemd stops it, every client with TLS gets *)
(* to its instance, also when several ask for it at a time:                *)
(* Asks(c) ~> Served(c).                                                   *)
Asks(c) == cn[c].pc = "connect"
Served(c) == cn[c].pc = "loop"

(* What the comment on server_init() says of @idle_timeout: the server     *)
(* stops after a time with no connections.  AllClosed ~> Stopped.          *)
AllClosed == \A c \in Conns : cn[c].pc = "closed"
Stopped == sv.pc = "exited"

-----------------------------------------------------------------------------
(* The invariant that the safety properties follow from.                   *)

Conn ==
    [pc : {"none", "backlog", "taken", "handshake", "metadata", "connect", "request", "again",
           "loop", "end", "closing", "closed"},
     inst : Instances \cup {"none"}, file : BOOLEAN, meta : Instances \cup {"none"},
     to : Instances \cup {"none", "http", "redirect"}]

Factory ==
    [pc : {"none", "start", "called", "wait", "end"}, inst : Instances \cup {"none"},
     job : BOOLEAN, queue : Seq({"done", "failed", "other"}), own : BOOLEAN,
     reply : {"none", "done", "failed"}]

StateOK ==
    /\ sv \in [pc : {"poll", "count", "spawn", "exited"}, new : Nat, count : Nat,
               timer : {"off", "armed", "fired"}]
    /\ cn \in [Conns -> Conn] /\ fa \in [Conns -> Factory]
    /\ unit \in [at : [Instances -> {"absent", "starting", "listening"}], stops : Nat]

(* The connections that handle_accept() has counted: all of them, and the  *)
(* ones of which the count has not been taken back.                        *)
New == IF sv.pc = "spawn" THEN {sv.new} ELSE {}
Counted == New \cup {c \in Conns : cn[c].pc \notin {"none", "backlog", "taken"}}
Running == New \cup Threads

(* The count is at least that of the threads.  It may be more: when        *)
(* pthread_create() fails, the count is not taken back.                    *)
CountKept ==
    /\ sv.count <= Cardinality(Counted)
    /\ Cardinality(Running) <= sv.count
    /\ sv.pc \in {"count", "spawn"} => sv.new \in Conns /\ cn[sv.new].pc = "taken"
    /\ sv.timer = "off" <=> sv.count > 0
    /\ sv.pc = "exited" => sv.count = 0

(* What a connection knows of its certificate, step by step.               *)
CertificateKept(x) ==
    /\ x.file => x.pc \in {"metadata", "connect", "request", "again", "loop", "end"}
    /\ x.pc \in {"none", "backlog", "taken", "handshake"} =>
         ~x.file /\ x.inst = "none" /\ x.meta = "none" /\ x.to = "none"
    /\ x.pc = "metadata" => x.meta = "none"
    /\ x.pc \in {"connect", "request", "again", "loop"} /\ x.meta # "none"
         => x.file /\ x.inst = x.meta
    /\ x.pc \in {"request", "again"} => x.inst # "none"
    /\ x.pc = "loop" /\ x.meta # "none" => x.to = x.meta

(* What a factory has heard of its job, and what has become of the unit.   *)
JobKept(y) ==
    /\ y.pc \in {"none", "start"} => y.queue = <<>> /\ ~y.own /\ y.reply = "none"
    /\ y.pc # "none" => y.inst \in Instances
    /\ Len(y.queue) <= 2 /\ (y.own => Len(y.queue) <= 1)
    /\ (y.reply = "done" \/ \E k \in 1..Len(y.queue) : y.queue[k] = "done") /\ unit.stops = 0
         => unit.at[y.inst] = "listening"

ServerInv ==
    /\ StateOK
    /\ CountKept
    /\ \A c \in Conns : CertificateKept(cn[c]) /\ JobKept(fa[c])

(* What the runs check of the server.                                      *)
ServerSafe == TypeOK /\ StopsIdle /\ TimerFollows /\ FileWhileConnected /\ DoneIsDone

-----------------------------------------------------------------------------
(* The server starts with nothing counted and the timer armed.             *)
LEMMA ServerInit == ASSUME TlsServerAssumption, Init PROVE ServerInv
<1>1. StateOK
  BY DEF Init, StateOK, Conn, Factory, NoConn, NoFactory, Instances
<1>2. Counted = {} /\ Running = {}
  BY DEF Init, Counted, Running, New, Threads, NoConn
<1>3. CountKept
  BY <1>2, FS_EmptySet DEF Init, CountKept
<1>4. ASSUME NEW c \in Conns PROVE CertificateKept(cn[c]) /\ JobKept(fa[c])
  BY DEF Init, CertificateKept, JobKept, NoConn, NoFactory
<1> QED
  BY <1>1, <1>3, <1>4 DEF ServerInv

(* The invariant gives the properties.                                     *)
LEMMA ServerImplies == ASSUME TlsServerAssumption, ServerInv PROVE ServerSafe
<1>1. IsFiniteSet(Counted) /\ Cardinality(Counted) <= Cardinality(Conns)
  <2>1. Counted \subseteq Conns
    BY DEF ServerInv, CountKept, Counted, New
  <2> QED
    BY <2>1, FS_Subset DEF TlsServerAssumption
<1>2. Cardinality(Counted) \in Nat /\ Cardinality(Conns) \in Nat
  BY <1>1, FS_CardinalityType DEF TlsServerAssumption
<1>3. TypeOK
  <2>1. sv.count \in 0..Cardinality(Conns)
    BY <1>1, <1>2 DEF ServerInv, StateOK, CountKept
  <2>2. ASSUME NEW c \in Conns PROVE Len(fa[c].queue) <= 2 /\ cn[c].inst \in Instances \cup {"none"}
    BY DEF ServerInv, StateOK, JobKept, Conn
  <2> QED
    BY <2>1, <2>2 DEF TypeOK, ServerInv, StateOK
<1>4. StopsIdle
  <2>1. Running \subseteq Conns
    BY DEF ServerInv, CountKept, Running, New, Threads
  <2>2. IsFiniteSet(Running) /\ Cardinality(Running) \in Nat
    BY <2>1, FS_Subset, FS_CardinalityType DEF TlsServerAssumption
  <2>3. sv.pc = "exited" => sv.count = 0 /\ Cardinality(Running) = 0
    BY <2>2 DEF ServerInv, CountKept, StateOK
  <2>4. sv.pc = "exited" => Running = {}
    BY <2>2, <2>3, FS_EmptySet
  <2> QED
    BY <2>3, <2>4 DEF StopsIdle, Running
<1>5. TimerFollows
  BY DEF TimerFollows, ServerInv, CountKept
<1>6. FileWhileConnected
  BY DEF FileWhileConnected, ServerInv, CertificateKept
<1>7. DoneIsDone
  BY DEF DoneIsDone, ServerInv, JobKept
<1> QED
  BY <1>3, <1>4, <1>5, <1>6, <1>7 DEF ServerSafe


-----------------------------------------------------------------------------
(* The places of a thread from its start until its end is counted.         *)
Alive == {"handshake", "metadata", "connect", "request", "again", "loop", "end", "closing"}

(* Sets of connections are finite.                                         *)
LEMMA ConnsFinite ==
    ASSUME TlsServerAssumption, NEW S \in SUBSET Conns
    PROVE  IsFiniteSet(S) /\ Cardinality(S) \in Nat
BY FS_Subset, FS_CardinalityType DEF TlsServerAssumption

(* A thread that goes on changes nothing of the count.                     *)
LEMMA ThreadGoesOn ==
    ASSUME ServerInv, UNCHANGED sv, NEW c \in Conns,
           \A d \in Conns \ {c} : cn'[d] = cn[d], cn[c].pc \in Alive, cn'[c].pc \in Alive
    PROVE  CountKept'
<1>1. New' = New
  BY DEF New
<1>2. Counted' = Counted /\ Running' = Running
  BY <1>1 DEF Counted, Running, Threads, Alive
<1>3. sv.pc \in {"count", "spawn"} => sv.new \in Conns /\ cn'[sv.new].pc = "taken"
  BY DEF ServerInv, CountKept, Alive
<1> QED
  BY <1>2, <1>3 DEF ServerInv, CountKept

(* A step of a connection that leaves units and factories alone keeps the  *)
(* invariant if it does so for the connection and for the count.           *)
LEMMA ConnMoves ==
    ASSUME ServerInv, UNCHANGED <<fa, unit>>, NEW c \in Conns, NEW x \in Conn,
           cn' = [cn EXCEPT ![c] = x], CertificateKept(x), CountKept',
           sv' \in [pc : {"poll", "count", "spawn", "exited"}, new : Nat, count : Nat,
                    timer : {"off", "armed", "fired"}]
    PROVE  ServerInv'
<1>1. StateOK'
  BY DEF ServerInv, StateOK
<1>2. ASSUME NEW d \in Conns PROVE CertificateKept(cn[d])' /\ JobKept(fa[d])'
  <2>1. CertificateKept(cn'[d])
    BY DEF ServerInv, StateOK
  <2>2. JobKept(fa[d])
    BY DEF ServerInv
  <2> QED
    BY <2>1, <2>2 DEF CertificateKept, JobKept
<1> QED
  BY <1>1, <1>2 DEF ServerInv

(* A connection in the backlog is accepted.                                *)
LEMMA AcceptKeeps ==
    ASSUME TlsServerAssumption, ServerInv, Connect \/ HandleAccept PROVE ServerInv'
<1>1. CASE Connect
  <2>1. PICK c \in Conns : cn[c].pc = "none" /\ cn' = [cn EXCEPT ![c].pc = "backlog"]
    BY <1>1 DEF Connect
  <2> DEFINE x == [cn[c] EXCEPT !.pc = "backlog"]
  <2>2. cn' = [cn EXCEPT ![c] = x] /\ x \in Conn /\ UNCHANGED <<sv, fa, unit>>
    <3>1. UNCHANGED <<sv, fa, unit>>
      BY <1>1 DEF Connect
    <3>2. cn \in [Conns -> Conn] /\ cn[c] \in Conn
      BY DEF ServerInv, StateOK
    <3>3. x \in Conn
      BY <3>2 DEF Conn
    <3>4. cn' = [cn EXCEPT ![c] = x]
      BY <2>1
    <3> QED
      BY <3>1, <3>3, <3>4
  <2>3. CertificateKept(x)
    BY <2>1 DEF ServerInv, StateOK, Conn, CertificateKept
  <2>4. Counted' = Counted /\ Running' = Running
    BY <2>1, <2>2 DEF Counted, Running, Threads, New, ServerInv, StateOK, Conn
  <2>5. sv.pc \in {"count", "spawn"} => sv.new \in Conns /\ cn'[sv.new].pc = "taken"
    BY <2>1, <2>2 DEF ServerInv, CountKept
  <2>6. CountKept'
    BY <2>2, <2>4, <2>5 DEF ServerInv, CountKept
  <2> HIDE DEF x
  <2> QED
    BY <2>2, <2>3, <2>6, ConnMoves DEF ServerInv, StateOK
<1>2. CASE HandleAccept
  <2>1. PICK c \in Conns : /\ cn[c].pc = "backlog" /\ cn' = [cn EXCEPT ![c].pc = "taken"]
                           /\ sv' = [sv EXCEPT !.pc = "count", !.new = c]
    BY <1>2 DEF HandleAccept
  <2> DEFINE x == [cn[c] EXCEPT !.pc = "taken"]
  <2>a. UNCHANGED <<fa, unit>> /\ sv.pc = "poll"
    BY <1>2 DEF HandleAccept
  <2>b. cn' = [cn EXCEPT ![c] = x] /\ x \in Conn
    BY <2>1 DEF ServerInv, StateOK, Conn
  <2>2. cn' = [cn EXCEPT ![c] = x] /\ x \in Conn /\ UNCHANGED <<fa, unit>> /\ sv.pc = "poll"
    BY <2>a, <2>b
  <2>3. CertificateKept(x)
    BY <2>1 DEF ServerInv, StateOK, Conn, CertificateKept
  <2>4. /\ sv' \in [pc : {"poll", "count", "spawn", "exited"}, new : Nat, count : Nat,
                    timer : {"off", "armed", "fired"}]
        /\ sv'.pc = "count" /\ sv'.new = c /\ sv'.count = sv.count /\ sv'.timer = sv.timer
    BY <2>1 DEF ServerInv, StateOK, TlsServerAssumption
  <2>5. Counted' = Counted /\ Running' = Running
    BY <2>1, <2>2, <2>4 DEF Counted, Running, Threads, New, ServerInv, StateOK, Conn
  <2>6. cn'[c].pc = "taken"
    BY <2>2 DEF ServerInv, StateOK, Conn
  <2>7. CountKept'
    BY <2>4, <2>5, <2>6 DEF ServerInv, CountKept
  <2> HIDE DEF x
  <2> QED
    BY <2>2, <2>3, <2>4, <2>7, ConnMoves
<1> QED
  BY <1>1, <1>2

(* The main thread counts a connection, under the mutex.                   *)
LEMMA CountUpKeeps ==
    ASSUME TlsServerAssumption, ServerInv, CountUp PROVE ServerInv'
<1> DEFINE c == sv.new
<1>1. /\ sv.pc = "count" /\ sv'.pc = "spawn" /\ sv'.new = c /\ sv'.count = sv.count + 1
      /\ sv'.timer = IF sv.count = 0 THEN "off" ELSE sv.timer
      /\ UNCHANGED <<cn, fa, unit>>
  BY DEF CountUp, ServerInv, StateOK
<1>2. c \in Conns /\ cn[c].pc = "taken"
  BY <1>1 DEF ServerInv, CountKept
<1>3. /\ Counted' = Counted \cup {c} /\ Running' = Running \cup {c}
      /\ c \notin Counted /\ c \notin Running
      /\ Counted \subseteq Conns /\ Running \subseteq Conns
  BY <1>1, <1>2 DEF Counted, Running, Threads, New
<1>4. /\ Cardinality(Counted') = Cardinality(Counted) + 1
      /\ Cardinality(Running') = Cardinality(Running) + 1
      /\ Cardinality(Counted) \in Nat /\ Cardinality(Running) \in Nat
  BY <1>3, ConnsFinite, FS_AddElement
<1>5. StateOK'
  <2>1. sv \in [pc : {"poll", "count", "spawn", "exited"}, new : Nat, count : Nat,
                timer : {"off", "armed", "fired"}]
    BY DEF ServerInv, StateOK
  <2> DEFINE t == IF sv.count = 0 THEN "off" ELSE sv.timer
             n == sv.count + 1
  <2>2. sv' = [sv EXCEPT !.pc = "spawn", !.count = n, !.timer = t]
    BY DEF CountUp
  <2>a. t \in {"off", "armed", "fired"} /\ n \in Nat
    BY <2>1
  <2> HIDE DEF t, n
  <2>3. sv' \in [pc : {"poll", "count", "spawn", "exited"}, new : Nat, count : Nat,
                 timer : {"off", "armed", "fired"}]
    BY <2>a, <2>1, <2>2
  <2> QED
    BY <1>1, <2>3 DEF ServerInv, StateOK
<1>6. CountKept'
  BY <1>1, <1>2, <1>4 DEF ServerInv, CountKept, StateOK
<1>7. ASSUME NEW d \in Conns PROVE CertificateKept(cn[d])' /\ JobKept(fa[d])'
  BY <1>1 DEF ServerInv, CertificateKept, JobKept
<1> QED
  BY <1>5, <1>6, <1>7 DEF ServerInv

(* The thread of a connection is created, or the connection closed.        *)
LEMMA SpawnKeeps ==
    ASSUME TlsServerAssumption, ServerInv, Spawn PROVE ServerInv'
<1> DEFINE c == sv.new
<1>1. PICK pc \in {"handshake", "closed"} : cn' = [cn EXCEPT ![c].pc = pc]
  BY DEF Spawn
<1>2. /\ sv.pc = "spawn" /\ c \in Conns /\ cn[c].pc = "taken"
      /\ sv'.pc = "poll" /\ sv'.count = sv.count /\ sv'.timer = sv.timer
      /\ sv' \in [pc : {"poll", "count", "spawn", "exited"}, new : Nat, count : Nat,
                  timer : {"off", "armed", "fired"}]
      /\ UNCHANGED <<fa, unit>>
  BY DEF Spawn, ServerInv, StateOK, CountKept
<1> DEFINE x == [cn[c] EXCEPT !.pc = pc]
<1>3. cn' = [cn EXCEPT ![c] = x] /\ x \in Conn /\ x.pc = pc
  BY <1>1, <1>2 DEF ServerInv, StateOK, Conn
<1>4. CertificateKept(x)
  BY <1>2 DEF ServerInv, StateOK, Conn, CertificateKept
<1> HIDE DEF x
<1>5. \A d \in Conns : cn'[d].pc = IF d = c THEN pc ELSE cn[d].pc
  BY <1>2, <1>3 DEF ServerInv, StateOK
<1>6. /\ Counted' = Counted /\ Running' \subseteq Running
      /\ Counted \subseteq Conns /\ Running \subseteq Conns
  BY <1>2, <1>5 DEF Counted, Running, Threads, New
<1>7. Cardinality(Running') <= Cardinality(Running) /\ Cardinality(Running') \in Nat
      /\ Cardinality(Running) \in Nat
  BY <1>6, ConnsFinite, FS_Subset
<1>8. CountKept'
  BY <1>2, <1>6, <1>7 DEF ServerInv, CountKept, StateOK
<1> QED
  BY <1>2, <1>3, <1>4, <1>8, ConnMoves

(* The timer fires, and the main thread leaves its loop.                   *)
LEMMA TimerKeeps ==
    ASSUME TlsServerAssumption, ServerInv, TimerFires \/ IdleTimeout PROVE ServerInv'
<1>1. /\ UNCHANGED <<cn, fa, unit>> /\ sv'.count = sv.count /\ sv'.new = sv.new
      /\ sv' \in [pc : {"poll", "count", "spawn", "exited"}, new : Nat, count : Nat,
                  timer : {"off", "armed", "fired"}]
      /\ \/ sv'.pc = sv.pc /\ sv.timer = "armed" /\ sv'.timer = "fired"
         \/ sv.pc = "poll" /\ sv'.pc = "exited" /\ sv.timer = "fired" /\ sv'.timer = "fired"
  BY DEF TimerFires, IdleTimeout, ServerInv, StateOK
<1>2. New' = New /\ Counted' = Counted /\ Running' = Running
  BY <1>1 DEF New, Counted, Running, Threads
<1>3. CountKept'
  BY <1>1, <1>2 DEF ServerInv, CountKept, StateOK
<1>4. StateOK'
  BY <1>1 DEF ServerInv, StateOK
<1>5. ASSUME NEW d \in Conns PROVE CertificateKept(cn[d])' /\ JobKept(fa[d])'
  BY <1>1 DEF ServerInv, CertificateKept, JobKept
<1> QED
  BY <1>3, <1>4, <1>5 DEF ServerInv


(* A thread goes on to `pc' with what it has got.                          *)
LEMMA ThreadKeeps ==
    ASSUME ServerInv, UNCHANGED <<sv, fa, unit>>, NEW c \in Conns, NEW x \in Conn,
           cn' = [cn EXCEPT ![c] = x], CertificateKept(x), cn[c].pc \in Alive, x.pc \in Alive
    PROVE  ServerInv'
<1>1. cn'[c] = x /\ \A d \in Conns \ {c} : cn'[d] = cn[d]
  BY DEF ServerInv, StateOK
<1>2. CountKept'
  BY <1>1, ThreadGoesOn
<1> QED
  BY <1>2, ConnMoves DEF ServerInv, StateOK

(* The handshake with a client, with or without TLS and a certificate.     *)
LEMMA HandshakeKeeps ==
    ASSUME ServerInv, NEW c \in Conns, Handshake(c) PROVE ServerInv'
<1>0. cn[c] \in Conn /\ cn[c].pc = "handshake" /\ CertificateKept(cn[c]) /\ UNCHANGED <<sv, fa, unit>>
      /\ cn \in [Conns -> Conn]
  BY DEF Handshake, HandshakeFails, HandshakePlain, CertificateAccept, ServerInv, StateOK
<1>1. ASSUME NEW pc \in {"metadata", "end"}, To(c, pc) PROVE ServerInv'
  <2> DEFINE x == [cn[c] EXCEPT !.pc = pc]
  <2>1. cn' = [cn EXCEPT ![c] = x] /\ x \in Conn /\ x.pc \in Alive
    BY <1>0, <1>1 DEF To, Conn, Alive
  <2>2. CertificateKept(x)
    BY <1>0 DEF Conn, CertificateKept
  <2> HIDE DEF x
  <2> QED
    BY <1>0, <2>1, <2>2, ThreadKeeps DEF Alive
<1>2. CASE CertificateAccept(c)
  <2>1. PICK i \in Instances, linked \in BOOLEAN :
               cn' = [cn EXCEPT ![c] =
                        IF i = "nil" \/ linked
                        THEN [cn[c] EXCEPT !.pc = "metadata", !.inst = i, !.file = i # "nil"]
                        ELSE [cn[c] EXCEPT !.pc = "end"]]
    BY <1>0, <1>2 DEF CertificateAccept, WriteCertificate
  <2> DEFINE x == IF i = "nil" \/ linked
                  THEN [cn[c] EXCEPT !.pc = "metadata", !.inst = i, !.file = i # "nil"]
                  ELSE [cn[c] EXCEPT !.pc = "end"]
  <2>2. x \in Conn /\ x.pc \in Alive
    <3>1. (i # "nil") \in BOOLEAN
      OBVIOUS
    <3> QED
      BY <1>0, <3>1 DEF Conn, Alive
  <2>3. CertificateKept(x)
    BY <1>0 DEF Conn, CertificateKept
  <2> HIDE DEF x
  <2> QED
    BY <1>0, <2>1, <2>2, <2>3, ThreadKeeps DEF Alive, x
<1> QED
  BY <1>1, <1>2 DEF Handshake, HandshakeFails, HandshakePlain

(* The steps of a thread that only move it on.                             *)
LEMMA MovesKeep ==
    ASSUME ServerInv, NEW c \in Conns,
           CreateMetadata(c) \/ ConnectHttp(c) \/ RequestEnds(c) \/ ConnectAgain(c)
             \/ LoopEnds(c) \/ Cleanup(c) \/ ConnectFails(c)
    PROVE  ServerInv'
<1>0. cn[c] \in Conn /\ CertificateKept(cn[c]) /\ cn \in [Conns -> Conn] /\ UNCHANGED <<sv, fa, unit>>
  BY DEF CreateMetadata, ConnectHttp, RequestEnds, ConnectAgain, LoopEnds, Cleanup, ConnectFails,
         ServerInv, StateOK
<1>1. ASSUME NEW x \in Conn, cn' = [cn EXCEPT ![c] = x], CertificateKept(x),
             cn[c].pc \in Alive, x.pc \in Alive
      PROVE  ServerInv'
  BY <1>0, <1>1, ThreadKeeps
<1>2. ASSUME To(c, "end"), cn[c].pc \in Alive \ {"closing"} PROVE ServerInv'
  <2> DEFINE x == [cn[c] EXCEPT !.pc = "end"]
  <2>1. cn' = [cn EXCEPT ![c] = x] /\ x \in Conn /\ x.pc \in Alive
    BY <1>0, <1>2 DEF To, Conn, Alive
  <2>2. CertificateKept(x)
    BY <1>0, <1>2 DEF Conn, CertificateKept, Alive
  <2> HIDE DEF x
  <2> QED
    BY <1>1, <1>2, <2>1, <2>2
<1>3. CASE CreateMetadata(c)
  <2>1. cn[c].pc = "metadata" /\ cn[c].pc \in Alive \ {"closing"}
    BY <1>3 DEF CreateMetadata, Alive
  <2> DEFINE m == IF cn[c].file THEN cn[c].inst ELSE "none"
             x == [cn[c] EXCEPT !.pc = "connect", !.meta = m]
  <2>2. CASE cn' = [cn EXCEPT ![c].pc = "connect", ![c].meta = m]
    <3>1. cn' = [cn EXCEPT ![c] = x] /\ x \in Conn /\ x.pc \in Alive
      BY <1>0, <2>2 DEF Conn, Alive
    <3>2. CertificateKept(x)
      BY <1>0, <2>1 DEF Conn, CertificateKept
    <3> HIDE DEF x
    <3> QED
      BY <1>1, <2>1, <3>1, <3>2
  <2> QED
    BY <1>2, <1>3, <2>1, <2>2 DEF CreateMetadata
<1>4. CASE ConnectHttp(c)
  <2>1. PICK to \in {"redirect", "http"} : cn' = [cn EXCEPT ![c].pc = "loop", ![c].to = to]
    BY <1>4 DEF ConnectHttp
  <2> DEFINE x == [cn[c] EXCEPT !.pc = "loop", !.to = to]
  <2>2. cn' = [cn EXCEPT ![c] = x] /\ x \in Conn /\ x.pc \in Alive /\ cn[c].pc \in Alive
    BY <1>0, <1>4, <2>1 DEF ConnectHttp, Conn, Alive
  <2>3. CertificateKept(x)
    BY <1>0, <1>4 DEF ConnectHttp, Conn, CertificateKept
  <2> HIDE DEF x
  <2> QED
    BY <1>1, <2>2, <2>3
<1>5. CASE RequestEnds(c)
  <2>1. cn[c].pc = "request" /\ (To(c, "again") \/ To(c, "end"))
    BY <1>5 DEF RequestEnds
  <2> DEFINE x == [cn[c] EXCEPT !.pc = "again"]
  <2>2. CASE To(c, "again")
    <3>1. cn' = [cn EXCEPT ![c] = x] /\ x \in Conn /\ x.pc \in Alive /\ cn[c].pc \in Alive
      BY <1>0, <2>1, <2>2 DEF To, Conn, Alive
    <3>2. CertificateKept(x)
      BY <1>0, <2>1 DEF Conn, CertificateKept
    <3> HIDE DEF x
    <3> QED
      BY <1>1, <3>1, <3>2
  <2> QED
    BY <1>2, <2>1, <2>2 DEF Alive
<1>6. CASE ConnectAgain(c)
  <2> DEFINE x == [cn[c] EXCEPT !.pc = "loop", !.to = cn[c].inst]
  <2>1. cn[c].pc = "again" /\ (To(c, "end") \/ cn' = [cn EXCEPT ![c].pc = "loop", ![c].to = cn[c].inst])
    BY <1>6 DEF ConnectAgain
  <2>2. CASE cn' = [cn EXCEPT ![c].pc = "loop", ![c].to = cn[c].inst]
    <3>1. cn' = [cn EXCEPT ![c] = x] /\ x \in Conn /\ x.pc \in Alive /\ cn[c].pc \in Alive
      BY <1>0, <2>1, <2>2 DEF Conn, Alive
    <3>2. CertificateKept(x)
      BY <1>0, <2>1 DEF Conn, CertificateKept
    <3> HIDE DEF x
    <3> QED
      BY <1>1, <3>1, <3>2
  <2> QED
    BY <1>2, <2>1, <2>2 DEF Alive
<1>7. CASE LoopEnds(c)
  BY <1>2, <1>7 DEF LoopEnds, Alive
<1>8. CASE Cleanup(c)
  <2> DEFINE x == [cn[c] EXCEPT !.pc = "closing", !.file = FALSE]
  <2>1. cn' = [cn EXCEPT ![c] = x] /\ x \in Conn /\ x.pc \in Alive /\ cn[c].pc \in Alive
    BY <1>0, <1>8 DEF Cleanup, Conn, Alive
  <2>2. CertificateKept(x)
    BY <1>0, <1>8 DEF Cleanup, Conn, CertificateKept
  <2> HIDE DEF x
  <2> QED
    BY <1>1, <2>1, <2>2
<1>9. CASE ConnectFails(c)
  BY <1>2, <1>9 DEF ConnectFails, Alive
<1> QED
  BY <1>3, <1>4, <1>5, <1>6, <1>7, <1>8, <1>9

(* A thread has ended: the count goes down, and the last one arms the      *)
(* timer, both under the mutex.                                            *)
LEMMA ThreadEndsKeeps ==
    ASSUME TlsServerAssumption, ServerInv, NEW c \in Conns, ThreadEnds(c) PROVE ServerInv'
<1> DEFINE x == [cn[c] EXCEPT !.pc = "closed"]
<1>1. cn[c].pc = "closing" /\ cn[c] \in Conn /\ CertificateKept(cn[c]) /\ cn \in [Conns -> Conn]
      /\ UNCHANGED <<fa, unit>>
  BY DEF ThreadEnds, ServerInv, StateOK
<1>2. cn' = [cn EXCEPT ![c] = x] /\ x \in Conn /\ x.pc = "closed"
  BY <1>1 DEF ThreadEnds, To, Conn
<1>3. CertificateKept(x)
  BY <1>1 DEF Conn, CertificateKept
<1> HIDE DEF x
<1>4. \A d \in Conns : cn'[d].pc = IF d = c THEN "closed" ELSE cn[d].pc
  BY <1>1, <1>2
<1>5. c \in Running /\ Running \subseteq Conns /\ Counted \subseteq Conns
  BY <1>1 DEF Running, Threads, Counted, New, ServerInv, CountKept
<1>6. Cardinality(Running) \in Nat /\ IsFiniteSet(Running) /\ Cardinality(Running) > 0
      /\ Cardinality(Counted) \in Nat
  BY <1>5, ConnsFinite, FS_EmptySet
<1>7. /\ sv'.pc = sv.pc /\ sv'.new = sv.new /\ sv'.count = sv.count - 1
      /\ sv'.timer = IF sv.count = 1 THEN "armed" ELSE sv.timer
      /\ sv.count \in Nat \ {0}
  BY <1>6 DEF ThreadEnds, ServerInv, StateOK, CountKept
<1>8. sv' \in [pc : {"poll", "count", "spawn", "exited"}, new : Nat, count : Nat,
               timer : {"off", "armed", "fired"}]
  <2> DEFINE t == IF sv.count = 1 THEN "armed" ELSE sv.timer
             n == sv.count - 1
  <2>1. sv' = [sv EXCEPT !.count = n, !.timer = t]
    BY DEF ThreadEnds
  <2>2. sv \in [pc : {"poll", "count", "spawn", "exited"}, new : Nat, count : Nat,
                timer : {"off", "armed", "fired"}]
    BY DEF ServerInv, StateOK
  <2>3. t \in {"off", "armed", "fired"} /\ n \in Nat
    BY <1>7, <2>2
  <2> HIDE DEF t, n
  <2> QED
    BY <2>1, <2>2, <2>3
<1>9. sv.pc = "spawn" => sv.new # c
  BY <1>1 DEF ServerInv, CountKept
<1>10. Running' = Running \ {c} /\ Counted' = Counted
  BY <1>1, <1>4, <1>7, <1>9 DEF Running, Threads, New, Counted
<1>11. Cardinality(Running') = Cardinality(Running) - 1
  BY <1>5, <1>6, <1>10, FS_RemoveElement
<1>12. CountKept'
  <2>1. sv.pc \in {"count", "spawn"} => sv.new \in Conns /\ cn'[sv.new].pc = "taken"
    BY <1>1, <1>4 DEF ServerInv, CountKept
  <2>2. sv.timer = "off" /\ sv.pc # "exited"
    BY <1>7 DEF ServerInv, CountKept
  <2>3. sv'.timer = "off" <=> sv'.count > 0
    BY <1>7, <2>2
  <2>4. sv'.count <= Cardinality(Counted') /\ Cardinality(Running') <= sv'.count
    BY <1>6, <1>7, <1>10, <1>11 DEF ServerInv, CountKept
  <2> QED
    BY <1>7, <2>1, <2>2, <2>3, <2>4 DEF CountKept
<1> QED
  BY <1>1, <1>2, <1>3, <1>8, <1>12, ConnMoves


(* A step of factories and units keeps the invariant if it does so for     *)
(* every factory.                                                          *)
LEMMA JobMoves ==
    ASSUME ServerInv, UNCHANGED <<sv, cn>>, fa' \in [Conns -> Factory],
           unit' \in [at : [Instances -> {"absent", "starting", "listening"}], stops : Nat],
           \A d \in Conns : JobKept(fa[d])'
    PROVE  ServerInv'
<1>1. StateOK'
  BY DEF ServerInv, StateOK
<1>2. New' = New /\ Counted' = Counted /\ Running' = Running
  BY DEF New, Counted, Running, Threads
<1>3. CountKept'
  BY <1>2 DEF ServerInv, CountKept
<1>4. \A d \in Conns : CertificateKept(cn[d])'
  BY DEF ServerInv, CertificateKept
<1> QED
  BY <1>1, <1>3, <1>4 DEF ServerInv

(* The first attempt to connect; without a socket a factory is started.    *)
LEMMA ConnectFirstKeeps ==
    ASSUME ServerInv, NEW c \in Conns, ConnectFirst(c) PROVE ServerInv'
<1>0. /\ cn[c] \in Conn /\ CertificateKept(cn[c]) /\ cn \in [Conns -> Conn] /\ fa \in [Conns -> Factory]
      /\ UNCHANGED <<sv, unit>> /\ cn[c].pc = "connect" /\ cn[c].inst # "none"
  BY DEF ConnectFirst, ServerInv, StateOK
<1>1. CASE unit.at[cn[c].inst] = "listening"
  <2> DEFINE x == [cn[c] EXCEPT !.pc = "loop", !.to = cn[c].inst]
  <2>1. cn' = [cn EXCEPT ![c] = x] /\ x \in Conn /\ x.pc \in Alive /\ cn[c].pc \in Alive /\ UNCHANGED fa
    BY <1>0, <1>1 DEF ConnectFirst, Conn, Alive
  <2>2. CertificateKept(x)
    BY <1>0 DEF Conn, CertificateKept
  <2> HIDE DEF x
  <2> QED
    BY <1>0, <2>1, <2>2, ThreadKeeps
<1>2. CASE unit.at[cn[c].inst] # "listening"
  <2> DEFINE x == [cn[c] EXCEPT !.pc = "request"]
             y == [NoFactory EXCEPT !.pc = "start", !.inst = cn[c].inst]
  <2>1. cn' = [cn EXCEPT ![c] = x] /\ fa' = [fa EXCEPT ![c] = y]
    BY <1>0, <1>2 DEF ConnectFirst, To
  <2>2. x \in Conn /\ x.pc \in Alive /\ cn[c].pc \in Alive /\ CertificateKept(x)
    BY <1>0 DEF Conn, Alive, CertificateKept
  <2>3. /\ y \in Factory /\ y.pc = "start" /\ y.inst \in Instances /\ y.queue = <<>>
        /\ ~y.own /\ y.reply = "none"
    <3>1. <<>> \in Seq({"done", "failed", "other"}) /\ cn[c].inst \in Instances
      BY <1>0 DEF Conn
    <3>2. NoFactory \in Factory /\ NoFactory.queue = <<>> /\ NoFactory.own = FALSE
          /\ NoFactory.reply = "none"
      BY <3>1 DEF NoFactory, Factory
    <3> QED
      BY <3>1, <3>2 DEF Factory
  <2> HIDE DEF x, y
  <2>4. cn' \in [Conns -> Conn] /\ cn'[c] = x /\ \A d \in Conns \ {c} : cn'[d] = cn[d]
    BY <1>0, <2>1, <2>2
  <2>5. fa' \in [Conns -> Factory] /\ fa'[c] = y /\ \A d \in Conns \ {c} : fa'[d] = fa[d]
    BY <1>0, <2>1, <2>3
  <2>6. StateOK'
    BY <1>0, <2>4, <2>5 DEF ServerInv, StateOK
  <2>7. CountKept'
    BY <1>0, <2>2, <2>4, ThreadGoesOn
  <2>8. ASSUME NEW d \in Conns PROVE CertificateKept(cn'[d])
    BY <2>2, <2>4 DEF ServerInv
  <2>9. ASSUME NEW d \in Conns PROVE JobKept(fa[d])'
    <3>1. CASE d = c
      <4>1. fa'[d] = y
        BY <2>5, <3>1
      <4> QED
        BY <2>3, <4>1 DEF JobKept
    <3>2. CASE d # c
      BY <1>0, <2>5, <3>2 DEF JobKept, ServerInv
    <3> QED
      BY <3>1, <3>2
  <2> QED
    BY <2>6, <2>7, <2>8, <2>9 DEF ServerInv, CertificateKept
<1> QED
  BY <1>1, <1>2

(* A unit that listens goes on to do so unless it is stopped, and what a   *)
(* factory has heard stays true.                                           *)
LEMMA HeardStays ==
    ASSUME ServerInv, NEW d \in Conns, fa'[d] = fa[d], unit'.stops \in Nat,
           unit'.stops = 0 => /\ unit.stops = 0
                              /\ \A i \in Instances : unit.at[i] = "listening" => unit'.at[i] = "listening"
    PROVE  JobKept(fa[d])'
<1>1. JobKept(fa[d]) /\ fa[d] \in Factory
  BY DEF ServerInv, StateOK
<1>2. fa[d].reply = "done" \/ (\E k \in 1..Len(fa[d].queue) : fa[d].queue[k] = "done")
        => fa[d].inst \in Instances
  BY <1>1 DEF JobKept, Factory
<1> QED
  BY <1>1, <1>2 DEF JobKept

(* The factory calls StartUnit, and gets the answer or gives up.           *)
LEMMA CallKeeps ==
    ASSUME ServerInv, NEW c \in Conns, FactoryCalls(c) \/ CallReturns(c) \/ FactoryGivesUp(c)
    PROVE  ServerInv'
<1>0. /\ fa \in [Conns -> Factory] /\ fa[c] \in Factory /\ JobKept(fa[c]) /\ UNCHANGED <<sv, cn>>
      /\ unit \in [at : [Instances -> {"absent", "starting", "listening"}], stops : Nat]
  BY DEF FactoryCalls, CallReturns, FactoryGivesUp, ServerInv, StateOK
<1>1. CASE FactoryCalls(c)
  <2> DEFINE up == unit.at[fa[c].inst] = "listening"
             y == [fa[c] EXCEPT !.pc = "called", !.own = ~up, !.queue = IF up THEN <<"done">> ELSE <<>>]
  <2>1. /\ fa[c].pc = "start" /\ fa' = [fa EXCEPT ![c] = y]
        /\ unit' = IF up THEN unit ELSE [unit EXCEPT !.at[fa[c].inst] = "starting"]
    BY <1>0, <1>1 DEF FactoryCalls
  <2>2. fa[c].inst \in Instances /\ fa[c].queue = <<>> /\ ~fa[c].own /\ fa[c].reply = "none"
    BY <1>0, <2>1 DEF JobKept
  <2>a. <<"done">> \in Seq({"done", "failed", "other"}) /\ <<>> \in Seq({"done", "failed", "other"})
    OBVIOUS
  <2>b. (~up) \in BOOLEAN
    OBVIOUS
  <2>3. (IF up THEN <<"done">> ELSE <<>>) \in Seq({"done", "failed", "other"}) /\ (~up) \in BOOLEAN
    BY <2>a, <2>b
  <2>4. /\ y \in Factory /\ y.pc = "called" /\ y.inst = fa[c].inst /\ y.reply = "none" /\ (up => ~y.own)
        /\ y.queue = IF up THEN <<"done">> ELSE <<>>
    BY <1>0, <2>2, <2>3 DEF Factory
  <2>5. /\ unit' \in [at : [Instances -> {"absent", "starting", "listening"}], stops : Nat]
        /\ unit'.stops = unit.stops
        /\ \A i \in Instances : unit.at[i] = "listening" => unit'.at[i] = "listening"
    BY <1>0, <2>1, <2>2
  <2>6. up => unit'.at[fa[c].inst] = "listening"
    BY <2>1
  <2> HIDE DEF y
  <2>7. fa' \in [Conns -> Factory] /\ fa'[c] = y /\ \A d \in Conns \ {c} : fa'[d] = fa[d]
    BY <1>0, <2>1, <2>4
  <2>8. ASSUME NEW d \in Conns PROVE JobKept(fa[d])'
    <3>1. CASE d = c
      <4>1. fa'[d] = y
        BY <2>7, <3>1
      <4>2. CASE up
        <5>1. y.queue = <<"done">> /\ Len(y.queue) = 1 /\ ~y.own
          BY <2>4, <4>2
        <5>2. unit'.at[y.inst] = "listening" /\ y.inst \in Instances /\ y.pc = "called"
          BY <2>2, <2>4, <2>6, <4>2
        <5> QED
          BY <4>1, <5>1, <5>2 DEF JobKept
      <4>3. CASE ~up
        <5>1. y.queue = <<>> /\ Len(y.queue) = 0
          BY <2>4, <4>3
        <5> QED
          BY <2>2, <2>4, <4>1, <5>1 DEF JobKept
      <4> QED
        BY <4>2, <4>3
    <3>2. CASE d # c
      BY <1>0, <2>5, <2>7, <3>2, HeardStays
    <3> QED
      BY <3>1, <3>2
  <2> QED
    BY <1>0, <2>5, <2>7, <2>8, JobMoves
<1>2. ASSUME NEW y \in Factory, fa' = [fa EXCEPT ![c] = y], UNCHANGED unit, fa[c].pc # "none",
             y.inst = fa[c].inst, y.queue = fa[c].queue, y.own \in {fa[c].own, FALSE},
             y.reply = fa[c].reply, y.pc \in {"wait", "end"}
      PROVE  ServerInv'
  <2>1. fa' \in [Conns -> Factory] /\ fa'[c] = y /\ \A d \in Conns \ {c} : fa'[d] = fa[d]
    BY <1>0, <1>2
  <2>2. ASSUME NEW d \in Conns PROVE JobKept(fa[d])'
    <3>1. CASE d = c
      <4>1. fa'[d] = y
        BY <2>1, <3>1
      <4> QED
        BY <1>0, <1>2, <4>1, ZenonT(60) DEF JobKept
    <3>2. CASE d # c
      BY <1>0, <1>2, <2>1, <3>2, HeardStays
    <3> QED
      BY <3>1, <3>2
  <2> QED
    BY <1>0, <1>2, <2>1, <2>2, JobMoves
<1>3. CASE CallReturns(c)
  <2> DEFINE y == [fa[c] EXCEPT !.pc = "wait", !.job = TRUE]
  <2>1. fa' = [fa EXCEPT ![c] = y] /\ UNCHANGED unit /\ fa[c].pc # "none"
    BY <1>0, <1>3 DEF CallReturns
  <2>2. /\ y \in Factory /\ y.inst = fa[c].inst /\ y.queue = fa[c].queue /\ y.own = fa[c].own
        /\ y.reply = fa[c].reply /\ y.pc = "wait"
    BY <1>0 DEF Factory
  <2> HIDE DEF y
  <2> QED
    BY <1>2, <2>1, <2>2
<1>4. CASE FactoryGivesUp(c)
  <2> DEFINE y == [fa[c] EXCEPT !.pc = "end", !.own = FALSE]
  <2>1. fa' = [fa EXCEPT ![c] = y] /\ UNCHANGED unit /\ fa[c].pc # "none"
    BY <1>0, <1>4 DEF FactoryGivesUp
  <2>2. /\ y \in Factory /\ y.inst = fa[c].inst /\ y.queue = fa[c].queue /\ y.own = FALSE
        /\ y.reply = fa[c].reply /\ y.pc = "end"
    BY <1>0 DEF Factory
  <2> HIDE DEF y
  <2> QED
    BY <1>2, <2>1, <2>2
<1> QED
  BY <1>1, <1>3, <1>4


(* A factory takes the signal of another job, or of its own.               *)
LEMMA SignalKeeps ==
    ASSUME ServerInv, NEW c \in Conns, OtherJob(c) \/ MatchJobRemoved(c) PROVE ServerInv'
<1>0. /\ fa \in [Conns -> Factory] /\ fa[c] \in Factory /\ JobKept(fa[c]) /\ UNCHANGED <<sv, cn, unit>>
      /\ unit \in [at : [Instances -> {"absent", "starting", "listening"}], stops : Nat]
  BY DEF OtherJob, MatchJobRemoved, ServerInv, StateOK
<1>1. ASSUME NEW y \in Factory, fa' = [fa EXCEPT ![c] = y], JobKept(y) PROVE ServerInv'
  <2>1. fa' \in [Conns -> Factory] /\ fa'[c] = y /\ \A d \in Conns \ {c} : fa'[d] = fa[d]
    BY <1>0, <1>1
  <2>2. ASSUME NEW d \in Conns PROVE JobKept(fa[d])'
    <3>1. CASE d = c
      <4>1. fa'[d] = y
        BY <2>1, <3>1
      <4> QED
        BY <1>0, <1>1, <4>1 DEF JobKept
    <3>2. CASE d # c
      BY <1>0, <2>1, <3>2, HeardStays
    <3> QED
      BY <3>1, <3>2
  <2> QED
    BY <1>0, <2>1, <2>2, JobMoves
<1>2. CASE OtherJob(c)
  <2> DEFINE y == [fa[c] EXCEPT !.queue = Append(fa[c].queue, "other")]
  <2>1. /\ fa' = [fa EXCEPT ![c] = y] /\ fa[c].pc \in {"called", "wait"} /\ fa[c].queue = <<>>
    BY <1>0, <1>2 DEF OtherJob
  <2>2. fa[c].queue \in Seq({"done", "failed", "other"})
    BY <1>0 DEF Factory
  <2>3. /\ Append(fa[c].queue, "other") \in Seq({"done", "failed", "other"})
        /\ Len(Append(fa[c].queue, "other")) = 1 /\ Append(fa[c].queue, "other")[1] = "other"
    BY <2>1, <2>2
  <2>4. /\ y \in Factory /\ y.pc = fa[c].pc /\ y.inst = fa[c].inst /\ y.reply = fa[c].reply
        /\ Len(y.queue) = 1 /\ y.queue[1] = "other"
    BY <1>0, <2>3 DEF Factory
  <2> HIDE DEF y
  <2>5. JobKept(y)
    BY <1>0, <2>1, <2>4 DEF JobKept
  <2> QED
    BY <1>1, <2>1, <2>4, <2>5
<1>3. CASE MatchJobRemoved(c)
  <2> DEFINE q == fa[c].queue
             h == Head(q)
             y == [fa[c] EXCEPT !.queue = Tail(q), !.job = h = "other",
                                !.pc = IF h = "other" THEN fa[c].pc ELSE "end",
                                !.reply = IF h = "other" THEN fa[c].reply ELSE h]
  <2>1. fa[c].pc = "wait" /\ q # <<>> /\ fa' = [fa EXCEPT ![c] = y]
    BY <1>0, <1>3 DEF MatchJobRemoved
  <2>2. q \in Seq({"done", "failed", "other"})
    BY <1>0 DEF Factory
  <2>3. /\ h \in {"done", "failed", "other"} /\ h = q[1] /\ Tail(q) \in Seq({"done", "failed", "other"})
        /\ Len(Tail(q)) = Len(q) - 1 /\ Len(q) \in Nat /\ Len(q) > 0
        /\ \A k \in 1..Len(Tail(q)) : Tail(q)[k] = q[k + 1]
    BY <2>1, <2>2
  <2>4. (h = "other") \in BOOLEAN
    OBVIOUS
  <2>5. /\ (IF h = "other" THEN fa[c].pc ELSE "end") \in {"wait", "end"}
        /\ (IF h = "other" THEN fa[c].reply ELSE h) \in {"none", "done", "failed"}
    BY <1>0, <2>1, <2>3 DEF Factory
  <2> HIDE DEF h, q
  <2>6. /\ y \in Factory /\ y.pc \in {"wait", "end"} /\ y.inst = fa[c].inst /\ y.own = fa[c].own
        /\ y.reply = (IF h = "other" THEN fa[c].reply ELSE h) /\ y.queue = Tail(q)
    BY <1>0, <2>3, <2>4, <2>5 DEF Factory
  <2> HIDE DEF y
  <2>7. Len(q) <= 2 /\ (fa[c].own => Len(q) <= 1) /\ fa[c].inst \in Instances
    BY <1>0, <2>1 DEF JobKept, q
  <2>8. y.reply = "done" \/ (\E k \in 1..Len(y.queue) : y.queue[k] = "done")
          => fa[c].reply = "done" \/ (\E k \in 1..Len(q) : q[k] = "done")
    BY <2>3, <2>6
  <2>9. JobKept(y)
    BY <1>0, <2>3, <2>6, <2>7, <2>8 DEF JobKept, q
  <2> QED
    BY <1>1, <2>1, <2>6, <2>9
<1> QED
  BY <1>2, <1>3

(* A job of systemd ends, or a unit is stopped.                            *)
LEMMA UnitKeeps ==
    ASSUME ServerInv, NEW i \in Instances, JobRemoved(i) \/ UnitStops(i) PROVE ServerInv'
<1>0. /\ fa \in [Conns -> Factory] /\ UNCHANGED <<sv, cn>>
      /\ unit \in [at : [Instances -> {"absent", "starting", "listening"}], stops : Nat]
  BY DEF JobRemoved, UnitStops, ServerInv, StateOK
<1>1. CASE JobRemoved(i)
  <2>1. PICK result \in {"done", "failed"} :
          /\ unit' = [unit EXCEPT !.at[i] = IF result = "done" THEN "listening" ELSE "absent"]
          /\ fa' = [c \in Conns |->
                      IF fa[c].inst = i /\ fa[c].own
                      THEN [fa[c] EXCEPT !.queue = Append(fa[c].queue, result), !.own = FALSE] ELSE fa[c]]
    BY <1>1 DEF JobRemoved
  <2>2. /\ unit' \in [at : [Instances -> {"absent", "starting", "listening"}], stops : Nat]
        /\ unit'.stops = unit.stops
        /\ unit'.at[i] = IF result = "done" THEN "listening" ELSE "absent"
        /\ \A j \in Instances \ {i} : unit'.at[j] = unit.at[j]
    BY <1>0, <2>1
  <2>3. unit.at[i] = "starting"
    BY <1>1 DEF JobRemoved
  <2>4. \A j \in Instances : unit.at[j] = "listening" => unit'.at[j] = "listening"
    BY <2>2, <2>3
  <2>5. ASSUME NEW c \in Conns PROVE fa'[c] \in Factory /\ JobKept(fa[c])'
    <3>1. CASE ~(fa[c].inst = i /\ fa[c].own)
      <4>1. fa'[c] = fa[c] /\ fa[c] \in Factory
        BY <1>0, <2>1, <3>1
      <4> QED
        BY <1>0, <2>2, <2>4, <4>1, HeardStays
    <3>2. CASE fa[c].inst = i /\ fa[c].own
      <4> DEFINE q == fa[c].queue
                 w == Append(q, result)
                 y == [fa[c] EXCEPT !.queue = w, !.own = FALSE]
      <4>1. fa'[c] = y
        BY <2>1, <3>2
      <4>2. fa[c] \in Factory /\ q \in Seq({"done", "failed", "other"}) /\ JobKept(fa[c])
        BY <1>0 DEF Factory, ServerInv
      <4>3. /\ w \in Seq({"done", "failed", "other"}) /\ Len(w) = Len(q) + 1 /\ w[Len(q) + 1] = result
            /\ \A k \in 1..Len(q) : w[k] = q[k]
            /\ Len(q) \in Nat
        BY <4>2
      <4> HIDE DEF q, w
      <4>4. /\ y \in Factory /\ y.pc = fa[c].pc /\ y.inst = fa[c].inst /\ y.own = FALSE
            /\ y.reply = fa[c].reply /\ y.queue = w
        BY <4>2, <4>3 DEF Factory
      <4> HIDE DEF y
      <4>5. Len(q) <= 1 /\ fa[c].pc \notin {"none", "start"}
        BY <3>2, <4>2 DEF JobKept, q
      <4>6. y.inst \in Instances /\ Len(y.queue) <= 2
        BY <3>2, <4>3, <4>4, <4>5
      <4>7. ASSUME y.reply = "done" \/ (\E k \in 1..Len(y.queue) : y.queue[k] = "done"),
                   unit'.stops = 0
            PROVE  unit'.at[y.inst] = "listening"
        <5>1. CASE result = "done"
          BY <2>2, <3>2, <4>4, <5>1
        <5>2. CASE result # "done"
          <6>1. fa[c].reply = "done" \/ (\E k \in 1..Len(q) : q[k] = "done")
            BY <4>3, <4>4, <4>7, <5>2
          <6>2. unit.at[fa[c].inst] = "listening"
            BY <2>2, <4>2, <4>7, <6>1 DEF JobKept, q
          <6> QED
            BY <2>3, <3>2, <6>2
        <5> QED
          BY <5>1, <5>2
      <4>8. JobKept(fa[c])'
        BY <4>1, <4>4, <4>5, <4>6, <4>7 DEF JobKept
      <4> QED
        BY <4>1, <4>4, <4>8
    <3> QED
      BY <3>1, <3>2
  <2>6. fa' \in [Conns -> Factory]
    BY <2>1, <2>5
  <2> QED
    BY <1>0, <2>2, <2>5, <2>6, JobMoves
<1>2. CASE UnitStops(i)
  <2>1. /\ unit' = [at |-> [unit.at EXCEPT ![i] = "absent"], stops |-> unit.stops + 1]
        /\ UNCHANGED fa
    BY <1>2 DEF UnitStops
  <2>2. /\ unit' \in [at : [Instances -> {"absent", "starting", "listening"}], stops : Nat]
        /\ unit'.stops # 0 /\ unit'.stops \in Nat
    BY <1>0, <2>1
  <2>3. \A d \in Conns : JobKept(fa[d])'
    BY <2>1, <2>2, HeardStays
  <2> QED
    BY <1>0, <2>1, <2>2, <2>3, JobMoves
<1> QED
  BY <1>1, <1>2

(* Every step keeps the invariant.                                         *)
LEMMA ServerStep == ASSUME TlsServerAssumption, ServerInv, [Next]_vars PROVE ServerInv'
<1>1. CASE Connect \/ TimerFires \/ MainStep
  BY <1>1, AcceptKeeps, TimerKeeps, CountUpKeeps, SpawnKeeps DEF MainStep
<1>2. ASSUME NEW c \in Conns, ThreadStep(c) PROVE ServerInv'
  BY <1>2, HandshakeKeeps, MovesKeep, ConnectFirstKeeps, ThreadEndsKeeps DEF ThreadStep
<1>3. ASSUME NEW c \in Conns, FactoryStep(c) \/ OtherJob(c) PROVE ServerInv'
  BY <1>3, CallKeeps, SignalKeeps DEF FactoryStep
<1>4. ASSUME NEW i \in Instances, JobRemoved(i) \/ UnitStops(i) PROVE ServerInv'
  BY <1>4, UnitKeeps
<1>5. CASE UNCHANGED vars
  <2>1. UNCHANGED <<sv, cn, fa, unit>>
    BY <1>5 DEF vars
  <2>2. \A d \in Conns : JobKept(fa[d])'
    BY <2>1 DEF ServerInv, JobKept
  <2> QED
    BY <2>1, <2>2, JobMoves DEF ServerInv, StateOK
<1> QED
  BY <1>1, <1>2, <1>3, <1>4, <1>5 DEF Next

(* For any connections and certificates, and with every fault: cockpit-tls *)
(* stops only while no connection has a thread, its timer runs exactly     *)
(* while nothing is counted, the file of a certificate is there as long as *)
(* its connection is passed on with it, and a factory says "done" only of  *)
(* a unit that listens.                                                    *)
THEOREM TlsServerSafety == ASSUME TlsServerAssumption PROVE Spec => []ServerSafe
<1>1. Init => ServerInv
  BY ServerInit
<1>2. ServerInv /\ [Next]_vars => ServerInv'
  BY ServerStep
<1>3. ServerInv => ServerSafe
  BY ServerImplies
<1> QED
  BY <1>1, <1>2, <1>3, PTL DEF Spec
=============================================================================
