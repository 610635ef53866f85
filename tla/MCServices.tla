----------------------------- MODULE MCServices -----------------------------
(***************************************************************************)
(* Instances for TLC of what runs on the machine that is logged in to:     *)
(* cockpit-ws and its libraries, cockpit-tls, cockpit-session, cockpit-ssh *)
(* and pam_ssh_add.  The modules share no state, so that every behaviour   *)
(* is one of one module: `scenario' says of which, and of which instance,  *)
(* and the slots hold its variables.                                       *)
(***************************************************************************)
EXTENDS HostChecksum, SshLogin, Session, Naturals

CONSTANT Scenarios  \* the scenarios of a run

VARIABLES scenario, v1, v2, v3, v4, v5

Is(s) == scenario = s

Unused == "unused"  \* in a slot that a module does not need

-----------------------------------------------------------------------------
(* The web socket library: a browser against this server, this client      *)
(* against this server with faults, and a small instance for liveness.     *)
Frames == INSTANCE WebSocket WITH ws <- v1, wire <- v2, QueuePressure <- 2, WireSize <- 2,
    MaxSaid <- 2, Protocols <- {<<>>}, Faults <- {"timeout"}, Foreign <- {"client"}
Handshakes == INSTANCE WebSocket WITH ws <- v1, wire <- v2, QueuePressure <- 2, WireSize <- 1,
    MaxSaid <- 1, Protocols <- {<<>>, <<"v1">>, <<"v2", "v1">>},
    Faults <- {"io", "refused", "throttle", "connect", "timeout"}, Foreign <- {}
Closes == INSTANCE WebSocket WITH ws <- v1, wire <- v2, QueuePressure <- 2, WireSize <- 1,
    MaxSaid <- 1, Protocols <- {<<>>}, Faults <- {"timeout", "throttle"}, Foreign <- {}

(* The web server.                                                         *)
Plain ==
    [line |-> TRUE, headers |-> TRUE, method |-> "GET", host |-> TRUE, length |-> 0,
     path |-> "shell", auth |-> TRUE, open |-> TRUE, upgrade |-> FALSE]
SomeRequests ==
    {Plain, [Plain EXCEPT !.length = 1], [Plain EXCEPT !.length = 3],
     [Plain EXCEPT !.path = "socket"]}
AllRequests ==
    {Plain, [Plain EXCEPT !.line = FALSE], [Plain EXCEPT !.headers = FALSE],
     [Plain EXCEPT !.host = FALSE, !.length = 1], [Plain EXCEPT !.length = 2],
     [Plain EXCEPT !.length = 3], [Plain EXCEPT !.method = "POST"],
     [Plain EXCEPT !.path = "socket", !.method = "HEAD"], [Plain EXCEPT !.path = "socket"],
     [Plain EXCEPT !.path = "channel", !.open = FALSE], [Plain EXCEPT !.path = "channel"],
     [Plain EXCEPT !.path = "channel", !.auth = FALSE], [Plain EXCEPT !.path = "exempt"],
     [Plain EXCEPT !.path = "channel", !.upgrade = TRUE], [Plain EXCEPT !.path = "outside"],
     [Plain EXCEPT !.path = "resource", !.auth = FALSE], [Plain EXCEPT !.path = "static"],
     [Plain EXCEPT !.path = "login", !.auth = FALSE], [Plain EXCEPT !.path = "html"]}
Server == INSTANCE WebServer WITH c <- v1, b <- v2, Requests <- AllRequests, MaxRequests <- 2,
    Maximum <- 2, Certificate <- TRUE, RedirectTls <- TRUE, Loopback <- FALSE,
    Pipelines <- TRUE, Faults <- TRUE
Answers == INSTANCE WebServer WITH c <- v1, b <- v2, Requests <- SomeRequests, MaxRequests <- 2,
    Maximum <- 2, Certificate <- FALSE, RedirectTls <- TRUE, Loopback <- TRUE,
    Pipelines <- FALSE, Faults <- FALSE
Slow == INSTANCE WebServer WITH c <- v1, b <- v2, Requests <- SomeRequests, MaxRequests <- 2,
    Maximum <- 2, Certificate <- FALSE, RedirectTls <- TRUE, Loopback <- TRUE,
    Pipelines <- FALSE, Faults <- TRUE

(* Responses, and the web sockets of single channels.                      *)
Response == INSTANCE WebResponse WITH w <- v1, c <- v2, b <- v3, e <- v1,
    MaxBlocks <- 2, MaxSize <- 2, Pressure <- 4, Window <- 1, Methods <- {"GET", "HEAD"},
    Kinds <- {"plain", "http-stream1", "http-stream2"}, Honest <- TRUE, Faults <- TRUE,
    FromBrowser <- 2, FromBridge <- 2, Leaves <- TRUE
Liar == INSTANCE WebResponse WITH w <- v1, c <- v2, b <- v3, e <- v1,
    MaxBlocks <- 1, MaxSize <- 1, Pressure <- 2, Window <- 1, Methods <- {"GET"},
    Kinds <- {"plain", "http-stream1", "http-stream2"}, Honest <- FALSE, Faults <- TRUE,
    FromBrowser <- 2, FromBridge <- 2, Leaves <- TRUE

(* The web service of a session: with clients that keep to the protocol,   *)
(* and with others; channels do not depend on the "init" of the bridge and *)
(* on what it says of credentials, which have an instance of their own.    *)
Relays == INSTANCE WebService WITH v <- v1, so <- v2, out <- v3, br <- v4,
    Sockets <- {"a"}, Channels <- {1, 2}, MaxQueue <- 2, MaxOpens <- 2, MaxInits <- 0,
    Dirty <- TRUE, Unruly <- FALSE
Creds == INSTANCE WebService WITH v <- v1, so <- v2, out <- v3, br <- v4,
    Sockets <- {"a", "b"}, Channels <- {1}, MaxQueue <- 1, MaxOpens <- 1, MaxInits <- 1,
    Dirty <- TRUE, Unruly <- FALSE
Rude == INSTANCE WebService WITH v <- v1, so <- v2, out <- v3, br <- v4,
    Sockets <- {"a", "b"}, Channels <- {1}, MaxQueue <- 1, MaxOpens <- 1, MaxInits <- 0,
    Dirty <- FALSE, Unruly <- TRUE
Quits == INSTANCE WebService WITH v <- v1, so <- v2, out <- v3, br <- v4,
    Sockets <- {"a"}, Channels <- {1}, MaxQueue <- 1, MaxOpens <- 1, MaxInits <- 1,
    Dirty <- FALSE, Unruly <- FALSE

(* Logins as cockpit-ws sees them.                                         *)
Passwords == INSTANCE Auth WITH a <- v1, p <- v2, Sessions <- {1, 2}, Logins <- {1, 2, 3},
    MaxMessages <- 3, MaxNonce <- 8, Begin <- 1, Rate <- 30, Full <- 2,
    Challenges <- {"star", "x", "hostkey", "bad"}, Local <- FALSE, Expires <- TRUE
Kerberos == INSTANCE Auth WITH a <- v1, p <- v2, Sessions <- {1, 2}, Logins <- {1, 2},
    MaxMessages <- 3, MaxNonce <- 8, Begin <- 1, Rate <- 100, Full <- 1,
    Challenges <- {"negotiate", "data", "offer"}, Local <- TRUE, Expires <- FALSE
Waits == INSTANCE Auth WITH a <- v1, p <- v2, Sessions <- {1, 2}, Logins <- {1, 2},
    MaxMessages <- 2, MaxNonce <- 8, Begin <- 2, Rate <- 100, Full <- 2,
    Challenges <- {"star", "x"}, Local <- FALSE, Expires <- FALSE

(* The checksums of hosts whose packages do not change.                    *)
Fixed == INSTANCE HostChecksum WITH Upgrades <- FALSE

(* cockpit-tls: one connection, plain or with TLS, and the server.         *)
PlainTcp == INSTANCE TlsConnection WITH x <- v1, Size <- 2, Wrap <- 4, MaxUp <- 5, MaxDown <- 2,
    MaxRecord <- 1, Room <- 2, Tls <- FALSE, Faults <- TRUE
Records == INSTANCE TlsConnection WITH x <- v1, Size <- 4, Wrap <- 8, MaxUp <- 9, MaxDown <- 1,
    MaxRecord <- 4, Room <- 2, Tls <- TRUE, Faults <- TRUE
Calm == INSTANCE TlsConnection WITH x <- v1, Size <- 2, Wrap <- 4, MaxUp <- 4, MaxDown <- 2,
    MaxRecord <- 1, Room <- 1, Tls <- FALSE, Faults <- FALSE
Proxy == INSTANCE TlsServer WITH sv <- v1, cn <- v2, fa <- v3, unit <- v4, Conns <- {1, 2},
    Prints <- {"a"}, Certificate <- TRUE, RequireHttps <- TRUE, Restarts <- 1, Faults <- TRUE,
    CreateFails <- FALSE
Idle == INSTANCE TlsServer WITH sv <- v1, cn <- v2, fa <- v3, unit <- v4, Conns <- {1, 2},
    Prints <- {"a"}, Certificate <- TRUE, RequireHttps <- FALSE, Restarts <- 0, Faults <- FALSE,
    CreateFails <- FALSE

(* cockpit-session with a short conversation and no signals, and with      *)
(* records of logins that cannot be read.                                  *)
Torn == INSTANCE Session WITH ses <- v1, pam <- v2, ws <- v3, lastlog <- v1, btmp <- v2,
    proc <- v3, now <- v4, MaxMsgs <- 1, MaxRounds <- 1, Signals <- FALSE,
    MaxTime <- 2, Errors <- TRUE

(* cockpit-ssh: its relay, and the login to a host that is not known.      *)
Relay == INSTANCE SshRelay WITH r <- v1, h <- v2, MaxIn <- 2, MaxOut <- 2, Signals <- FALSE,
    StdinEnds <- TRUE, Faults <- TRUE
Killed == INSTANCE SshRelay WITH r <- v1, h <- v2, MaxIn <- 1, MaxOut <- 1, Signals <- TRUE,
    StdinEnds <- TRUE, Faults <- TRUE
Unknown == INSTANCE SshLogin WITH ssh <- v1, sshd <- v2, MaxPrompts <- 1, Allow <- TRUE

(* pam_ssh_add                                                             *)
AddKeys == INSTANCE PamSshAdd WITH m <- v1, agent <- v2, add <- v3, err <- v4, inp <- v5,
    Keys <- 2, Block <- 3, Warnings <- 4, Faults <- TRUE

ASSUME InstanceAssumption ==
    /\ Frames!SocketAssumption /\ Handshakes!SocketAssumption /\ Closes!SocketAssumption
    /\ Server!WebServerAssumption /\ Answers!WebServerAssumption /\ Slow!WebServerAssumption
    /\ Response!WebResponseAssumption /\ Response!SocketAssumption /\ Liar!WebResponseAssumption
    /\ Relays!WebServiceAssumption /\ Creds!WebServiceAssumption /\ Rude!WebServiceAssumption /\ Quits!WebServiceAssumption
    /\ Passwords!AuthAssumption /\ Kerberos!AuthAssumption /\ Waits!AuthAssumption
    /\ PlainTcp!TlsConnectionAssumption /\ Records!TlsConnectionAssumption
    /\ Calm!TlsConnectionAssumption
    /\ Proxy!TlsServerAssumption /\ Idle!TlsServerAssumption
    /\ Torn!SessionAssumption /\ Torn!UsersAssumption
    /\ Relay!SshRelayAssumption /\ Killed!SshRelayAssumption
    /\ Unknown!SshLoginAssumption /\ AddKeys!BlockAssumption

-----------------------------------------------------------------------------
(* What the steps of a module leave alone: the slots beyond those of its   *)
(* variables, or all of them.                                              *)
sshLogin == <<ssh, sshd>>
session == <<ses, pam, ws>>
records == <<lastlog, btmp, proc, now>>
after5 == <<scenario, vars, sshLogin, session, records>>
after4 == <<v5, after5>>
after3 == <<v4, after4>>
after2 == <<v3, after3>>
after1 == <<v2, after2>>
slots == <<v1, after1>>
free == <<scenario, v1, v2, v3, v4, v5>>

Begin ==
    /\ scenario \in Scenarios
    /\ Init
    /\ SshInit
    /\ ~Is("known") => sshd.methods = {} /\ sshd.files = {} /\ ~sshd.changed
    /\ SessionInit
    /\ LogInit
    /\ ~Is("checksums") /\ ~Is("fixed") => packages = [h \in Hosts |-> CHOOSE c \in Checksums : TRUE]
    /\ \/ /\ \/ /\ \/ /\ \/ scenario \in {"checksums", "fixed", "known", "login", "records_kept"} /\ v1 = Unused
                         \/ Is("socket") /\ Response!SocketInit
                         \/ Is("plain_tcp") /\ PlainTcp!Init
                         \/ Is("records") /\ Records!Init
                         \/ Is("calm") /\ Calm!Init
                      /\ v2 = Unused
                   \/ Is("frames") /\ Frames!Init
                   \/ Is("handshakes") /\ Handshakes!Init
                   \/ Is("closes") /\ Closes!Init
                   \/ Is("server") /\ Server!Init
                   \/ Is("answers") /\ Answers!Init
                   \/ Is("slow") /\ Slow!Init
                   \/ Is("logins") /\ Passwords!Init
                   \/ Is("kerberos") /\ Kerberos!Init
                   \/ Is("waits") /\ Waits!Init
                   \/ Is("relay") /\ Relay!Init
                   \/ Is("killed") /\ Killed!Init
                   \/ Is("unknown") /\ Unknown!SshInit
                   \/ Is("no_files") /\ Unknown!SshInit /\ v2.files = {} /\ ~v2.changed
                /\ v3 = Unused
             \/ Is("response") /\ Response!Init
             \/ Is("liar") /\ Liar!Init
             \/ Is("torn") /\ Torn!SessionInit
          /\ v4 = Unused /\ v5 = Unused
       \/ /\ \/ Is("relays") /\ Relays!Init
             \/ Is("creds") /\ Creds!Init
             \/ Is("rude") /\ Rude!Init
             \/ Is("quits") /\ Quits!Init
             \/ Is("proxy") /\ Proxy!Init
             \/ Is("idle") /\ Idle!Init
             \/ Is("records_fail") /\ Torn!LogInit
          /\ v5 = Unused
       \/ Is("keys") /\ AddKeys!Init

Step ==
    \/ Is("checksums") /\ Next /\ UNCHANGED <<free, sshLogin, session, records>>
    \/ Is("fixed") /\ Fixed!Next /\ UNCHANGED <<free, sshLogin, session, records>>
    \/ Is("known") /\ SshNext /\ UNCHANGED <<free, vars, session, records>>
    \/ Is("login") /\ SessionNext /\ UNCHANGED <<free, vars, sshLogin, records>>
    \/ Is("records_kept") /\ LogNext /\ UNCHANGED <<free, vars, sshLogin, session>>
    \/ Is("socket") /\ Response!SocketNext /\ UNCHANGED after1
    \/ Is("plain_tcp") /\ PlainTcp!Next /\ UNCHANGED after1
    \/ Is("records") /\ Records!Next /\ UNCHANGED after1
    \/ Is("calm") /\ Calm!Next /\ UNCHANGED after1
    \/ Is("frames") /\ Frames!Next /\ UNCHANGED after2
    \/ Is("handshakes") /\ Handshakes!Next /\ UNCHANGED after2
    \/ Is("closes") /\ Closes!Next /\ UNCHANGED after2
    \/ Is("server") /\ Server!Next /\ UNCHANGED after2
    \/ Is("answers") /\ Answers!Next /\ UNCHANGED after2
    \/ Is("slow") /\ Slow!Next /\ UNCHANGED after2
    \/ Is("logins") /\ Passwords!Next /\ UNCHANGED after2
    \/ Is("kerberos") /\ Kerberos!Next /\ UNCHANGED after2
    \/ Is("waits") /\ Waits!Next /\ UNCHANGED after2
    \/ Is("relay") /\ Relay!Next /\ UNCHANGED after2
    \/ Is("killed") /\ Killed!Next /\ UNCHANGED after2
    \/ (Is("unknown") \/ Is("no_files")) /\ Unknown!SshNext /\ UNCHANGED after2
    \/ Is("response") /\ Response!Next /\ UNCHANGED after3
    \/ Is("liar") /\ Liar!Next /\ UNCHANGED after3
    \/ Is("torn") /\ Torn!SessionNext /\ UNCHANGED after3
    \/ Is("relays") /\ Relays!Next /\ UNCHANGED after4
    \/ Is("creds") /\ Creds!Next /\ UNCHANGED after4
    \/ Is("rude") /\ Rude!Next /\ UNCHANGED after4
    \/ Is("quits") /\ Quits!Next /\ UNCHANGED after4
    \/ Is("proxy") /\ Proxy!Next /\ UNCHANGED after4
    \/ Is("idle") /\ Idle!Next /\ UNCHANGED after4
    \/ Is("records_fail") /\ Torn!LogNext /\ UNCHANGED after4
    \/ Is("keys") /\ AddKeys!Next /\ UNCHANGED after5

Services == Begin /\ [][Step]_slots

-----------------------------------------------------------------------------
(* websocketconnection.c: the "close" signal comes once, frames are not    *)
(* cut into, pressure follows the queue, messages arrive without gaps,     *)
(* nothing is written after a close frame and both ends mean the same      *)
(* subprotocol, whichever of error, timeout, end of stream, close frame    *)
(* and application comes first.                                            *)
WebSocketSafe ==
    /\ Is("frames") => /\ Frames!TypeOK /\ Frames!CloseOnce /\ Frames!OnlyHeadSplit
                       /\ Frames!PressureAgrees /\ Frames!NoGap /\ Frames!CloseIsLast
    /\ Is("handshakes") => /\ Handshakes!CloseOnce /\ Handshakes!ProtocolAgreed
                           /\ Handshakes!PressureAgrees

(* cockpitwebserver.c: requests are answered in order, each at most once,  *)
(* and nothing of one that was answered is taken for the next, also when   *)
(* the browser sends requests ahead and one read returns parts of several. *)
WebServerSafe ==
    Is("server") => /\ Server!TypeOK /\ Server!AnsweredInOrder /\ Server!BodyNotTakenForRequest
                    /\ Server!NoContent

(* cockpitwebresponse.c with the channel behind it: a connection is used   *)
(* again only after a response whose end the browser can tell, a channel   *)
(* cut short never looks complete, and pressure follows the queue; and     *)
(* cockpitchannelsocket.c: a channel of its own web socket is opened       *)
(* first, delivers in order, and says "done" only of a complete stream.    *)
ResponseSafe ==
    /\ Is("response") => /\ Response!TypeOK /\ Response!CutShort /\ Response!ReusedWhenWhole
                         /\ Response!HeadFirst /\ Response!PressureFollows /\ Response!NoCriticals
    /\ Is("socket") => /\ Response!OpenFirst /\ Response!InOrder /\ Response!AllShown
                       /\ Response!DoneComplete /\ Response!NormalIsDone

(* cockpitwebservice.c: the tables of channels agree and name sockets that *)
(* exist, the bridge keeps no channel that no socket has and gets no       *)
(* second "open" for one, short of the ways to leave one behind that are   *)
(* known, and callers are counted; and the links of pages to hosts whose   *)
(* packages do not change can be followed, to this machine where it has    *)
(* the same.                                                               *)
ServiceSafe ==
    /\ Is("relays") => /\ Relays!TypeOK /\ Relays!TablesAgree /\ Relays!NoneLeftBehind
                       /\ Relays!OpenedOnce /\ Relays!CallersCounted
    /\ Is("creds") => Creds!TypeOK /\ Creds!TablesAgree /\ Creds!NoneLeftBehind /\ Creds!CallersCounted
    /\ Is("rude") => Rude!TablesAgree /\ Rude!NoneLeftBehind /\ Rude!CallersCounted
    /\ Is("fixed") => Fixed!LinksFound /\ Fixed!LocalPreferred

(* cockpitauth.c: sessions are held exactly by tables and logins, the      *)
(* count of start-ups neither leaks nor exceeds its limit, a cookie means  *)
(* a session that came up and success is only said of one without a        *)
(* problem.                                                                *)
AuthSafe ==
    /\ Is("logins") => /\ Passwords!TypeOK /\ Passwords!RefsCount /\ Passwords!TablesAgree
                       /\ Passwords!StartupsCount /\ Passwords!CookieMeansInit
    /\ Is("kerberos") => Kerberos!RefsCount /\ Kerberos!LimitKept /\ Kerberos!SuccessIsReal

(* cockpitauth.c: a session in use outlives the timers of the time when it *)
(* was not, and one that is not used has a timer.                          *)
SessionStays ==
    /\ Is("logins") => Passwords!UsedSessionStays
    /\ Is("kerberos") => Kerberos!UsedSessionStays

(* cockpit-tls: bytes are passed on in order and whole, with the metadata  *)
(* first, a half is shut down only when drained, also when the indices of  *)
(* the buffer wrap; the idle timer follows the connections, and the file   *)
(* of a certificate is there exactly while an instance was told of it.     *)
TlsSafe ==
    /\ Is("plain_tcp") => /\ PlainTcp!TypeOK /\ PlainTcp!InOrder /\ PlainTcp!MetadataFirst
                          /\ PlainTcp!ShutWhenDrained
    /\ Is("records") => Records!TypeOK /\ Records!InOrder
    /\ Is("calm") => Calm!NothingLost
    /\ Is("proxy") => Proxy!ServerSafe
    /\ Is("idle") => Idle!StopsIdle

(* The rest of what leads to a login (SessionSafe, RecordsSafe and         *)
(* SshLoginSafe are properties of their modules): cockpit-ssh passes on in *)
(* order and says one "init"; a host that is not known gets no secret      *)
(* before its key is accepted; what a user is told of failed logins is     *)
(* exact although files cannot be read; pam_ssh_add writes one line for    *)
(* each prompt of ssh-add that is not cut, and the password once for each. *)
SshSafe ==
    /\ Is("relay") => Relay!TypeOK /\ Relay!InOrder /\ Relay!OneInit /\ Relay!FramesOnly /\ Relay!SentOnce
    /\ Is("unknown") => Unknown!SshLoginSafe
    /\ Is("records_fail") => Torn!RecordsSafe
    /\ Is("keys") => AddKeys!TypeOK /\ AddKeys!OneAnswer /\ AddKeys!PasswordOnce

(* Steps of cockpit-ssh: the first exit code stays, the password is asked  *)
(* for once, and no method is tried after one that is decisive.            *)
SshSteps ==
    [][/\ Is("relay") => Relay!FirstCode
       /\ Is("known") => AskedOnce /\ FinalStops
       /\ Is("unknown") => Unknown!AskedOnce /\ Unknown!FinalStops]_slots

-----------------------------------------------------------------------------
(* Main loops, threads and processes run what is due: input, output, idle  *)
(* and time-out sources, callbacks of tasks, pipes that were closed.       *)
(* Nobody has to send, close, connect or log in, and no fairness is        *)
(* assumed of browsers and bridges except where it is said.                *)
Fair ==
    \* The main loops of both ends of a web socket; an output that is due again and again
    \* gets through, since the other end reads.
    /\ \A s \in {"client", "server"} :
         /\ WF_<<v1, v2>>(Is("closes") /\ Closes!Input(s))
         /\ WF_<<v1, v2>>(Is("closes") /\ Closes!IoClosed(s))
         /\ WF_<<v1, v2>>(Is("closes") /\ Closes!Timeout(s))
         /\ WF_<<v1, v2>>(Is("closes") /\ Closes!Output(s))
         /\ SF_<<v1, v2>>(Is("closes") /\ Closes!Output(s) /\ v2'[s] # v2[s])
    \* The sources of a request; responses end.
    /\ WF_<<v1, v2>>(Is("answers") /\ Answers!OnSocketInput)
    /\ WF_<<v1, v2>>(Is("answers") /\ Answers!OnInput)
    /\ WF_<<v1, v2>>(Is("answers") /\ Answers!OnTimeout)
    /\ WF_<<v1, v2>>(Is("answers") /\ Answers!OnResponseDone)
    /\ WF_<<v1, v2>>(Is("answers") /\ Answers!StreamEnds)
    /\ WF_<<v1, v2>>(Is("slow") /\ Slow!OnSocketInput)
    /\ WF_<<v1, v2>>(Is("slow") /\ Slow!OnInput)
    /\ WF_<<v1, v2>>(Is("slow") /\ Slow!OnTimeout)
    /\ WF_<<v1, v2>>(Is("slow") /\ Slow!OnResponseDone)
    /\ WF_<<v1, v2>>(Is("slow") /\ Slow!StreamEnds)
    \* The output source of a response, and the end of what is flushed.
    /\ WF_<<v1, v2, v3>>(Is("liar") /\ (Liar!OnOutput \/ Liar!OutputFails))
    /\ WF_<<v1, v2, v3>>(Is("liar") /\ Liar!OutputIdle)
    /\ WF_<<v1, v2, v3>>(Is("liar") /\ Liar!OnFlushed)
    \* The transport delivers; a socket that sent a close frame is closed by a time-out at the latest.
    /\ WF_v1(Is("socket") /\ Response!Deliver)
    /\ WF_v1(Is("socket") /\ v1.ws = "closing" /\ Response!SocketGone)
    \* The bridge reads; a closing web socket ends (close_io_after_timeout()).
    /\ WF_<<v1, v2, v3, v4>>(Is("quits") /\ Quits!BridgeTakes)
    /\ WF_<<v1, v2, v3, v4>>(Is("quits") /\ v2["a"].ws = "closing" /\ Quits!ConnectionEnds("a"))
    \* Callbacks of finished tasks, of timers and of closed pipes.
    /\ \A l \in {1, 2} : WF_<<v1, v2>>(Is("waits") /\ Waits!LoginFailed(l))
    /\ \A s \in {1, 2} :
         /\ WF_<<v1, v2>>(Is("waits") /\ Waits!OnClosed(s))
         /\ WF_<<v1, v2>>(Is("waits") /\ Waits!OnAuthorizeTimeout(s))
         /\ WF_<<v1, v2>>(Is("waits") /\ Waits!OnSessionTimeout(s))
    \* The thread of a connection runs, and both ends read what reaches them.
    /\ WF_v1(Is("calm") /\ Calm!ThreadLoop) /\ WF_v1(Is("calm") /\ Calm!ThreadEnds)
    /\ WF_v1(Is("calm") /\ Calm!ClientReads) /\ WF_v1(Is("calm") /\ Calm!WsReads)
    \* Threads, factories and systemd run; the timer fires; a loop need not end.
    /\ WF_<<v1, v2, v3, v4>>(Is("idle") /\ Idle!MainStep)
    /\ WF_<<v1, v2, v3, v4>>(Is("idle") /\ Idle!TimerFires)
    /\ \A c \in {1, 2} :
         /\ WF_<<v1, v2, v3, v4>>(Is("idle") /\ Idle!Handshake(c))
         /\ WF_<<v1, v2, v3, v4>>(Is("idle") /\ Idle!CreateMetadata(c))
         /\ WF_<<v1, v2, v3, v4>>(Is("idle") /\ Idle!ConnectHttp(c))
         /\ WF_<<v1, v2, v3, v4>>(Is("idle") /\ Idle!ConnectFirst(c))
         /\ WF_<<v1, v2, v3, v4>>(Is("idle") /\ Idle!RequestEnds(c))
         /\ WF_<<v1, v2, v3, v4>>(Is("idle") /\ Idle!ConnectAgain(c))
         /\ WF_<<v1, v2, v3, v4>>(Is("idle") /\ Idle!Cleanup(c))
         /\ WF_<<v1, v2, v3, v4>>(Is("idle") /\ Idle!ThreadEnds(c))
         /\ WF_<<v1, v2, v3, v4>>(Is("idle") /\ Idle!FactoryStep(c))
    /\ \A i \in Idle!Instances : WF_<<v1, v2, v3, v4>>(Is("idle") /\ Idle!JobRemoved(i))
    \* cockpit-session goes on, what it calls returns, and cockpit-ws answers or hangs up.
    /\ WF_<<v1, v2, v3>>(Is("torn") /\ Torn!SessionStep) /\ WF_<<v1, v2, v3>>(Is("torn") /\ Torn!FromWs)
    \* The main loop of the relay runs its sources; libssh and the user answer.
    /\ WF_<<v1, v2>>(Is("killed") /\ Killed!SourceDispatch)
    /\ WF_<<v1, v2>>(Is("killed") /\ Killed!EmitDisconnect)
    /\ WF_<<v1, v2>>(Is("no_files") /\ Unknown!SshNext)
    \* The module goes on, and ssh-add does unless it waits for an answer.
    /\ WF_<<v1, v2, v3, v4, v5>>(Is("keys") /\ AddKeys!Module)
    /\ WF_<<v1, v2, v3, v4, v5>>
         (Is("keys") /\ (AddKeys!AddAsks \/ AddKeys!AddReads \/ AddKeys!AddExits))

FairServices == Services /\ Fair

(* What cockpit-ws begins comes to an end: a closing web socket is closed, *)
(* a complete request is answered and an incomplete one gives up its       *)
(* connection, a response whose channel closed ends, so does the socket of *)
(* a channel and those of a service that goes down; every login is         *)
(* answered, and a session that nobody uses is freed.  (A scenario never   *)
(* changes, so that what is begun in one must be over in the same one.)    *)
WebBegun(i) ==
    \/ i \in 1..2 /\ Is("closes") /\ Closes!Closing(<<"client", "server">>[i])
    \/ i = 1 /\ Is("answers") /\ Answers!Complete
    \/ i = 1 /\ Is("slow") /\ Slow!Reading
    \/ i = 1 /\ Is("liar") /\ Liar!ChannelClosed
    \/ i = 1 /\ Is("socket") /\ Response!BridgeOver
    \/ i = 1 /\ Is("quits") /\ Quits!GoingDown
    \/ i \in 1..2 /\ Is("waits") /\ Waits!LoginWaits(i)
    \/ i \in 3..4 /\ Is("waits") /\ Waits!Held(i - 2)
WebOver(i) ==
    \/ i \in 1..2 /\ Is("closes") /\ Closes!IsClosed(<<"client", "server">>[i])
    \/ Is("answers") /\ Answers!RequestOver
    \/ Is("slow") /\ ~Slow!Reading
    \/ Is("liar") /\ Liar!ResponseDone
    \/ Is("socket") /\ Response!SocketOver
    \/ Is("quits") /\ Quits!NoCallers
    \/ i \in 1..2 /\ Is("waits") /\ Waits!LoginAnswered(i)
    \/ i \in 3..4 /\ Is("waits") /\ Waits!FreedOrUsed(i - 2)
WebEnds == \A i \in 1..4 : WebBegun(i) ~> WebOver(i)

(* What leads to a login comes to an end: bytes do not stay in cockpit-tls *)
(* and its threads end, every client gets to its instance and an idle      *)
(* server stops; cockpit-session decides and ends with the bridge;         *)
(* cockpit-ssh ends when told to, and its login whatever is answered; the  *)
(* session is open in the end, with keys or without.                       *)
LoginBegun(i) ==
    \/ i = 1 /\ Is("calm") /\ Calm!InProxy
    \/ i = 2 /\ Is("calm") /\ Calm!BothEnded
    \/ i \in 1..2 /\ Is("idle") /\ Idle!Asks(i)
    \/ i = 3 /\ Is("idle") /\ Idle!AllClosed
    \/ i = 1 /\ Is("torn")
    \/ i = 2 /\ Is("torn") /\ Torn!BridgeOver
    \/ i = 1 /\ Is("killed") /\ Killed!ToldToExit
    \/ i = 1 /\ Is("no_files")
    \/ i = 1 /\ Is("keys")
LoginOver(i) ==
    \/ i = 1 /\ Is("calm") /\ ~Calm!InProxy
    \/ i = 2 /\ Is("calm") /\ Calm!ThreadOver
    \/ i \in 1..2 /\ Is("idle") /\ Idle!Served(i)
    \/ i = 3 /\ Is("idle") /\ Idle!Stopped
    \/ i = 1 /\ Is("torn") /\ Torn!Decided
    \/ i = 2 /\ Is("torn") /\ Torn!Ended
    \/ Is("killed") /\ Killed!RelayOver
    \/ Is("no_files") /\ Unknown!SshOver
    \/ Is("keys") /\ AddKeys!OpenOver
LoginEnds == \A i \in 1..3 : LoginBegun(i) ~> LoginOver(i)
=============================================================================
