------------------------------ MODULE MCCBridge ------------------------------
(***************************************************************************)
(* Instances for TLC of the bridge written in C and of the libraries it    *)
(* shares with cockpit-ws: router, transport, pipes, channels, packages    *)
(* and D-Bus.  The modules share no state, so that every behaviour is one  *)
(* of one module: `scenario' says of which, and of which instance, and the *)
(* slots hold its variables.                                               *)
(***************************************************************************)
EXTENDS Integers, Sequences, FiniteSets, TLC

CONSTANT Scenarios  \* the scenarios of a run

VARIABLES scenario, v1, v2, v3, v4, v5, v6, v7

Is(s) == scenario = s

Unused == "unused"  \* in a slot that a module does not need

-----------------------------------------------------------------------------
(* The router: a peer that cannot be run, one that takes streams, and one  *)
(* for other hosts; a stream on this host and two channels on another.     *)
PeerMatches ==
    ("bad" :> ("payload" :> "fsread1")) @@ ("any" :> ("payload" :> "stream"))
    @@ ("host" :> ("host" :> "any"))
OpenOf(payload, group, more) == [options |-> ("payload" :> payload) @@ more, group |-> group]
RoutedOpts ==
    ("i" :> OpenOf("fsread1", "default", "host" :> <<"there">>))
    @@ ("s" :> OpenOf("stream", "default", "host" :> <<"here">>))
    @@ ("h" :> OpenOf("stream", "default",
                      ("host" :> <<"there", "key", "k">>) @@ ("user" :> "self")))
(* Two fences and a stream.                                                *)
FenceOpts ==
    ("f" :> OpenOf("fsread1", "fence", <<>>))
    @@ ("g" :> OpenOf("fsread1", "fence", <<>>))
    @@ ("s" :> OpenOf("stream", "default", "temp-session" :> TRUE))
Routes == INSTANCE BridgeRouter WITH r <- v1, client <- v2, Channels <- {"s", "h", "i"},
    Peers <- <<"bad", "any", "host">>, Payloads <- {"fsread1", "stream"}, InitHost <- "here",
    Opts <- RoutedOpts, Matches <- PeerMatches, HasProblem <- {}, HasTimeout <- {"host"},
    Unspawnable <- {"bad"}, Faults <- {"protocol", "die", "failinit", "noinit"},
    MaxData <- 1, MaxStarts <- 2
Fences == INSTANCE BridgeRouter WITH r <- v1, client <- v2, Channels <- {"f", "g", "s"},
    Peers <- <<"any">>, Payloads <- {"fsread1", "stream"}, InitHost <- "here",
    Opts <- FenceOpts, Matches <- "any" :> PeerMatches["any"], HasProblem <- {"any"},
    HasTimeout <- {"any"}, Unspawnable <- {}, Faults <- {"failinit", "die"},
    MaxData <- 1, MaxStarts <- 2
Superusers == INSTANCE BridgeSuperuser WITH r <- v1, peers <- v2, calls <- v3,
    Bridges <- {"sudo", "pkexec"}, MaxCalls <- 2, MaxPrompts <- 2, Privileged <- {TRUE, FALSE}
OneRule == INSTANCE BridgeSuperuser WITH r <- v1, peers <- v2, calls <- v3,
    Bridges <- {"sudo"}, MaxCalls <- 2, MaxPrompts <- 1, Privileged <- {TRUE}

(* Pipes, and the streams of sockets.                                      *)
Pipes == INSTANCE Pipe WITH p <- v1, peer <- v2, Kinds <- {"socket", "process", "failed"},
    MaxBlock <- 2, Iov <- 2, QueuePressure <- 3, Room <- 2, MaxTaken <- 4, MaxWrote <- 2,
    Faults <- {"io", "again", "connect", "throttle"}
PipeCloses == INSTANCE Pipe WITH p <- v1, peer <- v2, Kinds <- {"socket", "process", "failed"},
    MaxBlock <- 2, Iov <- 2, QueuePressure <- 3, Room <- 2, MaxTaken <- 2, MaxWrote <- 1,
    Faults <- {}
Sockets == INSTANCE Stream WITH s <- v1, Blocks <- {1, 2}, MaxBytes <- 4, MaxIn <- 2,
    Pressure <- 2, Faults <- TRUE, Throttles <- TRUE, MaxToggles <- 2
SocketCloses == INSTANCE Stream WITH s <- v1, Blocks <- {1, 2}, MaxBytes <- 3, MaxIn <- 1,
    Pressure <- 2, Faults <- TRUE, Throttles <- FALSE, MaxToggles <- 0

(* The transport, and the two readers of frames.                           *)
Freezes == INSTANCE Transport WITH t <- v1, wire <- v2, sent <- v3, Channels <- {"a", "b"},
    MaxData <- 2, MaxPings <- 1, Broken <- {"noprefix", "badlength", "badcommand"},
    frames <- v1, stream <- v2, buf <- v3, pos <- v4, got <- v5, state <- v6, block <- v7,
    MaxDigits <- 4, Initial <- 3, Sizes <- {1, 2, 12}, MaxFrames <- 2, MaxBytes <- 24
Delivers == INSTANCE Transport WITH t <- v1, wire <- v2, sent <- v3, Channels <- {"a", "b"},
    MaxData <- 1, MaxPings <- 1, Broken <- {},
    frames <- v1, stream <- v2, buf <- v3, pos <- v4, got <- v5, state <- v6, block <- v7,
    MaxDigits <- 4, Initial <- 3, Sizes <- {1}, MaxFrames <- 1, MaxBytes <- 1

(* Channels on pipes, with flow control and without, and on packets.       *)
Shapes == INSTANCE PipeChannel WITH c <- v1, out <- v2, peer <- v3, FlowPing <- 1, FlowWindow <- 1,
    MaxOut <- 0, MaxIn <- 0, MaxRead <- 1, Client <- {}, OpenOptions <- {}
Piping == INSTANCE PipeChannel WITH c <- v1, out <- v2, peer <- v3, FlowPing <- 2, FlowWindow <- 3,
    MaxOut <- 2, MaxIn <- 1, MaxRead <- 2, Client <- Shapes!Kinds, OpenOptions <- Shapes!PlainOptions
Flowing == INSTANCE PipeChannel WITH c <- v1, out <- v2, peer <- v3, FlowPing <- 3, FlowWindow <- 4,
    MaxOut <- 4, MaxIn <- 1, MaxRead <- 2, Client <- {"close", "options"},
    OpenOptions <- {o \in Shapes!FlowOptions : ~o.binary}
Ending == INSTANCE PipeChannel WITH c <- v1, out <- v2, peer <- v3, FlowPing <- 1, FlowWindow <- 1,
    MaxOut <- 2, MaxIn <- 1, MaxRead <- 1, Client <- {"done"},
    OpenOptions <- {o \in Shapes!FlowOptions : ~o.binary}
Packets == INSTANCE PacketChannel WITH p <- v1, FromClient <- 2, FromPeer <- 3, Pressure <- 2,
    Text <- TRUE, Empty <- TRUE, Polite <- FALSE
Courteous == INSTANCE PacketChannel WITH p <- v1, FromClient <- 2, FromPeer <- 2, Pressure <- 2,
    Text <- FALSE, Empty <- FALSE, Polite <- TRUE

(* Requests to web servers, and web sockets; how connections are made.     *)
Requests == INSTANCE HttpStream WITH h <- v1, Channels <- {"a", "b"}, Kinds <- {"length", "chunked"},
    Body <- 2, Aborts <- FALSE, Faults <- TRUE, Hangups <- FALSE
Hanging == INSTANCE HttpStream WITH h <- v1, Channels <- {"a", "b"}, Kinds <- {"length", "chunked"},
    Body <- 2, Aborts <- FALSE, Faults <- FALSE, Hangups <- TRUE
Answering == INSTANCE HttpStream WITH h <- v1, Channels <- {"a", "b"}, Kinds <- {"length", "chunked"},
    Body <- 1, Aborts <- FALSE, Faults <- TRUE, Hangups <- FALSE
WebSockets == INSTANCE WebSocketStream WITH w <- v1, FromClient <- 2, FromServer <- 2,
    Codes <- {"normal", "protocol", "0"}, Reasons <- {"", "too-bad"}, Unruly <- TRUE, Kills <- TRUE
WebSocketEnds == INSTANCE WebSocketStream WITH w <- v1, FromClient <- 1, FromServer <- 1,
    Codes <- {"normal", "0"}, Reasons <- {""}, Unruly <- FALSE, Kills <- FALSE
Connects == INSTANCE Connect WITH c <- v1,
    Addresses <- {"unix", "port", "port+address", "port-range", "both", "neither", "wrong"},
    Sources <- {"none", "file", "data", "both", "empty", "wrong"}, LocalSet <- TRUE

(* Files and directories.                                                  *)
Writes == INSTANCE FsFile WITH ino <- v1, path <- v2, tmp <- v3, w <- v4, r <- v5, made <- v6,
    Writers <- {"c1", "c2"}, Temps <- 2, Messages <- 1, Outside <- 1, MaxRead <- 2,
    FdLimit <- TRUE, Reading <- FALSE
Reads == INSTANCE FsFile WITH ino <- v1, path <- v2, tmp <- v3, w <- v4, r <- v5, made <- v6,
    Writers <- {"c1"}, Temps <- 2, Messages <- 2, Outside <- 1, MaxRead <- 2,
    FdLimit <- TRUE, Reading <- TRUE
Lists == INSTANCE FsDir WITH dir <- v1, changes <- v2, events <- v3, op <- v4, scan <- v5, c <- v6,
    view <- v7, Names <- {"n1", "n2", "n3"}, Kinds <- {"watch", "list", "list-watch"}, Batch <- 2,
    Changes <- 2, Faults <- FALSE, Closes <- TRUE
ListFaults == INSTANCE FsDir WITH dir <- v1, changes <- v2, events <- v3, op <- v4, scan <- v5, c <- v6,
    view <- v7, Names <- {"n1", "n2"}, Kinds <- {"watch", "list", "list-watch"}, Batch <- 1,
    Changes <- 1, Faults <- TRUE, Closes <- TRUE

(* Metrics: instances that come and go, and archives.                      *)
Sampling == INSTANCE Metrics WITH m <- v1, buf <- v2, client <- v3, ref <- v4,
    Insts <- {"i1", "i2", "i3"}, Omit <- {"i3"}, Values <- {0, 4}, MaxTicks <- 3,
    Derives <- {"none", "rate", "foo"}, Lags <- {1, 2}, Batching <- FALSE
Archives == INSTANCE Metrics WITH m <- v1, buf <- v2, client <- v3, ref <- v4,
    Insts <- {"i1", "i2"}, Omit <- {}, Values <- {0, 4}, MaxTicks <- 3,
    Derives <- {"delta", "foo"}, Lags <- {1}, Batching <- TRUE

(* Packages that differ in what checksums are made of, and in how they are *)
(* listed and served; and the files of a package.                          *)
Pkg(n, f, pr, pg, ft) == [name |-> n, files |-> f, priority |-> pr, page |-> pg, fit |-> ft]
PlainPool ==
    {Pkg(n, f, 1, "there", "ok") : n \in 1..2, f \in {"x", "y"}}
       \cup {Pkg(n, "x", 2, "there", "ok") : n \in 1..2}
       \cup {Pkg(0, "x", 1, "there", "ok")}
KindsPool ==
    {Pkg(1, "x", 1, pg, "ok") : pg \in {"there", "absent", "denied"}}
       \cup {Pkg(1, "y", 2, "there", ft) : ft \in {"ok", "unfit", "later"}}
       \cup {Pkg(2, "x", 1, "there", "ok"), Pkg(2, "y", 1, "absent", "later")}
SystemOnly == <<<<{}, {}>>, <<{Pkg(1, "x", 1, "there", "ok")}, {Pkg(2, "y", 1, "there", "ok")}>>>>
NamedByPlace == <<<<{}, {}>>, <<{Pkg(0, "x", 1, "there", "ok")}, {}>>>>
UserOnly == <<<<{Pkg(1, "x", 1, "there", "ok")}, {}>>, <<{}, {}>>>>
Sums == INSTANCE Packages WITH disk <- v1, pk <- v2, seen <- v3, told <- v4, reply <- v5,
    changes <- v6, calls <- v7, Dirs <- 2, Spots <- 2, Pool <- PlainPool,
    Started <- {SystemOnly, NamedByPlace}, MaxChanges <- 2, MaxReloads <- 3
Listings == INSTANCE Packages WITH disk <- v1, pk <- v2, seen <- v3, told <- v4, reply <- v5,
    changes <- v6, calls <- v7, Dirs <- 2, Spots <- 2, Pool <- KindsPool,
    Started <- {UserOnly}, MaxChanges <- 2, MaxReloads <- 2
Files == INSTANCE Resource WITH in <- v1, out <- v2, MaxFiles <- 2, MaxRoots <- 2, MaxPath <- 5,
    MaxGiven <- 2

(* The cache of a D-Bus service with a tree and an object that are         *)
(* watched, with an object manager and without.                            *)
BothWatches ==
    {[path |-> "/", ns |-> TRUE, iface |-> "*"], [path |-> "a", ns |-> FALSE, iface |-> "I"]}
Caches == INSTANCE DBusCache WITH c <- v1, service <- v2, asked <- v3,
    Objects <- {"a"}, Ifaces <- {"I"}, Watches <- BothWatches, Mentions <- {"a"}, Managers <- {},
    Overlap <- TRUE, Moves <- TRUE, Unwatches <- TRUE, Faults <- TRUE, Inline <- TRUE, MaxValue <- 1,
    MaxMessages <- 2, MaxWatches <- 2
Managed == INSTANCE DBusCache WITH c <- v1, service <- v2, asked <- v3,
    Objects <- {"a"}, Ifaces <- {"I"}, Watches <- BothWatches, Mentions <- {"a"}, Managers <- {"/"},
    Overlap <- TRUE, Moves <- TRUE, Unwatches <- FALSE, Faults <- FALSE, Inline <- FALSE, MaxValue <- 2,
    MaxMessages <- 2, MaxWatches <- 2
Alone == INSTANCE DBusCache WITH c <- v1, service <- v2, asked <- v3,
    Objects <- {"a", "b"}, Ifaces <- {"I"}, Watches <- BothWatches, Mentions <- {"a"}, Managers <- {},
    Overlap <- FALSE, Moves <- FALSE, Unwatches <- FALSE, Faults <- FALSE, Inline <- TRUE, MaxValue <- 1,
    MaxMessages <- 2, MaxWatches <- 2
Batches == INSTANCE DBusCache WITH c <- v1, service <- v2, asked <- v3,
    Objects <- {"a"}, Ifaces <- {"I"}, Watches <- BothWatches, Mentions <- {"a"}, Managers <- {},
    Overlap <- TRUE, Moves <- FALSE, Unwatches <- FALSE, Faults <- TRUE, Inline <- FALSE, MaxValue <- 1,
    MaxMessages <- 1, MaxWatches <- 2

(* Channels of one bus: calls, published objects, and the rules for        *)
(* signals.                                                                *)
Rule(p, ns, i, m, a) == [path |-> p, ns |-> ns, interface |-> i, member |-> m, arg0 |-> a]
SomeRules ==
    {Rule("/", TRUE, "-", "-", "-"), Rule("/a", TRUE, "-", "-", "-"), Rule("/a", FALSE, "I", "-", "-"),
     Rule("/a/b", FALSE, "-", "-", "-"), Rule("/a", TRUE, "I", "M", "-"), Rule("/a", TRUE, "-", "-", "N")}
Signals ==
    [path : {"/", "/a", "/a/b", "/c"}, interface : {"I", "J"}, member : {"M", "N"}, arg0 : {"-", "M", "N"}]
Calls == INSTANCE DBusJson WITH b <- v1, rules <- v1, wanted <- v2, bus <- v3, adds <- v4,
    Channels <- {"A", "B"}, Keys <- {"x"}, Named <- {"A"}, Closes <- TRUE, Reconnects <- FALSE,
    Publishes <- FALSE, Rivals <- FALSE, MaxCalls <- 2, MaxInvocations <- 0,
    Rules <- SomeRules, Messages <- Signals, MaxAdds <- 5
Publishing == INSTANCE DBusJson WITH b <- v1, rules <- v1, wanted <- v2, bus <- v3, adds <- v4,
    Channels <- {"A", "B"}, Keys <- {"x", "y"}, Named <- {"A"}, Closes <- TRUE, Reconnects <- FALSE,
    Publishes <- TRUE, Rivals <- FALSE, MaxCalls <- 0, MaxInvocations <- 2,
    Rules <- {}, Messages <- {}, MaxAdds <- 0
Competing == INSTANCE DBusJson WITH b <- v1, rules <- v1, wanted <- v2, bus <- v3, adds <- v4,
    Channels <- {"A", "B"}, Keys <- {"x"}, Named <- {"A"}, Closes <- TRUE, Reconnects <- FALSE,
    Publishes <- TRUE, Rivals <- TRUE, MaxCalls <- 0, MaxInvocations <- 2,
    Rules <- {}, Messages <- {}, MaxAdds <- 0

(* D-Bus values that go to a client and come back, and JSON of clients,    *)
(* some of it beyond every range.                                          *)
Types == INSTANCE DBusVariant WITH phase <- v1, type <- v2, value <- v3, node <- v4, result <- v5,
    MaxByte <- 2, Max64 <- 5, Samples <- {}, Nodes <- {}, Wanted <- {}
Ints ==
    {Types!Value(Types!Type(k), n) : k \in {"y", "x", "t"}, n \in {0, 1}}
       \cup {Types!Value(Types!Type("x"), -6), Types!Value(Types!Type("x"), 5),
             Types!Value(Types!Type("y"), 2), Types!Value(Types!Type("t"), 5)}
Strings ==
    {Types!Value(Types!Type("s"), Types!Str("plain", 0)), Types!Value(Types!Type("s"), Types!Str("number", 1)),
     Types!Value(Types!Type("o"), Types!Str("path", 0)), Types!Value(Types!Type("g"), Types!Str("sig", 0))}
Basics ==
    Ints \cup Strings
       \cup {Types!Value(Types!Type("b"), TRUE), Types!Value(Types!Type("d"), 1),
             Types!Value([k |-> "ay"], <<1, 2>>), Types!Value([k |-> "ay"], <<>>)}
Variants(vs) == {Types!Value(Types!Type("v"), x) : x \in vs}
Tuples(vs) == {Types!Value([k |-> "tuple", e |-> <<x.t, y.t>>], <<x, y>>) : x \in vs, y \in vs}
Arrays(vs) == {Types!Value([k |-> "a", e |-> x.t], <<x>>) : x \in {w \in vs : w.t.k # "y"}}
Dicts(ks, vs) ==
    {Types!Value([k |-> "dict", key |-> x.t, e |-> y.t], {<<x, y>>}) : x \in ks, y \in vs}
PlainKeys ==
    {w \in Ints : w.t.k # "y"} \cup Strings \cup {Types!Value(Types!Type("b"), TRUE)}
SomeValues ==
    Basics \cup Variants(Basics) \cup Tuples(Basics) \cup Arrays(Basics \cup Variants(Basics))
       \cup Dicts(PlainKeys, Basics) \cup Dicts(Strings, Variants(Strings))
JsonLeaves ==
    {Types!JInt(n) : n \in {-6, -1, 0, 2, 3, 5}} \cup {Types!JDouble(1), Types!JBool(TRUE)}
       \cup {Types!JString(s) : s \in {Types!Str("plain", 0), Types!Str("path", 0), Types!Str("sig", 0),
                                       Types!Base64(<<1>>), Types!CutOff(<<>>), Types!Junk(0, <<1>>),
                                       Types!Junk(2, <<>>), Types!Junk(3, <<1, 2>>)}}
JsonTrees ==
    JsonLeaves \cup {Types!JArray(<<>>)} \cup {Types!JArray(<<x>>) : x \in JsonLeaves}
       \cup {Types!JArray(<<x, y>>) : x \in JsonLeaves,
               y \in {Types!JInt(-1), Types!JInt(2), Types!JDouble(1), Types!JString(Types!Str("plain", 0))}}
       \cup {Types!JObject([s \in {f} |-> x]) : x \in JsonLeaves,
               f \in {Types!Str("plain", 0), Types!Str("number", 1), Types!Str("number", 3), Types!Str("hex", 1)}}
       \cup {Types!JObject([m \in {Types!TName, Types!VName} |->
                 IF m = Types!TName THEN Types!JType(Types!Type(k)) ELSE x]) :
               k \in {"y", "d", "h", "s"}, x \in JsonLeaves}
       \cup {Types!JObject([m \in {Types!TName, Types!Str("plain", 0)} \cup more |->
                 IF m = Types!TName THEN Types!JType(Types!Type("s")) ELSE Types!JString(Types!Str("plain", 0))]) :
               more \in {{}, {Types!VName}}}
SomeTypes ==
    LET basic == {Types!Type(k) : k \in {"b", "y", "x", "t", "d", "s", "o", "g", "h", "ay", "v"}}
    IN  basic \cup {[k |-> "a", e |-> x] : x \in basic}
          \cup {[k |-> "tuple", e |-> <<x, y>>] : x \in basic, y \in {Types!Type("y"), Types!Type("d")}}
          \cup {[k |-> "dict", key |-> x, e |-> y] :
                  x \in {Types!Type(k) : k \in {"s", "y", "x", "o"}}, y \in {Types!Type(k) : k \in {"y", "d", "s"}}}
Conversions == INSTANCE DBusVariant WITH phase <- v1, type <- v2, value <- v3, node <- v4, result <- v5,
    MaxByte <- 2, Max64 <- 5, Samples <- SomeValues, Nodes <- JsonTrees, Wanted <- SomeTypes

ASSUME InstanceAssumption ==
    /\ Routes!BridgeRouterAssumption /\ Fences!BridgeRouterAssumption
    /\ Superusers!BridgeSuperuserAssumption /\ OneRule!BridgeSuperuserAssumption
    /\ Pipes!PipeAssumption /\ PipeCloses!PipeAssumption
    /\ Sockets!StreamAssumption /\ SocketCloses!StreamAssumption
    /\ Freezes!TransportAssumption /\ Freezes!FrameAssumption /\ Delivers!TransportAssumption
    /\ Piping!PipeChannelAssumption /\ Flowing!PipeChannelAssumption /\ Ending!PipeChannelAssumption
    /\ Packets!PacketAssumption /\ Courteous!PacketAssumption
    /\ Requests!HttpAssumption /\ Hanging!HttpAssumption /\ Answering!HttpAssumption
    /\ WebSockets!StreamAssumption /\ WebSocketEnds!StreamAssumption
    /\ Writes!FsFileAssumption /\ Reads!FsFileAssumption
    /\ Lists!FsDirAssumption /\ ListFaults!FsDirAssumption
    /\ Sampling!MetricsAssumption /\ Archives!MetricsAssumption
    /\ Sums!SizesAssumption /\ Sums!PoolAssumption /\ Listings!PoolAssumption
    /\ Caches!CacheAssumption /\ Managed!CacheAssumption /\ Alone!CacheAssumption
    /\ Batches!CacheAssumption /\ Conversions!WidthAssumption
    /\ Calls!JsonAssumption /\ Calls!RulesAssumption /\ Publishing!JsonAssumption
    /\ Competing!JsonAssumption

-----------------------------------------------------------------------------
(* The slots that a module of 1, 2, ... 6 variables leaves alone.          *)
after7 == scenario
after6 == <<v7, after7>>
after5 == <<v6, after6>>
after4 == <<v5, after5>>
after3 == <<v4, after4>>
after2 == <<v3, after3>>
after1 == <<v2, after2>>
slots == <<v1, after1>>

Rest7 == v7 = Unused
Rest6 == v6 = Unused /\ Rest7
Rest5 == v5 = Unused /\ Rest6
Rest4 == v4 = Unused /\ Rest5
Rest3 == v3 = Unused /\ Rest4
Rest2 == v2 = Unused /\ Rest3

(* The scenarios by the number of variables of their modules.              *)
Begin1 ==
    \/ Is("sockets") /\ Sockets!Init
    \/ Is("socket_closes") /\ SocketCloses!Init
    \/ Is("packets") /\ Packets!Init
    \/ Is("courteous") /\ Courteous!Init
    \/ Is("requests") /\ Requests!Init
    \/ Is("hanging") /\ Hanging!Init
    \/ Is("answering") /\ Answering!Init
    \/ Is("websockets") /\ WebSockets!Init
    \/ Is("websocket_ends") /\ WebSocketEnds!Init
    \/ Is("connects") /\ Connects!Init
    \/ (Is("calls") \/ Is("calls_end")) /\ Calls!Init
    \/ Is("publishing") /\ Publishing!Init
    \/ Is("competing") /\ Competing!Init
Begin2 ==
    \/ Is("routes") /\ Routes!Init
    \/ Is("fences") /\ Fences!Init
    \/ Is("pipes") /\ Pipes!Init
    \/ Is("pipe_closes") /\ PipeCloses!Init
    \/ Is("variants") /\ Files!InitNegotiate
    \/ Is("roots") /\ Files!InitFile
    \/ Is("paths") /\ Files!InitPath
    \/ Is("policy") /\ Files!InitPolicy
Begin3 ==
    \/ Is("caches") /\ Caches!Init
    \/ Is("managed") /\ Managed!Init
    \/ Is("alone") /\ Alone!Init
    \/ Is("batches") /\ Batches!Init
    \/ Is("superusers") /\ Superusers!Init
    \/ Is("one_rule") /\ OneRule!Init
    \/ Is("freezes") /\ Freezes!Init
    \/ Is("delivers") /\ Delivers!Init
    \/ Is("piping") /\ Piping!Init
    \/ Is("flowing") /\ Flowing!Init
    \/ Is("ending") /\ Ending!Init
Begin4 ==
    \/ Is("sampling") /\ Sampling!Init
    \/ Is("archives") /\ Archives!Init
    \/ Is("rules") /\ Calls!RulesInit
Begin5 == Is("conversions") /\ Conversions!Init
Begin6 ==
    \/ Is("writes") /\ Writes!Init
    \/ Is("reads") /\ Reads!Init
Begin7 ==
    \/ Is("frames") /\ Freezes!FrameInit
    \/ Is("lists") /\ Lists!Init
    \/ Is("list_faults") /\ ListFaults!Init
    \/ Is("sums") /\ Sums!Init
    \/ Is("listings") /\ Listings!Init
Begin ==
    /\ scenario \in Scenarios
    /\ \/ Begin1 /\ Rest2
       \/ Begin2 /\ Rest3
       \/ Begin3 /\ Rest4
       \/ Begin4 /\ Rest5
       \/ Begin5 /\ Rest6
       \/ Begin6 /\ Rest7
       \/ Begin7

Step ==
    \/ Is("sockets") /\ Sockets!Next /\ UNCHANGED after1
    \/ Is("socket_closes") /\ SocketCloses!Next /\ UNCHANGED after1
    \/ Is("packets") /\ Packets!Next /\ UNCHANGED after1
    \/ Is("courteous") /\ Courteous!Next /\ UNCHANGED after1
    \/ Is("requests") /\ Requests!Next /\ UNCHANGED after1
    \/ Is("hanging") /\ Hanging!Next /\ UNCHANGED after1
    \/ Is("answering") /\ Answering!Next /\ UNCHANGED after1
    \/ Is("websockets") /\ WebSockets!Next /\ UNCHANGED after1
    \/ Is("websocket_ends") /\ WebSocketEnds!Next /\ UNCHANGED after1
    \/ Is("connects") /\ Connects!Next /\ UNCHANGED after1
    \/ (Is("calls") \/ Is("calls_end")) /\ Calls!Next /\ UNCHANGED after1
    \/ Is("publishing") /\ Publishing!Next /\ UNCHANGED after1
    \/ Is("competing") /\ Competing!Next /\ UNCHANGED after1
    \/ Is("routes") /\ Routes!Next /\ UNCHANGED after2
    \/ Is("fences") /\ Fences!Next /\ UNCHANGED after2
    \/ Is("pipes") /\ Pipes!Next /\ UNCHANGED after2
    \/ Is("pipe_closes") /\ PipeCloses!Next /\ UNCHANGED after2
    \/ Is("variants") /\ Files!Negotiate /\ UNCHANGED after2
    \/ Is("roots") /\ Files!ServeFile /\ UNCHANGED after2
    \/ Is("paths") /\ Files!PopPath /\ UNCHANGED after2
    \/ Is("policy") /\ Files!SendPolicy /\ UNCHANGED after2
    \/ Is("superusers") /\ Superusers!Next /\ UNCHANGED after3
    \/ Is("one_rule") /\ OneRule!Next /\ UNCHANGED after3
    \/ Is("freezes") /\ Freezes!Next /\ UNCHANGED after3
    \/ Is("delivers") /\ Delivers!Next /\ UNCHANGED after3
    \/ Is("piping") /\ Piping!Next /\ UNCHANGED after3
    \/ Is("flowing") /\ Flowing!Next /\ UNCHANGED after3
    \/ Is("ending") /\ Ending!Next /\ UNCHANGED after3
    \/ Is("sampling") /\ Sampling!Next /\ UNCHANGED after4
    \/ Is("archives") /\ Archives!Next /\ UNCHANGED after4
    \/ Is("caches") /\ Caches!Next /\ UNCHANGED after3
    \/ Is("managed") /\ Managed!Next /\ UNCHANGED after3
    \/ Is("alone") /\ Alone!Next /\ UNCHANGED after3
    \/ Is("batches") /\ Batches!Next /\ UNCHANGED after3
    \/ Is("rules") /\ Calls!RulesNext /\ UNCHANGED after4
    \/ Is("conversions") /\ Conversions!Next /\ UNCHANGED after5
    \/ Is("writes") /\ Writes!Next /\ UNCHANGED after6
    \/ Is("reads") /\ Reads!Next /\ UNCHANGED after6
    \/ Is("frames") /\ Freezes!FrameNext /\ UNCHANGED after7
    \/ Is("lists") /\ Lists!Next /\ UNCHANGED after7
    \/ Is("list_faults") /\ ListFaults!Next /\ UNCHANGED after7
    \/ Is("sums") /\ Sums!Next /\ UNCHANGED after7
    \/ Is("listings") /\ Listings!Next /\ UNCHANGED after7

CBridge == Begin /\ [][Step]_slots

-----------------------------------------------------------------------------
(* cockpitrouter.c: a channel's messages go to one peer or channel, in     *)
(* order, and to nobody on another host than the one asked for; messages   *)
(* are kept only while something is awaited; and the superuser rules: each *)
(* D-Bus call is replied to once, a current bridge is announced and up.    *)
RoutingSafe ==
    /\ Is("routes") => /\ Routes!TypeOK /\ Routes!InOrder /\ Routes!NothingLost
                       /\ Routes!FrozenForAReason /\ Routes!HostsRespected /\ Routes!IdleTimer
    /\ Is("superusers") => /\ Superusers!TypeOK /\ Superusers!RepliedOnce /\ Superusers!RuleHasPeer
                           /\ Superusers!CurrentAnnounced /\ Superusers!CurrentOnlyWhenUp
                           /\ Superusers!AnsweredOnce /\ Superusers!SuperuserRespected

(* Steps of the bridge: no channel passes an open fence, and "read" tells  *)
(* of the end of a pipe once and not after "close".                        *)
FenceHolds ==
    [][/\ Is("fences") => Fences!FenceHolds
       /\ Is("pipes") => Pipes!EofOnce]_slots

(* cockpitpipe.c and cockpitstream.c: "close" comes once, bytes are        *)
(* neither lost nor repeated, pressure follows the queue, whatever fails   *)
(* or ends first, and nothing is polled after it was closed.               *)
PipeSafe ==
    /\ Is("pipes") => /\ Pipes!TypeOK /\ Pipes!CloseOnce /\ Pipes!BytesConserved
                      /\ Pipes!PressureAgrees /\ Pipes!ReadAll /\ Pipes!PolledOpen
    /\ Is("sockets") => /\ Sockets!TypeOK /\ Sockets!ClosedOnce /\ Sockets!SentInOrder
                        /\ Sockets!PressureExact /\ Sockets!OutputWatched

(* cockpittransport.c and cockpitpipetransport.c: messages reach each      *)
(* channel in order, not before it is ready, and none stays frozen; and    *)
(* cockpitframe.c: both readers return the frames that were written and    *)
(* the blocking one takes nothing of the next.                             *)
TransportSafe ==
    /\ Is("freezes") => /\ Freezes!TypeOK /\ Freezes!InOrder /\ Freezes!HeldUntilReady
                        /\ Freezes!NothingStuck /\ Freezes!ClosedOnce
    /\ Is("frames") => /\ Freezes!FrameTypeOK /\ Freezes!FramesExact /\ Freezes!NeverPastFrame
                       /\ Freezes!ReadersAgree /\ Freezes!HeaderSuffices

(* cockpitchannel.c with cockpitpipechannel.c: output is sent on whole and *)
(* in order, characters are not cut, pings are answered in order, there is *)
(* one "close", and reading stops exactly while the client is behind; and  *)
(* cockpitpacketchannel.c: the boundaries of packets are kept.             *)
ChannelSafe ==
    /\ Is("piping") => /\ Piping!TypeOK /\ Piping!OutputKept /\ Piping!CharactersWhole
                       /\ Piping!ClosedOnce /\ Piping!PongsInOrder /\ Piping!InputInOrder
    /\ Is("flowing") => Flowing!PressureExact /\ Flowing!PressureWillEnd
    /\ Is("packets") => Packets!TypeOK /\ Packets!PressureExact /\ Packets!PacketsKept
    /\ Is("courteous") => Courteous!DoneHonoured

(* cockpithttpstream.c: a channel gets the response to its own request,    *)
(* complete or with a problem, also on a connection that is used again;    *)
(* cockpitwebsocketstream.c: everything is let go once, nothing is         *)
(* delivered before "ready" nor dropped, a clean end is a complete one;    *)
(* and cockpitconnect.c, by which both connect: who is not on this machine *)
(* is validated, with the authority that was given, and no temporary file  *)
(* stays.                                                                  *)
HttpSafe ==
    /\ Is("requests") => Requests!TypeOK /\ Requests!OwnResponse /\ Requests!CompleteResponse
    /\ Is("hanging") => Hanging!OwnResponse /\ Hanging!CompleteResponse
    /\ Is("answering") => Answering!KeptClean
    /\ Is("websockets") => /\ WebSockets!TypeOK /\ WebSockets!Released /\ WebSockets!RecvReady
                           /\ WebSockets!NothingDropped /\ WebSockets!CompleteEnd
    /\ Is("websocket_ends") => WebSocketEnds!CloseLast
    /\ Is("connects") => /\ Connects!RefsHeld /\ Connects!RemoteValidated /\ Connects!AuthorityChecked
                         /\ Connects!OptionsGood /\ Connects!TempCleaned

(* cockpitfsread.c, cockpitfsreplace.c, cockpitfswatch.c, cockpitfslist.c: *)
(* no update is lost to a writer with a tag, the file is whole whenever it *)
(* is seen, tags that are told are true, no temporary file stays, a reader *)
(* gets what it is told it read; a listing misses nothing that stays.      *)
FsSafe ==
    /\ Is("writes") => /\ Writes!TypeOK /\ Writes!NoLostUpdate /\ Writes!PathWhole
                       /\ Writes!ToldTrue /\ Writes!TempsOwned
    /\ Is("reads") => Reads!ReadExact /\ Reads!ReadUndisturbed
    /\ Is("lists") => Lists!TypeOK /\ Lists!ReadyLast /\ Lists!NoneMissed /\ Lists!LastTagTrue
    /\ Is("list_faults") => ListFaults!ReadyLast /\ ListFaults!NoneMissed /\ ListFaults!LastTagTrue

(* cockpitmetrics.c: the client can decode every compressed message to the *)
(* values that were sampled, by instance, and derived values are right,    *)
(* although instances come and go between two samples.                     *)
MetricsSafe ==
    /\ Is("sampling") => /\ Sampling!TypeOK /\ Sampling!LayoutTold /\ Sampling!DecodeExact
                         /\ Sampling!DerivedTrue /\ Sampling!TicksWhileOpen
    /\ Is("archives") => Archives!DecodeExact

(* cockpitpackages.c: a checksum stands for the files that were read when  *)
(* it was computed, clients are told the manifests there are, the best     *)
(* package is listed and served; and the files of a package: the variant,  *)
(* the root, the path and the policy that a response is made with.         *)
PackagesSafe ==
    /\ Is("sums") => /\ Sums!TypeOK /\ Sums!SafeChecksum /\ Sums!SumHoldsFiles /\ Sums!ToldManifests
    /\ Is("listings") => Listings!BestListed /\ Listings!Served /\ Listings!BridgesRanked
    /\ Is("variants") => Files!BestVariant /\ Files!MarkedVariant
    /\ Is("roots") => Files!FirstRoot /\ Files!PackedAsAsked
    /\ Is("paths") => Files!PathKept
    /\ Is("policy") => Files!GivenWins /\ Files!OriginAllowed

(* cockpitdbuscache.c: batches are counted, replies and signals are sent   *)
(* in the order of the bus and after what they refer to, a watching client *)
(* follows the service and a watch is answered with all there is.          *)
CacheSafe ==
    /\ Is("caches") => /\ Caches!TypeOK /\ Caches!RefsExact /\ Caches!BarrierHolds /\ Caches!InOrder
                       /\ Caches!ClientFollows /\ Caches!MetaFirst /\ Caches!FlushedOnDispose
    /\ Is("managed") => /\ Managed!RefsExact /\ Managed!InOrder /\ Managed!ClientFollows
                        /\ Managed!FollowsService
    /\ Is("alone") => Alone!WatchAnswered

(* cockpitdbusjson.c: a call is answered once and a channel is ready       *)
(* first, invocations of published objects are answered and the tables of  *)
(* objects agree; cockpitdbusrules.c: signals are sent on exactly as asked *)
(* for; and the JSON of D-Bus values means the same on both sides.         *)
DBusSafe ==
    /\ Is("calls") => Calls!TypeOK /\ Calls!AnsweredOnce /\ Calls!ReadyFirst /\ Calls!QuietWhenClosed
    /\ Is("publishing") => Publishing!InvocationsAnswered /\ Publishing!TablesAgree
    /\ Is("competing") => Competing!InvocationsAnswered
    /\ Is("rules") => Calls!ShortCutsExact /\ Calls!SignalsWanted /\ Calls!BusAgrees
    /\ Is("conversions") => /\ Conversions!OnlyFitting /\ Conversions!ReadFaithfully
                            /\ Conversions!RoundTrip

-----------------------------------------------------------------------------
(* The main loop and its threads run what is due: input, output and        *)
(* time-out sources, callbacks of what has completed.  Peers that are      *)
(* started send "init" or end, fences are closed, the bus and services     *)
(* answer, the other ends of pipes and sockets read what they are sent     *)
(* and end when there is no more.  Nobody has to open, send or close.      *)
(* Due and Serve are what three of the scenarios wait for: peers that      *)
(* start and fences, answers of a service, and what came from a server.    *)
(* (Weak fairness of Serve, with the states that enable it spelled out.)   *)
Due ==
    \/ Is("fences") /\ (Fences!Starting("any") \/ Fences!Fencing("f") \/ Fences!Fencing("g"))
    \/ Is("batches") /\ Batches!Pending
    \/ Is("answering") /\ Answering!Unread
Serve ==
    \/ /\ Is("fences")
       /\ \/ Fences!PeerInits("any") \/ Fences!PeerFailsInit("any") \/ Fences!PeerDies("any")
          \/ \E c \in {"f", "g"} : Fences!Fencing(c) /\ Fences!LocalCloses(c)
    \/ Is("batches") /\ Batches!AnswerStep
    \/ Is("answering") /\ Answering!ReadStep
Fair ==
    /\ []<>~Due \/ []<><<Serve>>_slots
    /\ WF_<<v1, v2, v3>>(/\ Is("one_rule") /\ v2["sudo"].other # 0
                         /\ ~v2["sudo"].inited \/ v2["sudo"].closing
                         /\ OneRule!PeerInits("sudo") \/ OneRule!PeerEnds("sudo"))
    \* The sources of a pipe; the other end reads, and ends when there is no more to read.
    /\ WF_<<v1, v2>>(Is("pipe_closes") /\ PipeCloses!Input)
    /\ WF_<<v1, v2>>(Is("pipe_closes") /\ PipeCloses!ErrorInput)
    /\ WF_<<v1, v2>>(Is("pipe_closes") /\ PipeCloses!Output)
    /\ WF_<<v1, v2>>(Is("pipe_closes") /\ PipeCloses!Reap)
    /\ WF_<<v1, v2>>(Is("pipe_closes") /\ PipeCloses!LaterClose)
    /\ WF_<<v1, v2>>(Is("pipe_closes") /\ PipeCloses!PeerReads)
    /\ WF_<<v1, v2>>(Is("pipe_closes") /\ ~v1.outFd /\ PipeCloses!ChildExits)
    /\ WF_<<v1, v2>>(Is("pipe_closes") /\ (~v1.outFd \/ v1.outDone) /\ PipeCloses!PeerCloses)
    \* Those of a stream; the other side closes when the output was closed.
    /\ WF_v1(Is("socket_closes") /\ SocketCloses!DispatchInput)
    /\ WF_v1(Is("socket_closes") /\ \E n \in 0..3 : SocketCloses!DispatchOutput(n))
    /\ WF_v1(Is("socket_closes") /\ \E ok \in BOOLEAN : SocketCloses!ConnectStream(ok))
    /\ WF_v1(Is("socket_closes") /\ \E ok \in BOOLEAN : SocketCloses!OutputClosed(ok))
    /\ WF_v1(Is("socket_closes") /\ v1.out_closed /\ SocketCloses!PeerCloses)
    \* The transport is read; a fence is released and a channel gets ready.
    /\ WF_<<v1, v2, v3>>(Is("delivers") /\ Delivers!Read)
    /\ WF_<<v1, v2, v3>>(Is("delivers") /\ Delivers!FenceOpens)
    /\ WF_<<v1, v2, v3>>(Is("delivers") /\ Delivers!Ready("a"))
    /\ WF_<<v1, v2, v3>>(Is("delivers") /\ Delivers!Ready("b"))
    \* The process ends its output, the pipe notices, and the client answers pings.
    /\ WF_<<v1, v2, v3>>(Is("ending") /\ Ending!Prepare)
    /\ WF_<<v1, v2, v3>>(Is("ending") /\ Ending!PipeReadsEnd)
    /\ WF_<<v1, v2, v3>>(Is("ending") /\ Ending!PipeEnds)
    /\ WF_<<v1, v2, v3>>(Is("ending") /\ Ending!ClientAnswers)
    /\ WF_<<v1, v2, v3>>(Is("ending") /\ Ending!BufferTimeout)
    \* The peer of a packet channel ends after the end of its input.
    /\ WF_v1(Is("courteous") /\ Courteous!DispatchInput)
    /\ WF_v1(Is("courteous") /\ Courteous!PeerEnds)
    /\ WF_v1(Is("courteous") /\ \E n \in 0..2 : Courteous!DispatchOutput(n, FALSE))
    /\ WF_v1(Is("courteous") /\ \E ok \in BOOLEAN : Courteous!DispatchConnect(ok))
    \* What came from a web socket is read, time-outs fire, and streams end.
    /\ WF_v1(Is("websocket_ends") /\ WebSocketEnds!ReadFrame)
    /\ WF_v1(Is("websocket_ends") /\ WebSocketEnds!ReadEnd)
    /\ WF_v1(Is("websocket_ends") /\ WebSocketEnds!CloseTimeout)
    /\ WF_v1(Is("websocket_ends") /\ WebSocketEnds!IoClosed)
    \* The main loop and the thread that reads a directory go on.
    /\ WF_<<v1, v2, v3, v4, v5, v6, v7>>(Is("list_faults") /\ (ListFaults!PrepareWatch \/ ListFaults!PrepareList))
    /\ WF_<<v1, v2, v3, v4, v5, v6, v7>>(Is("list_faults") /\ ListFaults!ThreadOpens)
    /\ WF_<<v1, v2, v3, v4, v5, v6, v7>>(Is("list_faults") /\ ListFaults!OnEnumeratorReady)
    /\ WF_<<v1, v2, v3, v4, v5, v6, v7>>(Is("list_faults") /\ ListFaults!ThreadReads)
    /\ WF_<<v1, v2, v3, v4, v5, v6, v7>>(Is("list_faults") /\ ListFaults!OnFilesListed)
    /\ WF_<<v1, v2, v3, v4, v5, v6, v7>>(Is("list_faults") /\ ListFaults!OnChanged)
    /\ WF_<<v1, v2, v3, v4, v5, v6, v7>>(Is("list_faults") /\ ListFaults!Dispose)
    \* The bus answers; names appear or are found missing; the cache lets messages pass.
    /\ WF_v1(Is("calls_end") /\ Calls!ConnectionReady)
    /\ \A k \in {"A", "B"} :
         /\ WF_v1(Is("calls_end") /\ Calls!Introspected(k))
         /\ WF_v1(Is("calls_end") /\ Calls!MessageReply(k))
         /\ WF_v1(Is("calls_end") /\ Calls!WaitComplete(k))
         /\ WF_v1(Is("calls_end") /\ (~v1.ch[k].appeared \/ v1.connection = "down")
                /\ (Calls!NameAppeared(k) \/ Calls!NameVanished(k)))

FairCBridge == CBridge /\ Fair

(* What the bridge begins comes to an end: a channel that was opened is    *)
(* handed on or closed, a Start or Stop is replied to, pipes and streams   *)
(* that were asked to close do so, every message is delivered, channels    *)
(* are closed after their processes, packets, responses and sockets, a     *)
(* listing is listed and disposed of, batches end, D-Bus channels become   *)
(* ready or close and their calls are answered.  (A scenario never         *)
(* changes, so that what is begun in one must be over in the same one.)    *)
Begun(i) ==
    \/ i \in 1..3 /\ Is("fences") /\ Fences!Open(<<"f", "g", "s">>[i])
    \/ i = 1 /\ Is("one_rule") /\ OneRule!StartWaits
    \/ i = 2 /\ Is("one_rule") /\ OneRule!StopWaits
    \/ i = 1 /\ Is("pipe_closes") /\ PipeCloses!Asked
    \/ i = 1 /\ Is("socket_closes") /\ SocketCloses!Closing
    \/ i \in 1..2 /\ Is("delivers") /\ Delivers!AllSent(<<"a", "b">>[i])
    \/ i = 1 /\ Is("ending") /\ Ending!Piped
    \/ i = 1 /\ Is("courteous") /\ Courteous!InputOver
    \/ i \in 1..2 /\ Is("answering") /\ Answering!Answered(<<"a", "b">>[i])
    \/ i = 1 /\ Is("websocket_ends") /\ WebSocketEnds!ConnectionOver
    \/ i = 1 /\ Is("list_faults")
    \/ i = 2 /\ Is("list_faults") /\ ListFaults!Closed
    \/ i = 1 /\ Is("batches")
    \/ i \in 1..2 /\ Is("calls_end") /\ Calls!Unsettled(<<"A", "B">>[i])
    \/ i \in 3..4 /\ Is("calls_end") /\ Calls!Calling(<<"A", "B">>[i - 2])
Over(i) ==
    \/ i \in 1..3 /\ Is("fences") /\ Fences!Settled(<<"f", "g", "s">>[i])
    \/ i = 1 /\ Is("one_rule") /\ ~OneRule!StartWaits
    \/ i = 2 /\ Is("one_rule") /\ ~OneRule!StopWaits
    \/ Is("pipe_closes") /\ PipeCloses!Closed
    \/ Is("socket_closes") /\ SocketCloses!Closed
    \/ i \in 1..2 /\ Is("delivers") /\ Delivers!AllGot(<<"a", "b">>[i])
    \/ Is("ending") /\ Ending!ChannelOver
    \/ Is("courteous") /\ Courteous!ChannelOver
    \/ i \in 1..2 /\ Is("answering") /\ Answering!AnswerOver(<<"a", "b">>[i])
    \/ Is("websocket_ends") /\ WebSocketEnds!ChannelOver
    \/ i = 1 /\ Is("list_faults") /\ ListFaults!Listed
    \/ i = 2 /\ Is("list_faults") /\ ListFaults!Disposed
    \/ Is("batches") /\ Batches!BatchesOver
    \/ i \in 1..2 /\ Is("calls_end") /\ ~Calls!Unsettled(<<"A", "B">>[i])
    \/ i \in 3..4 /\ Is("calls_end") /\ ~Calls!Calling(<<"A", "B">>[i - 2])
CBridgeEnds == \A i \in 1..4 : Begun(i) ~> Over(i)
=============================================================================
