---------------------------- MODULE BridgeProofs ----------------------------
(***************************************************************************)
(* Proofs about the bridge, for any set of channels and peers and any      *)
(* bounds: type correctness, that a channel object is shut down exactly    *)
(* once, after its last task, that the router, its endpoints and the       *)
(* client agree (RouterAgrees), and that what the client sees of a channel *)
(* is the lifecycle of ChannelProtocol.                                    *)
(***************************************************************************)
EXTENDS Bridge, FiniteSetTheorems, TLAPS

-----------------------------------------------------------------------------
(* Facts about the channel operators.                                      *)

(* do_close() never clears _close_args, makes or ends no task and does not *)
(* change the class of the channel.                                        *)
LEMMA DoCloseFacts ==
    ASSUME NEW r \in ChanState
    PROVE  /\ DoClose(r) \in ChanState
           /\ DoClose(r).cls = r.cls
           /\ DoClose(r).tasks = r.tasks
           /\ r.closing => DoClose(r).closing
<1>1. CASE r.cls \in {"plain", "tasks"}
  <2>1. DoClose(r) = [r EXCEPT !.closing = TRUE]
    BY <1>1 DEF DoClose
  <2> QED
    BY <2>1 DEF ChanState
<1>2. CASE r.cls = "async"
  <2>1. DoClose(r) = [r EXCEPT !.run = Cancelled(r.run)]
    BY <1>2 DEF DoClose
  <2>2. Cancelled(r.run) \in {"none", "new", "running", "cancelled", "dropped", "finished"}
    BY DEF Cancelled, ChanState
  <2> QED
    BY <2>1, <2>2 DEF ChanState
<1>3. CASE r.cls = "socket"
  <2>1. DoClose(r) = [r EXCEPT !.conn = IF r.conn = "open" THEN "closing" ELSE r.conn]
    BY <1>3 DEF DoClose
  <2> QED
    BY <2>1 DEF ChanState
<1>4. CASE r.cls = "none"
  BY <1>4 DEF DoClose
<1> QED
  BY <1>1, <1>2, <1>3, <1>4 DEF ChanState

(* Calls to a channel never change its class, never make it un-close, and  *)
(* do nothing at all to the tasks of a channel that is closing.            *)
LEMMA RunCallsFacts ==
    ASSUME NEW r \in ChanState, NEW q \in Seq(Call)
    PROVE  /\ RunCalls(r, q) \in ChanState
           /\ RunCalls(r, q).cls = r.cls
           /\ r.closing => RunCalls(r, q).closing /\ RunCalls(r, q).tasks = r.tasks
<1> DEFINE seen == Handled(r, q)
           stop == \E i \in seen : Stops(q[i])
           r1 == IF stop THEN DoClose(r) ELSE r
           data == {i \in seen : q[i].cmd = "data"}
           more == IF r.cls = "tasks" THEN Cardinality(data) ELSE 0
           shut == r1.closing \/ \E i \in seen : Sets(r, q[i])
<1>1. r1 \in ChanState /\ r1.cls = r.cls /\ r1.tasks = r.tasks /\ (r.closing => r1.closing)
  BY DoCloseFacts
<1>2. seen \subseteq 1..Len(q) /\ (r.closing => seen = {})
  BY DEF Handled
<1>3. Cardinality(data) \in Nat /\ (r.closing => Cardinality(data) = 0)
  <2>1. IsFiniteSet(1..Len(q))
    BY FS_Interval
  <2>2. IsFiniteSet(data)
    BY <1>2, <2>1, FS_Subset
  <2>3. data = {} => Cardinality(data) = 0
    BY FS_EmptySet
  <2> QED
    BY <1>2, <2>2, <2>3, FS_CardinalityType
<1>4. more \in Nat /\ (r.closing => more = 0)
  BY <1>3
<1>5. shut \in BOOLEAN /\ (r1.closing => shut)
  BY <1>1 DEF ChanState
<1>6. RunCalls(r, q) = [r1 EXCEPT !.closing = shut, !.tasks = r1.tasks + more]
  BY DEF RunCalls
<1> HIDE DEF seen, stop, r1, data, more, shut
<1>7. RunCalls(r, q) \in ChanState
  <2> DEFINE r2 == [r1 EXCEPT !.closing = shut]
             n == r1.tasks + more
  <2>1. n \in Nat
    BY <1>1, <1>4 DEF ChanState
  <2>2. r2 \in ChanState
    BY <1>1, <1>5 DEF ChanState
  <2>3. RunCalls(r, q) = [r2 EXCEPT !.tasks = n]
    BY <1>6
  <2> HIDE DEF r2, n
  <2> QED
    BY <2>1, <2>2, <2>3 DEF ChanState
<1>8. /\ RunCalls(r, q).cls = r1.cls /\ RunCalls(r, q).closing = shut
      /\ RunCalls(r, q).tasks = r1.tasks + more
  BY <1>1, <1>6 DEF ChanState
<1> QED
  BY <1>1, <1>4, <1>5, <1>7, <1>8 DEF ChanState

-----------------------------------------------------------------------------
(* Facts about the router's operators.                                     *)

TablesType ==
    /\ openChannels \in [Channels -> Endpoint \cup {NoEndpoint}]
    /\ live \in SUBSET Endpoint
    /\ endpoints \in [Endpoint -> SUBSET Channels]
    /\ noEndpoints \in BOOLEAN

OutType ==
    /\ frozen \in SUBSET Endpoint
    /\ queue \in [Endpoint -> Seq(Call)]
    /\ link \in {"open", "closing", "lost"}
    /\ view \in [Channels -> View]

SessionType ==
    /\ eof \in BOOLEAN /\ closed \in BOOLEAN
    /\ done \in BOOLEAN /\ exited \in BOOLEAN
    /\ stray \in SUBSET Channels

(* The type invariant of the router in three parts.                        *)
LEMMA RouterTypeParts == RouterTypeOK <=> TablesType /\ OutType /\ SessionType
BY DEF RouterTypeOK, TablesType, OutType, SessionType

(* A new route keeps no_endpoints in step with the endpoints dict.         *)
LEMMA AddRouteFacts ==
    ASSUME TablesType, EventAgrees, NEW c \in Channels, NEW e \in Endpoint,
           AddRoute(c, e)
    PROVE  TablesType' /\ EventAgrees' /\ live' = live \cup {e}
<1>1. live' = live \cup {e} /\ live' \in SUBSET Endpoint /\ live' # {}
  BY DEF AddRoute, TablesType
<1>2. noEndpoints' = FALSE
  BY DEF AddRoute, EventAgrees, TablesType
<1>3. openChannels' \in [Channels -> Endpoint \cup {NoEndpoint}]
      /\ endpoints' \in [Endpoint -> SUBSET Channels]
  BY DEF AddRoute, TablesType
<1> QED
  BY <1>1, <1>2, <1>3 DEF TablesType, EventAgrees

(* So does removing endpoints.                                             *)
LEMMA RemoveFacts ==
    ASSUME TablesType, EventAgrees, NEW S \in SUBSET Endpoint, RemoveEndpoints(S)
    PROVE  TablesType' /\ EventAgrees' /\ live' = live \ S
<1>1. live' = live \ S /\ live' \in SUBSET Endpoint
  BY DEF RemoveEndpoints, TablesType
<1>2. openChannels' \in [Channels -> Endpoint \cup {NoEndpoint}]
      /\ endpoints' \in [Endpoint -> SUBSET Channels]
  BY DEF RemoveEndpoints, TablesType
<1>3. noEndpoints' = (noEndpoints \/ (S # {} /\ live \subseteq S))
  BY DEF RemoveEndpoints
<1>4. noEndpoints' \in BOOLEAN /\ (noEndpoints' <=> live' = {})
  <2>1. CASE live = {}
    BY <1>1, <1>3, <2>1 DEF EventAgrees
  <2>2. CASE live # {}
    BY <1>1, <1>3, <2>2 DEF EventAgrees, TablesType
  <2> QED
    BY <2>1, <2>2
<1> QED
  BY <1>1, <1>2, <1>4 DEF TablesType, EventAgrees

(* Writing "close" for channels keeps types.                               *)
LEMMA CloseViewFacts ==
    ASSUME NEW S, NEW v \in [Channels -> View], CloseView(S, v)
    PROVE  view' \in [Channels -> View]
BY DEF CloseView, View

(* Thawing or discarding execution queues keeps types.                     *)
LEMMA ReleaseFacts ==
    ASSUME OutType, NEW S, Release(S)
    PROVE  frozen' \in SUBSET Endpoint /\ queue' \in [Endpoint -> Seq(Call)]
BY DEF Release, OutType

(* Shutting endpoints down keeps types, and no_endpoints in step.          *)
LEMMA ShutdownFacts ==
    ASSUME TablesType, OutType, EventAgrees, NEW S \in SUBSET Endpoint,
           ShutdownEndpoints(S)
    PROVE  TablesType' /\ OutType' /\ EventAgrees' /\ live' = live \ S
<1>1. TablesType' /\ EventAgrees' /\ live' = live \ S
  BY RemoveFacts DEF ShutdownEndpoints
<1>2. view' \in [Channels -> View]
  BY CloseViewFacts DEF ShutdownEndpoints, OutType
<1>3. frozen' \in SUBSET Endpoint /\ queue' \in [Endpoint -> Seq(Call)]
  BY ReleaseFacts DEF ShutdownEndpoints
<1>4. link' \in {"open", "closing", "lost"}
  BY DEF ShutdownEndpoints, CloseAfterLast, OutType
<1> QED
  BY <1>1, <1>2, <1>3, <1>4 DEF OutType

(* Queueing a call keeps types.                                            *)
LEMMA EnqueueFacts ==
    ASSUME OutType, NEW e \in Endpoint, NEW k \in Call, Enqueue(e, k)
    PROVE  frozen' \in SUBSET Endpoint /\ queue' \in [Endpoint -> Seq(Call)]
BY DEF Enqueue, OutType

(* Writing a message keeps types.                                          *)
LEMMA WriteFacts ==
    ASSUME OutType, SessionType, NEW c \in Channels, NEW v \in View, Write(c, v)
    PROVE  view' \in [Channels -> View] /\ stray' \in SUBSET Channels
BY DEF Write, OutType, SessionType

(* A command for a channel is a call.                                      *)
LEMMA CallType ==
    ASSUME NEW c \in Channels, NEW cmd \in Commands
    PROVE  call(c, cmd) \in Call
BY DEF call, Call

-----------------------------------------------------------------------------
(* What the proofs carry from state to state.                              *)
Core == TypeOK /\ EventAgrees /\ ShutDownOnce

(* The parts of Core that the tables and the channels are about.           *)
Kept == TablesType /\ OutType /\ ChannelTypeOK /\ EventAgrees /\ ShutDownOnce

(* Core is Kept with the types of the other variables.                     *)
LEMMA CoreParts == Core <=> Kept /\ SessionType /\ PeerTypeOK
BY RouterTypeParts DEF Core, Kept, TypeOK

(* The same for the next state.                                            *)
LEMMA CoreNext ==
    ASSUME Kept', SessionType', PeerTypeOK'
    PROVE  Core'
BY DEF Core, Kept, TypeOK, RouterTypeOK, TablesType, OutType, SessionType

(* If a step removes from the endpoints just the channels that end in it,  *)
(* and no ended channel comes back, ShutDownOnce is kept.                  *)
LEMMA OnceKept ==
    ASSUME ShutDownOnce, NEW S,
           live' = live \ S,
           \A c \in Channels :
              /\ c \in S <=> Finished(chan'[c]) /\ ~Finished(chan[c])
              /\ chan'[c].cls = chan[c].cls
              /\ Finished(chan[c]) => Finished(chan'[c])
    PROVE  ShutDownOnce'
BY DEF ShutDownOnce, Finished

(* close() and _task_done() keep everything in step.                       *)
LEMMA BecomeFacts ==
    ASSUME Kept, NEW c \in Channels, NEW r \in ChanState,
           r.cls = chan[c].cls, Finished(chan[c]) => Finished(r), Become(c, r)
    PROVE  Kept'
<1>1. Ended(c, r) \in SUBSET Endpoint
  BY DEF Ended, Endpoint
<1>2. TablesType' /\ OutType' /\ EventAgrees' /\ live' = live \ Ended(c, r)
  BY <1>1, ShutdownFacts DEF Become, Kept
<1>3. chan' = [chan EXCEPT ![c] = r] /\ chan \in [Channels -> ChanState]
  BY DEF Become, Kept, ChannelTypeOK
<1>4. ChannelTypeOK'
  BY <1>3 DEF ChannelTypeOK
<1>5. ASSUME NEW d \in Channels
      PROVE  /\ d \in Ended(c, r) <=> Finished(chan'[d]) /\ ~Finished(chan[d])
             /\ chan'[d].cls = chan[d].cls
             /\ Finished(chan[d]) => Finished(chan'[d])
  <2>1. CASE d = c
    <3>1. chan'[d] = r
      BY <1>3, <2>1
    <3> QED
      BY <2>1, <3>1 DEF Ended, Ends
  <2>2. CASE d # c
    <3>1. chan'[d] = chan[d]
      BY <1>3, <2>2
    <3> QED
      BY <2>2, <3>1 DEF Ended, Ends
  <2> QED
    BY <2>1, <2>2
<1>6. ShutDownOnce'
  BY <1>2, <1>5, OnceKept DEF Kept
<1> QED
  BY <1>2, <1>4, <1>6 DEF Kept

(* A step that leaves the tables and the tasks alone keeps them in step.   *)
LEMMA QuietFacts ==
    ASSUME Kept, UNCHANGED tables, OutType', ChannelTypeOK',
           \A c \in Channels : /\ chan'[c].cls = chan[c].cls
                               /\ chan'[c].closing = chan[c].closing
                               /\ chan'[c].tasks = chan[c].tasks
    PROVE  Kept'
<1>1. ShutDownOnce'
  BY DEF Kept, tables, ShutDownOnce, Finished
<1> QED
  BY <1>1 DEF Kept, tables, TablesType, EventAgrees

-----------------------------------------------------------------------------
(* The steps of channels.                                                  *)

(* Opening a channel.                                                      *)
LEMMA OpenLocalCore ==
    ASSUME Core, NEW c \in Channels, NEW cls \in Classes,
           OpenLocal(c, cls), UNCHANGED peerVars
    PROVE  Core'
<1>0. Kept /\ SessionType /\ PeerTypeOK
  BY CoreParts
<1>1. TablesType' /\ EventAgrees' /\ live' = live \cup {c}
  BY <1>0, AddRouteFacts DEF OpenLocal, Kept, Endpoint
<1>2. OutType'
  BY <1>0 DEF OpenLocal, Kept, OutType, Endpoint, View
<1>3. NewChan(cls) \in ChanState /\ ~NewChan(cls).closing /\ NewChan(cls).cls # "none"
  BY ClassAssumption DEF NewChan, ChanState
<1>4. chan' = [chan EXCEPT ![c] = NewChan(cls)] /\ chan \in [Channels -> ChanState]
  BY <1>0 DEF OpenLocal, Kept, ChannelTypeOK
<1> HIDE DEF NewChan
<1>5. ChannelTypeOK'
  BY <1>3, <1>4 DEF ChannelTypeOK
<1>6. ShutDownOnce'
  <2>1. ASSUME NEW d \in Channels
        PROVE  d \in live' <=> chan'[d].cls # "none" /\ ~Finished(chan'[d])
    <3>1. CASE d = c
      BY <1>1, <1>3, <1>4, <3>1 DEF Finished
    <3>2. CASE d # c
      BY <1>0, <1>1, <1>4, <3>2 DEF Kept, ShutDownOnce
    <3> QED
      BY <3>1, <3>2
  <2> QED
    BY <2>1 DEF ShutDownOnce
<1>7. SessionType' /\ PeerTypeOK'
  BY <1>0 DEF OpenLocal, session, peerVars, SessionType, PeerTypeOK
<1> QED
  BY <1>1, <1>2, <1>5, <1>6, <1>7, CoreNext DEF Kept

(* Refusing to open one.                                                   *)
LEMMA OpenRefusedCore ==
    ASSUME Core, NEW c \in Channels, OpenRefused(c), UNCHANGED peerVars
    PROVE  Core'
BY DEF Core, OpenRefused, TypeOK, RouterTypeOK, ChannelTypeOK, PeerTypeOK, View,
       EventAgrees, ShutDownOnce, tables, hold, session, peerVars

(* A frame for a channel.                                                  *)
LEMMA LocalFrameCore ==
    ASSUME Core, NEW c \in Channels, NEW cmd \in FrameCommands,
           LocalFrame(c, cmd), UNCHANGED peerVars
    PROVE  Core'
<1>0. Kept /\ SessionType /\ PeerTypeOK
  BY CoreParts
<1>1. SessionType' /\ PeerTypeOK'
  BY <1>0 DEF LocalFrame, session, peerVars, SessionType, PeerTypeOK
<1>2. call(c, cmd) \in Call /\ c \in Endpoint /\ chan[c] \in ChanState
  BY <1>0, CallType DEF FrameCommands, Commands, Endpoint, Kept, ChannelTypeOK
<1>3. CASE /\ Enqueue(c, call(c, cmd))
           /\ UNCHANGED <<tables, session, link, view, stray, chan>>
  <2>1. OutType'
    BY <1>0, <1>2, <1>3, EnqueueFacts DEF Kept, OutType
  <2>2. ChannelTypeOK'
    BY <1>0, <1>3 DEF Kept, ChannelTypeOK
  <2>3. Kept'
    BY <1>0, <1>3, <2>1, <2>2, QuietFacts
  <2> QED
    BY <1>1, <2>3, CoreNext
<1>4. CASE Become(c, RunCalls(chan[c], <<call(c, cmd)>>))
  <2> DEFINE r == RunCalls(chan[c], <<call(c, cmd)>>)
  <2>1. <<call(c, cmd)>> \in Seq(Call)
    BY <1>2
  <2>2. /\ r \in ChanState /\ r.cls = chan[c].cls
        /\ Finished(chan[c]) => Finished(r)
    BY <1>2, <2>1, RunCallsFacts DEF Finished
  <2> HIDE DEF r
  <2>3. Become(c, r)
    BY <1>4 DEF r
  <2>4. Kept'
    BY <1>0, <2>2, <2>3, BecomeFacts
  <2> QED
    BY <1>1, <2>4, CoreNext
<1> QED
  BY <1>3, <1>4 DEF LocalFrame

(* Becoming ready, which runs the calls held back.                         *)
LEMMA ReadyCore ==
    ASSUME Core, NEW c \in Channels, Ready(c), UNCHANGED peerVars
    PROVE  Core'
<1>0. Kept /\ SessionType /\ PeerTypeOK
  BY CoreParts
<1> DEFINE r0 == IF chan[c].cls = "async" THEN chan[c]
                 ELSE [chan[c] EXCEPT !.run = "finished"]
           r == RunCalls(r0, queue[c])
           S == Ended(c, r)
<1>1. chan[c] \in ChanState /\ queue[c] \in Seq(Call) /\ c \in Endpoint
  BY <1>0 DEF Kept, ChannelTypeOK, OutType, Endpoint
<1>2. /\ r0 \in ChanState /\ r0.cls = chan[c].cls
      /\ r0.closing = chan[c].closing /\ r0.tasks = chan[c].tasks
  BY <1>1 DEF ChanState
<1> HIDE DEF r0
<1>3. /\ r \in ChanState /\ r.cls = chan[c].cls
      /\ Finished(chan[c]) => Finished(r)
  BY <1>1, <1>2, RunCallsFacts DEF Finished
<1>4. /\ chan' = [chan EXCEPT ![c] = r]
      /\ RemoveEndpoints(S) /\ Release({c}) /\ CloseAfterLast(S)
      /\ IF S # {} \/ view[c] = "closed"
         THEN CloseView(S, view) /\ stray' = stray \cup {c}
         ELSE view' = [view EXCEPT ![c] = "ready"] /\ UNCHANGED stray
      /\ UNCHANGED session
  BY DEF Ready, r0
<1> HIDE DEF r
<1>5. S \in SUBSET Endpoint
  BY <1>1 DEF Ended, Ends
<1>6. TablesType' /\ EventAgrees' /\ live' = live \ S
  BY <1>0, <1>4, <1>5, RemoveFacts DEF Kept
<1>7. OutType'
  <2>1. frozen' \in SUBSET Endpoint /\ queue' \in [Endpoint -> Seq(Call)]
    BY <1>0, <1>4, ReleaseFacts DEF Kept
  <2>2. link' \in {"open", "closing", "lost"}
    BY <1>0, <1>4 DEF CloseAfterLast, Kept, OutType
  <2>3. view' \in [Channels -> View]
    <3>1. view \in [Channels -> View]
      BY <1>0 DEF Kept, OutType
    <3>2. CASE CloseView(S, view)
      BY <3>1, <3>2, CloseViewFacts
    <3>3. CASE view' = [view EXCEPT ![c] = "ready"]
      BY <3>1, <3>3 DEF View
    <3> QED
      BY <1>4, <3>2, <3>3
  <2> QED
    BY <2>1, <2>2, <2>3 DEF OutType
<1>8. SessionType' /\ PeerTypeOK'
  BY <1>0, <1>4 DEF session, peerVars, SessionType, PeerTypeOK
<1>9. ChannelTypeOK' /\ ShutDownOnce'
  <2>1. chan \in [Channels -> ChanState] /\ ShutDownOnce
    BY <1>0 DEF Kept, ChannelTypeOK
  <2>2. ASSUME NEW d \in Channels
        PROVE  /\ d \in S <=> Finished(chan'[d]) /\ ~Finished(chan[d])
               /\ chan'[d].cls = chan[d].cls
               /\ Finished(chan[d]) => Finished(chan'[d])
    <3>1. CASE d = c
      <4>1. chan'[d] = r
        BY <1>4, <2>1, <3>1
      <4> QED
        BY <1>3, <3>1, <4>1 DEF Ended, Ends
    <3>2. CASE d # c
      <4>1. chan'[d] = chan[d]
        BY <1>4, <2>1, <3>2
      <4> QED
        BY <3>2, <4>1 DEF Ended, Ends
    <3> QED
      BY <3>1, <3>2
  <2>3. ShutDownOnce'
    BY <1>6, <2>1, <2>2, OnceKept
  <2> QED
    BY <1>3, <1>4, <2>1, <2>3 DEF ChannelTypeOK
<1> QED
  BY <1>6, <1>7, <1>8, <1>9, CoreNext DEF Kept

(* The end of the task of do_open(), of another task, and of a transport,  *)
(* and data that closes the channel: all go through close().               *)
LEMMA BecomeCore ==
    ASSUME Core, NEW c \in Channels, NEW r \in ChanState,
           r.cls = chan[c].cls, Finished(chan[c]) => Finished(r),
           Become(c, r), UNCHANGED <<session, stray>>, UNCHANGED peerVars
    PROVE  Core'
<1>0. Kept /\ SessionType /\ PeerTypeOK
  BY CoreParts
<1>1. Kept'
  BY <1>0, BecomeFacts
<1>2. SessionType' /\ PeerTypeOK'
  BY <1>0 DEF session, peerVars, SessionType, PeerTypeOK
<1> QED
  BY <1>1, <1>2, CoreNext

(* Every step of a channel.                                                *)
LEMMA ChannelStepCore ==
    ASSUME Core, NEW c \in Channels, ChannelStep(c)
    PROVE  Core'
<1>0. Kept /\ SessionType /\ PeerTypeOK /\ UNCHANGED peerVars
  BY CoreParts DEF ChannelStep
<1>1. chan \in [Channels -> ChanState] /\ chan[c] \in ChanState
  BY <1>0 DEF Kept, ChannelTypeOK
<1>2. CASE Ready(c)
  BY <1>0, <1>2, ReadyCore
<1>3. CASE RunEnds(c)
  <2> DEFINE r == [chan[c] EXCEPT !.run = "finished", !.closing = TRUE]
  <2>1. r \in ChanState /\ r.cls = chan[c].cls /\ (Finished(chan[c]) => Finished(r))
    BY <1>1 DEF ChanState, Finished
  <2>2. Become(c, r) /\ UNCHANGED <<session, stray>>
    BY <1>3 DEF RunEnds
  <2> HIDE DEF r
  <2> QED
    BY <1>0, <2>1, <2>2, BecomeCore
<1>4. CASE TaskDone(c)
  <2> DEFINE r == [chan[c] EXCEPT !.tasks = chan[c].tasks - 1]
  <2>1. chan[c].tasks \in Nat /\ chan[c].tasks > 0
    BY <1>1, <1>4 DEF TaskDone, ChanState
  <2>2. r \in ChanState /\ r.cls = chan[c].cls /\ (Finished(chan[c]) => Finished(r))
    BY <1>1, <2>1 DEF ChanState, Finished
  <2>3. Become(c, r) /\ UNCHANGED <<session, stray>>
    BY <1>4 DEF TaskDone
  <2> HIDE DEF r
  <2> QED
    BY <1>0, <2>2, <2>3, BecomeCore
<1>5. CASE SocketGarbage(c)
  <2> DEFINE r == [chan[c] EXCEPT !.closing = TRUE]
  <2>1. r \in ChanState /\ r.cls = chan[c].cls /\ (Finished(chan[c]) => Finished(r))
    BY <1>1 DEF ChanState, Finished
  <2>2. Become(c, r) /\ UNCHANGED <<session, stray>>
    BY <1>5 DEF SocketGarbage
  <2> HIDE DEF r
  <2> QED
    BY <1>0, <2>1, <2>2, BecomeCore
<1>6. CASE SocketLost(c)
  <2> DEFINE r == [chan[c] EXCEPT !.conn = "lost", !.closing = TRUE]
  <2>1. r \in ChanState /\ r.cls = chan[c].cls /\ (Finished(chan[c]) => Finished(r))
    BY <1>1 DEF ChanState, Finished
  <2>2. Become(c, r) /\ UNCHANGED <<session, stray>>
    BY <1>6 DEF SocketLost
  <2> HIDE DEF r
  <2> QED
    BY <1>0, <2>1, <2>2, BecomeCore
<1>7. CASE RunDone(c) \/ SocketData(c)
  <2>1. view[c] \in View /\ "done" \in View
    BY <1>0 DEF Kept, OutType, View
  <2>2. (Write(c, view[c]) \/ Write(c, "done")) /\ UNCHANGED <<tables, hold, session, link, chan>>
    BY <1>7 DEF RunDone, SocketData
  <2>3. view' \in [Channels -> View] /\ stray' \in SUBSET Channels
    BY <1>0, <2>1, <2>2, WriteFacts DEF Kept
  <2>4. OutType' /\ ChannelTypeOK' /\ SessionType' /\ PeerTypeOK'
    BY <1>0, <2>2, <2>3 DEF Kept, OutType, ChannelTypeOK, SessionType, PeerTypeOK,
                            hold, session, peerVars
  <2>5. Kept'
    BY <1>0, <2>2, <2>4, QuietFacts
  <2> QED
    BY <2>4, <2>5, CoreNext
<1>8. CASE RunBegins(c) \/ SocketConnected(c) \/ SocketEof(c)
  <2>1. PICK r \in ChanState : /\ chan' = [chan EXCEPT ![c] = r]
                               /\ r.cls = chan[c].cls /\ r.closing = chan[c].closing
                               /\ r.tasks = chan[c].tasks
    <3>1. CASE RunBegins(c)
      <4>1. chan' = [chan EXCEPT ![c] = [chan[c] EXCEPT !.run = "running"]]
        BY <1>1, <3>1 DEF RunBegins
      <4>2. [chan[c] EXCEPT !.run = "running"] \in ChanState
        BY <1>1 DEF ChanState
      <4> WITNESS [chan[c] EXCEPT !.run = "running"] \in ChanState
      <4> QED
        BY <1>1, <4>1 DEF ChanState
    <3>2. CASE SocketConnected(c) \/ SocketEof(c)
      <4>1. PICK w \in {"open", "closing"} :
               chan' = [chan EXCEPT ![c] = [chan[c] EXCEPT !.conn = w]]
        BY <1>1, <3>2 DEF SocketConnected, SocketEof
      <4>2. [chan[c] EXCEPT !.conn = w] \in ChanState
        BY <1>1 DEF ChanState
      <4> WITNESS [chan[c] EXCEPT !.conn = w] \in ChanState
      <4> QED
        BY <1>1, <4>1 DEF ChanState
    <3> QED
      BY <1>8, <3>1, <3>2
  <2>2. ChannelTypeOK'
    BY <1>1, <2>1 DEF ChannelTypeOK
  <2>3. \A d \in Channels : /\ chan'[d].cls = chan[d].cls
                            /\ chan'[d].closing = chan[d].closing
                            /\ chan'[d].tasks = chan[d].tasks
    BY <1>1, <2>1
  <2>4. (UNCHANGED <<view, stray>> \/ Write(c, "done"))
        /\ UNCHANGED <<tables, hold, session, link>>
    BY <1>8 DEF RunBegins, SocketConnected, SocketEof
  <2>5. view' \in [Channels -> View] /\ stray' \in SUBSET Channels
    BY <1>0, <2>4, WriteFacts DEF Kept, OutType, SessionType, View
  <2>6. OutType' /\ SessionType' /\ PeerTypeOK'
    BY <1>0, <2>4, <2>5 DEF Kept, OutType, SessionType, PeerTypeOK,
                            hold, session, peerVars
  <2>7. Kept'
    BY <1>0, <2>2, <2>3, <2>4, <2>6, QuietFacts
  <2> QED
    BY <2>6, <2>7, CoreNext
<1> QED
  BY <1>2, <1>3, <1>4, <1>5, <1>6, <1>7, <1>8 DEF ChannelStep

-----------------------------------------------------------------------------
(* The steps of peers.                                                     *)

(* A step that changes no channel object and removes or adds only peers.   *)
LEMMA PeersOnly ==
    ASSUME ShutDownOnce, UNCHANGED chan, \A c \in Channels : c \in live' <=> c \in live
    PROVE  ShutDownOnce'
BY DEF ShutDownOnce, Finished

(* Forgetting peers keeps types.                                           *)
LEMMA ForgetFacts ==
    ASSUME PeerTypeOK, NEW S, ForgetPeers(S)
    PROVE  PeerTypeOK'
BY DEF PeerTypeOK, ForgetPeers, NoneServed, View

(* Closing one peer.                                                       *)
LEMMA PeerClosedCore ==
    ASSUME Core, NEW p \in Peers, ForgetPeers({p}), ShutdownEndpoints({p}),
           UNCHANGED <<session, stray>>, UNCHANGED chan
    PROVE  Core'
<1>0. Kept /\ SessionType /\ PeerTypeOK
  BY CoreParts
<1>1. TablesType' /\ OutType' /\ EventAgrees' /\ live' = live \ {p}
  BY <1>0, ShutdownFacts DEF Kept, Endpoint
<1>2. ShutDownOnce'
  BY <1>0, <1>1, RouterAssumption, PeersOnly DEF Kept
<1>3. ChannelTypeOK' /\ SessionType'
  BY <1>0 DEF Kept, ChannelTypeOK, SessionType, session
<1>4. PeerTypeOK'
  BY <1>0, ForgetFacts
<1> QED
  BY <1>1, <1>2, <1>3, <1>4, CoreNext DEF Kept

(* Passing a call on to a peer, or holding it back.                        *)
LEMMA ForwardFacts ==
    ASSUME OutType, PeerTypeOK, NEW p \in Peers, NEW k \in Call, Forward(p, k)
    PROVE  /\ frozen' \in SUBSET Endpoint /\ queue' \in [Endpoint -> Seq(Call)]
           /\ toPeer' \in [Peers -> Seq(Call)]
<1>1. CASE Enqueue(p, k) /\ UNCHANGED toPeer
  BY <1>1, EnqueueFacts DEF Endpoint, PeerTypeOK
<1>2. CASE /\ toPeer' = [toPeer EXCEPT ![p] = Append(@, k)]
           /\ UNCHANGED hold
  BY <1>2 DEF PeerTypeOK, OutType, hold
<1> QED
  BY <1>1, <1>2 DEF Forward

(* Opening a channel that a peer serves.                                   *)
LEMMA OpenPeerCore ==
    ASSUME Core, NEW c \in Channels, NEW p \in Peers, OpenPeer(c, p), UNCHANGED chan
    PROVE  Core'
<1>0. Kept /\ SessionType /\ PeerTypeOK
  BY CoreParts
<1>1. TablesType' /\ EventAgrees' /\ live' = live \cup {p}
  BY <1>0, AddRouteFacts DEF OpenPeer, Kept, Endpoint
<1>2. call(c, "open") \in Call
  BY CallType DEF Commands
<1>3. /\ frozen' \in SUBSET Endpoint /\ queue' \in [Endpoint -> Seq(Call)]
      /\ toPeer' \in [Peers -> Seq(Call)]
      /\ peer' \in [Peers -> {"absent", "starting", "init", "up"}]
  <2>1. CASE peer[p] = "absent"
    <3>1. <<call(c, "open")>> \in Seq(Call)
      BY <1>2
    <3>2. /\ peer' = [peer EXCEPT ![p] = "starting"] /\ frozen' = frozen \cup {p}
          /\ queue' = [queue EXCEPT ![p] = <<call(c, "open")>>] /\ UNCHANGED toPeer
      BY <2>1 DEF OpenPeer
    <3> QED
      BY <1>0, <3>1, <3>2 DEF Kept, OutType, PeerTypeOK, Endpoint
  <2>2. CASE peer[p] # "absent"
    <3>1. Forward(p, call(c, "open")) /\ UNCHANGED peer
      BY <2>2 DEF OpenPeer
    <3> QED
      BY <1>0, <1>2, <3>1, ForwardFacts DEF Kept, PeerTypeOK
  <2> QED
    BY <2>1, <2>2
<1>4. OutType' /\ SessionType' /\ PeerTypeOK'
  BY <1>0, <1>3 DEF OpenPeer, Kept, OutType, SessionType, PeerTypeOK, session, View
<1>5. ShutDownOnce' /\ ChannelTypeOK'
  BY <1>0, <1>1, RouterAssumption, PeersOnly DEF Kept, ChannelTypeOK
<1> QED
  BY <1>1, <1>4, <1>5, CoreNext DEF Kept

(* A frame for such a channel.                                             *)
LEMMA PeerFrameCore ==
    ASSUME Core, NEW c \in Channels, NEW p \in Peers, NEW cmd \in FrameCommands,
           PeerFrame(c, p, cmd), UNCHANGED chan
    PROVE  Core'
<1>0. Kept /\ SessionType /\ PeerTypeOK
  BY CoreParts
<1>1. call(c, cmd) \in Call
  BY CallType DEF FrameCommands, Commands
<1>2. /\ frozen' \in SUBSET Endpoint /\ queue' \in [Endpoint -> Seq(Call)]
      /\ toPeer' \in [Peers -> Seq(Call)]
  BY <1>0, <1>1, ForwardFacts DEF PeerFrame, Kept
<1>3. OutType' /\ SessionType' /\ PeerTypeOK' /\ ChannelTypeOK'
  BY <1>0, <1>2 DEF PeerFrame, Kept, OutType, SessionType, PeerTypeOK, ChannelTypeOK, session
<1>4. Kept'
  BY <1>0, <1>3, QuietFacts DEF PeerFrame
<1> QED
  BY <1>3, <1>4, CoreNext

(* A "kill" for the host of a peer.                                        *)
LEMMA KillHostCore ==
    ASSUME Core, NEW p \in Peers, KillHost(p), UNCHANGED chan
    PROVE  Core'
<1>0. Kept /\ SessionType /\ PeerTypeOK
  BY CoreParts
<1> DEFINE k == [chs |-> {}, cmd |-> "killhost"]
<1>1. CASE /\ Enqueue(p, k)
           /\ UNCHANGED <<tables, session, link, view, stray, peerVars>>
  <2>1. k \in Call
    BY DEF Call, Commands
  <2>2. OutType'
    BY <1>0, <1>1, <2>1, EnqueueFacts DEF Kept, OutType, Endpoint
  <2>3. SessionType' /\ PeerTypeOK' /\ ChannelTypeOK'
    BY <1>0, <1>1 DEF Kept, SessionType, PeerTypeOK, ChannelTypeOK, session, peerVars
  <2>4. Kept'
    BY <1>0, <1>1, <2>2, <2>3, QuietFacts
  <2> QED
    BY <2>3, <2>4, CoreNext
<1>2. CASE ForgetPeers({p}) /\ ShutdownEndpoints({p}) /\ UNCHANGED <<session, stray>>
  BY <1>2, PeerClosedCore
<1> QED
  BY <1>1, <1>2 DEF KillHost

(* Every step of a peer.                                                   *)
LEMMA PeerStepCore ==
    ASSUME Core, NEW p \in Peers, PeerStep(p)
    PROVE  Core'
<1>0. Kept /\ SessionType /\ PeerTypeOK /\ UNCHANGED chan
  BY CoreParts DEF PeerStep
<1>1. ASSUME UNCHANGED routerVars, PeerTypeOK'
      PROVE  Core'
  <2>1. OutType' /\ SessionType' /\ ChannelTypeOK' /\ UNCHANGED tables
    BY <1>0, <1>1 DEF Kept, OutType, SessionType, ChannelTypeOK, routerVars, hold, session
  <2>2. Kept'
    BY <1>0, <2>1, QuietFacts
  <2> QED
    BY <1>1, <2>1, <2>2, CoreNext
<1>2. CASE PeerGone(p)
  BY <1>0, <1>2, PeerClosedCore DEF PeerGone
<1>3. CASE PeerInitReceived(p)
  BY <1>0, <1>1, <1>3 DEF PeerInitReceived, PeerTypeOK
<1>4. CASE PeerUp(p)
  <2>1. CASE /\ peer' = [peer EXCEPT ![p] = "up"]
             /\ toPeer' = [toPeer EXCEPT ![p] = @ \o queue[p]]
             /\ Release({p})
             /\ UNCHANGED <<tables, session, link, view, stray, fromPeer, remote>>
    <3>1. queue[p] \in Seq(Call)
      BY <1>0 DEF Kept, OutType, Endpoint
    <3>2. PeerTypeOK'
      BY <1>0, <2>1, <3>1 DEF PeerTypeOK
    <3>3. OutType'
      BY <1>0, <2>1, ReleaseFacts DEF Kept, OutType
    <3>4. SessionType' /\ ChannelTypeOK'
      BY <1>0, <2>1 DEF Kept, SessionType, ChannelTypeOK, session
    <3>5. Kept'
      BY <1>0, <2>1, <3>3, <3>4, QuietFacts
    <3> QED
      BY <3>2, <3>4, <3>5, CoreNext
  <2>2. CASE ForgetPeers({p}) /\ ShutdownEndpoints({p}) /\ UNCHANGED <<session, stray>>
    BY <1>0, <2>2, PeerClosedCore
  <2> QED
    BY <1>4, <2>1, <2>2 DEF PeerUp
<1>5. CASE RemoteRead(p)
  <2>1. PeerTypeOK'
    BY <1>0, <1>5 DEF RemoteRead, PeerTypeOK, View
  <2> QED
    BY <1>1, <1>5, <2>1 DEF RemoteRead
<1>6. ASSUME NEW c \in Channels, RemoteSay(p, c) PROVE Core'
  <2>1. PICK cmd \in {"ready", "data", "done", "close"}, v \in View : Say(p, c, cmd, v)
    BY <1>6 DEF RemoteSay, View
  <2>2. [ch |-> c, cmd |-> cmd] \in Reply
    BY DEF Reply
  <2>3. fromPeer' \in [Peers -> Seq(Reply)]
    BY <1>0, <2>1, <2>2 DEF Say, PeerTypeOK
  <2>4. PeerTypeOK'
    BY <1>0, <1>6, <2>1, <2>3 DEF RemoteSay, Say, PeerTypeOK
  <2> QED
    BY <1>1, <1>6, <2>4 DEF RemoteSay
<1>7. CASE PeerReceived(p)
  <2> DEFINE m == Head(fromPeer[p])
  <2>1. m \in Reply /\ fromPeer' \in [Peers -> Seq(Reply)]
    BY <1>0, <1>7 DEF PeerReceived, PeerTypeOK
  <2>2. m.ch \in Channels /\ m.cmd \in {"ready", "data", "done", "close"}
    BY <2>1 DEF Reply
  <2> HIDE DEF m
  <2>3. /\ IF m.cmd = "close"
           THEN DropChannel(m.ch, p) /\ Write(m.ch, "closed")
           ELSE /\ Write(m.ch, IF m.cmd = "data" THEN view[m.ch] ELSE m.cmd)
                /\ UNCHANGED tables
        /\ UNCHANGED <<hold, session, link, peer, toPeer, remote>>
    BY <1>7 DEF PeerReceived, m
  <2>4. PICK v \in View : Write(m.ch, v)
    BY <1>0, <2>2, <2>3 DEF Kept, OutType, View
  <2>5. view' \in [Channels -> View] /\ stray' \in SUBSET Channels
    BY <1>0, <2>2, <2>4, WriteFacts DEF Kept
  <2>6. OutType' /\ SessionType' /\ PeerTypeOK' /\ ChannelTypeOK'
    BY <1>0, <2>1, <2>3, <2>5 DEF Kept, OutType, SessionType, PeerTypeOK, ChannelTypeOK,
                                  hold, session
  <2>7. TablesType' /\ EventAgrees' /\ live' = live
    BY <1>0, <2>2, <2>3 DEF Kept, DropChannel, TablesType, EventAgrees, tables
  <2>8. ShutDownOnce'
    BY <1>0, <2>7, PeersOnly DEF Kept
  <2> QED
    BY <2>6, <2>7, <2>8, CoreNext DEF Kept
<1> QED
  BY <1>2, <1>3, <1>4, <1>5, <1>6, <1>7 DEF PeerStep

-----------------------------------------------------------------------------
(* The steps that go through all endpoints.                                *)

(* Several channels change at once, and the ones that end are shut down,   *)
(* with some peers.                                                        *)
LEMMA SettleFacts ==
    ASSUME Kept, NEW after \in [Channels -> ChanState], chan' = after,
           NEW C \in SUBSET Channels, NEW P \in SUBSET Peers,
           \A c \in Channels :
              /\ after[c].cls = chan[c].cls
              /\ Finished(chan[c]) => Finished(after[c])
              /\ c \notin C => after[c] = chan[c],
           RemoveEndpoints({c \in C : Ends(c, after[c])} \cup P)
    PROVE  TablesType' /\ EventAgrees' /\ ChannelTypeOK' /\ ShutDownOnce'
<1> DEFINE S == {c \in C : Ends(c, after[c])} \cup P
<1>1. \A c \in Channels : c \in S <=> Finished(after[c]) /\ ~Finished(chan[c])
  BY RouterAssumption DEF Ends
<1>2. S \in SUBSET Endpoint
  BY DEF Endpoint
<1> HIDE DEF S
<1>3. RemoveEndpoints(S)
  BY DEF S
<1>4. TablesType' /\ EventAgrees' /\ live' = live \ S
  BY <1>2, <1>3, RemoveFacts DEF Kept
<1>5. ShutDownOnce'
  BY <1>1, <1>4, OnceKept DEF Kept
<1> QED
  BY <1>4, <1>5 DEF ChannelTypeOK

(* A "kill".                                                               *)
LEMMA KillCore ==
    ASSUME Core, NEW G \in SUBSET Channels, Kill(G)
    PROVE  Core'
<1>0. Kept /\ SessionType /\ PeerTypeOK
  BY CoreParts
<1> DEFINE locals == live \cap Channels \cap G
           peers == live \cap Peers
           k == [chs |-> G, cmd |-> "kill"]
           after == [c \in Channels |-> IF c \in locals \ frozen
                                        THEN RunCalls(chan[c], <<k>>) ELSE chan[c]]
           gone == {c \in locals : Ends(c, after[c])}
<1>1. k \in Call /\ <<k>> \in Seq(Call)
  BY DEF Call, Commands
<1>2. /\ chan' = after
      /\ RemoveEndpoints(gone) /\ CloseView(gone, view) /\ CloseAfterLast(gone)
      /\ queue' = [e \in Endpoint |-> IF e \in (locals \cup peers) \cap frozen
                                      THEN Append(queue[e], k) ELSE queue[e]]
      /\ toPeer' = [p \in Peers |-> IF p \in peers \ frozen
                                    THEN Append(toPeer[p], k) ELSE toPeer[p]]
      /\ UNCHANGED <<frozen, session, stray, peer, fromPeer, remote>>
  BY DEF Kill
<1>3. chan \in [Channels -> ChanState]
  BY <1>0 DEF Kept, ChannelTypeOK
<1> HIDE DEF k
<1>4. ASSUME NEW c \in Channels
      PROVE  /\ after[c] \in ChanState
             /\ after[c].cls = chan[c].cls
             /\ Finished(chan[c]) => Finished(after[c])
             /\ c \notin locals => after[c] = chan[c]
  <2>1. CASE c \in locals \ frozen
    <3>1. after[c] = RunCalls(chan[c], <<k>>) /\ chan[c] \in ChanState
      BY <1>3, <2>1
    <3>2. /\ RunCalls(chan[c], <<k>>) \in ChanState
          /\ RunCalls(chan[c], <<k>>).cls = chan[c].cls
          /\ Finished(chan[c]) => Finished(RunCalls(chan[c], <<k>>))
      BY <1>1, <3>1, RunCallsFacts DEF Finished
    <3> HIDE DEF after
    <3> QED
      BY <2>1, <3>1, <3>2
  <2>2. CASE c \notin locals \ frozen
    BY <1>3, <2>2
  <2> QED
    BY <2>1, <2>2
<1>5. after \in [Channels -> ChanState]
  BY <1>4
<1> HIDE DEF after
<1>6. /\ locals \in SUBSET Channels
      /\ {} \in SUBSET Peers
      /\ chan' = after
      /\ \A c \in Channels :
            /\ after[c].cls = chan[c].cls
            /\ Finished(chan[c]) => Finished(after[c])
            /\ c \notin locals => after[c] = chan[c]
  BY <1>2, <1>4
<1>7. RemoveEndpoints({c \in locals : Ends(c, after[c])} \cup {})
  <2>1. {c \in locals : Ends(c, after[c])} \cup {} = gone
    OBVIOUS
  <2> QED
    BY <1>2, <2>1
<1>8. TablesType' /\ EventAgrees' /\ ChannelTypeOK' /\ ShutDownOnce'
  <2> HIDE DEF locals, gone
  <2> QED
    BY <1>0, <1>5, <1>6, <1>7, SettleFacts
<1>9. OutType'
  <2>1. queue' \in [Endpoint -> Seq(Call)]
    BY <1>0, <1>1, <1>2 DEF Kept, OutType
  <2>2. view' \in [Channels -> View]
    BY <1>0, <1>2, CloseViewFacts DEF Kept, OutType
  <2>3. link' \in {"open", "closing", "lost"}
    BY <1>0, <1>2 DEF Kept, OutType, CloseAfterLast
  <2> QED
    BY <1>0, <1>2, <2>1, <2>2, <2>3 DEF Kept, OutType
<1>10. SessionType' /\ PeerTypeOK'
  <2>1. toPeer' \in [Peers -> Seq(Call)]
    BY <1>0, <1>1, <1>2 DEF PeerTypeOK
  <2> QED
    BY <1>0, <1>2, <2>1 DEF SessionType, PeerTypeOK, session
<1> QED
  BY <1>8, <1>9, <1>10, CoreNext DEF Kept

(* do_close() of every endpoint.                                           *)
LEMMA CloseEndpointsFacts ==
    ASSUME Kept, PeerTypeOK, CloseEndpoints
    PROVE  /\ TablesType' /\ EventAgrees' /\ ChannelTypeOK' /\ ShutDownOnce'
           /\ PeerTypeOK' /\ UNCHANGED stray
           /\ frozen' \in SUBSET Endpoint /\ queue' \in [Endpoint -> Seq(Call)]
           /\ view' \in [Channels -> View]
<1> DEFINE after == [c \in Channels |-> IF c \in live THEN DoClose(chan[c]) ELSE chan[c]]
           C == live \cap Channels
           P == live \cap Peers
           gone == {c \in C : Ends(c, after[c])} \cup P
<1>1. /\ chan' = after
      /\ RemoveEndpoints(gone) /\ CloseView(gone, view) /\ Release(gone)
      /\ ForgetPeers(P) /\ UNCHANGED stray
  BY DEF CloseEndpoints
<1>2. chan \in [Channels -> ChanState]
  BY DEF Kept, ChannelTypeOK
<1>3. ASSUME NEW c \in Channels
      PROVE  /\ after[c] \in ChanState
             /\ after[c].cls = chan[c].cls
             /\ Finished(chan[c]) => Finished(after[c])
             /\ c \notin C => after[c] = chan[c]
  <2>1. CASE c \in live
    <3>1. after[c] = DoClose(chan[c]) /\ chan[c] \in ChanState
      BY <1>2, <2>1
    <3> HIDE DEF after
    <3> QED
      BY <2>1, <3>1, DoCloseFacts DEF Finished
  <2>2. CASE c \notin live
    BY <1>2, <2>2
  <2> QED
    BY <2>1, <2>2
<1>4. after \in [Channels -> ChanState]
  BY <1>3
<1> HIDE DEF after
<1>5. C \in SUBSET Channels /\ P \in SUBSET Peers
  OBVIOUS
<1>6. TablesType' /\ EventAgrees' /\ ChannelTypeOK' /\ ShutDownOnce'
  BY <1>1, <1>3, <1>4, <1>5, SettleFacts
<1> HIDE DEF gone
<1>7. PeerTypeOK'
  BY <1>1, ForgetFacts
<1>8. view' \in [Channels -> View]
  BY <1>1, CloseViewFacts DEF Kept, OutType
<1>9. frozen' \in SUBSET Endpoint /\ queue' \in [Endpoint -> Seq(Call)]
  BY <1>1, ReleaseFacts DEF Kept
<1> QED
  BY <1>1, <1>6, <1>7, <1>8, <1>9

(* close() of the router.                                                  *)
LEMMA CloseRouterCore ==
    ASSUME Core, CloseRouter, link' \in {"closing", "lost"}
    PROVE  Core'
<1>0. Kept /\ SessionType /\ PeerTypeOK
  BY CoreParts
<1>1. closed' = TRUE /\ done' = TRUE /\ eof' = TRUE /\ UNCHANGED exited
  BY DEF CloseRouter
<1>2. CASE eof
  <2>1. UNCHANGED <<tables, hold, view, stray, chan, peerVars>>
    BY <1>2 DEF CloseRouter
  <2>2. OutType' /\ ChannelTypeOK' /\ SessionType' /\ PeerTypeOK'
    BY <1>0, <1>1, <2>1 DEF Kept, OutType, ChannelTypeOK, SessionType, PeerTypeOK,
                            hold, peerVars
  <2>3. Kept'
    BY <1>0, <2>1, <2>2, QuietFacts
  <2> QED
    BY <2>2, <2>3, CoreNext
<1>3. CASE ~eof
  <2>1. CloseEndpoints
    BY <1>3 DEF CloseRouter
  <2>2. /\ TablesType' /\ EventAgrees' /\ ChannelTypeOK' /\ ShutDownOnce'
        /\ PeerTypeOK' /\ UNCHANGED stray
        /\ frozen' \in SUBSET Endpoint /\ queue' \in [Endpoint -> Seq(Call)]
        /\ view' \in [Channels -> View]
    BY <1>0, <2>1, CloseEndpointsFacts
  <2>3. OutType' /\ SessionType'
    BY <1>0, <1>1, <2>2 DEF OutType, SessionType
  <2> QED
    BY <2>2, <2>3, CoreNext DEF Kept
<1> QED
  BY <1>2, <1>3

(* EOF.                                                                    *)
LEMMA EofCore ==
    ASSUME Core, Eof
    PROVE  Core'
<1>0. Kept /\ SessionType /\ PeerTypeOK
  BY CoreParts
<1>1. /\ TablesType' /\ EventAgrees' /\ ChannelTypeOK' /\ ShutDownOnce'
      /\ PeerTypeOK' /\ UNCHANGED stray
      /\ frozen' \in SUBSET Endpoint /\ queue' \in [Endpoint -> Seq(Call)]
      /\ view' \in [Channels -> View]
  BY <1>0, CloseEndpointsFacts DEF Eof
<1>2. link' \in {"open", "closing", "lost"}
  BY <1>0 DEF Eof, Kept, OutType
<1>3. OutType' /\ SessionType'
  BY <1>0, <1>1, <1>2 DEF Eof, OutType, SessionType
<1> QED
  BY <1>1, <1>3, CoreNext DEF Kept

(* The steps of the client.                                                *)
LEMMA ClientStepCore ==
    ASSUME Core, ClientStep
    PROVE  Core'
<1>1. ASSUME NEW c \in Channels, OpenRefused(c), UNCHANGED peerVars PROVE Core'
  BY <1>1, OpenRefusedCore
<1>2. ASSUME NEW c \in Channels, NEW cls \in Classes, OpenLocal(c, cls), UNCHANGED peerVars
      PROVE  Core'
  BY <1>2, OpenLocalCore
<1>3. ASSUME NEW c \in Channels, NEW p \in Peers, OpenPeer(c, p), UNCHANGED chan PROVE Core'
  BY <1>3, OpenPeerCore
<1>4. ASSUME NEW c \in Channels, NEW cmd \in FrameCommands,
             LocalFrame(c, cmd), UNCHANGED peerVars
      PROVE  Core'
  BY <1>4, LocalFrameCore
<1>5. ASSUME NEW c \in Channels, NEW cmd \in FrameCommands, NEW p \in Peers,
             PeerFrame(c, p, cmd), UNCHANGED chan
      PROVE  Core'
  BY <1>5, PeerFrameCore
<1>6. ASSUME NEW S \in Groups \cup {Channels}, Kill(S) PROVE Core'
  <2>1. S \in SUBSET Channels
    BY RouterAssumption
  <2> QED
    BY <1>6, <2>1, KillCore
<1>7. ASSUME NEW p \in Peers, KillHost(p), UNCHANGED chan PROVE Core'
  BY <1>7, KillHostCore
<1>8. CASE Eof
  BY <1>8, EofCore
<1>9. CASE ProtocolError
  BY <1>9, CloseRouterCore DEF ProtocolError
<1> QED
  BY <1>1, <1>2, <1>3, <1>4, <1>5, <1>6, <1>7, <1>8, <1>9 DEF ClientStep

(* The steps of the stdio transport and of communicate().                  *)
LEMMA LinkStepCore ==
    ASSUME Core, LinkStep
    PROVE  Core'
<1>0. Kept /\ SessionType /\ PeerTypeOK
  BY CoreParts
<1>1. ASSUME UNCHANGED <<tables, hold, view, stray, chan, peerVars>>,
             link' \in {"open", "closing", "lost"},
             UNCHANGED <<eof, closed, done>>, exited' \in BOOLEAN
      PROVE  Core'
  <2>1. OutType' /\ ChannelTypeOK' /\ SessionType' /\ PeerTypeOK'
    BY <1>0, <1>1 DEF Kept, OutType, ChannelTypeOK, SessionType, PeerTypeOK,
                      hold, peerVars
  <2>2. Kept'
    BY <1>0, <1>1, <2>1, QuietFacts
  <2> QED
    BY <2>1, <2>2, CoreNext
<1>2. exited \in BOOLEAN /\ link \in {"open", "closing", "lost"}
  BY <1>0 DEF Kept, SessionType, OutType
<1>3. CASE LinkLost
  <2>1. CASE closed
    BY <1>1, <1>2, <1>3, <2>1 DEF LinkLost, session
  <2>2. CASE ~closed
    BY <1>3, <2>2, CloseRouterCore DEF LinkLost
  <2> QED
    BY <2>1, <2>2
<1>4. CASE Exit /\ UNCHANGED <<chan, peerVars>>
  BY <1>1, <1>2, <1>4 DEF Exit
<1>5. CASE LinkAbort /\ UNCHANGED <<chan, peerVars>>
  BY <1>1, <1>2, <1>5 DEF LinkAbort, session
<1> QED
  BY <1>3, <1>4, <1>5 DEF LinkStep

-----------------------------------------------------------------------------
(* The initial state.                                                      *)
LEMMA CoreInit == Init => Core
<1> SUFFICES ASSUME Init PROVE Core
  OBVIOUS
<1>1. RouterTypeOK /\ EventAgrees
  <2>1. TablesType
    BY DEF Init, RouterInit, TablesType
  <2>2. OutType
    BY DEF Init, RouterInit, OutType, View
  <2>3. SessionType
    BY DEF Init, RouterInit, SessionType
  <2>4. EventAgrees
    BY DEF Init, RouterInit, EventAgrees
  <2> QED
    BY <2>1, <2>2, <2>3, <2>4, RouterTypeParts
<1>2. ChannelTypeOK /\ ShutDownOnce
  BY DEF Init, RouterInit, ChannelInit, ChannelTypeOK, ChanState, ShutDownOnce
<1>3. PeerTypeOK
  BY DEF Init, PeerInit, PeerTypeOK, NoneServed, View
<1> QED
  BY <1>1, <1>2, <1>3 DEF Core, TypeOK

(* Every step of the bridge.                                               *)
LEMMA CoreStep == Core /\ [Next]_vars => Core'
<1> SUFFICES ASSUME Core, [Next]_vars PROVE Core'
  OBVIOUS
<1>1. CASE ClientStep
  BY <1>1, ClientStepCore
<1>2. ASSUME NEW c \in Channels, ChannelStep(c) PROVE Core'
  BY <1>2, ChannelStepCore
<1>3. ASSUME NEW p \in Peers, PeerStep(p) PROVE Core'
  BY <1>3, PeerStepCore
<1>4. CASE LinkStep
  BY <1>4, LinkStepCore
<1>5. CASE UNCHANGED vars
  BY <1>5 DEF vars, routerVars, peerVars, tables, hold, session, Core, TypeOK,
              RouterTypeOK, ChannelTypeOK, PeerTypeOK, EventAgrees, ShutDownOnce, Finished
<1> QED
  BY <1>1, <1>2, <1>3, <1>4, <1>5 DEF Next

(* Type correctness of the bridge.                                         *)
THEOREM BridgeTypeCorrect == Spec => []TypeOK
<1>1. Core => TypeOK
  BY DEF Core
<1> QED
  BY <1>1, CoreInit, CoreStep, PTL DEF Spec

(* A channel object leaves the router's endpoints exactly when it is       *)
(* closing and its last task is done, for any number of channels, in every *)
(* interleaving with kills, EOF, protocol errors and its own tasks.        *)
THEOREM ChannelsShutDownOnce == Spec => []ShutDownOnce
<1>1. Core => ShutDownOnce
  BY DEF Core
<1> QED
  BY <1>1, CoreInit, CoreStep, PTL DEF Spec

(* The event that communicate() waits for is set exactly while the router  *)
(* has no endpoint.                                                        *)
THEOREM EventIsAccurate == Spec => []EventAgrees
<1>1. Core => EventAgrees
  BY DEF Core
<1> QED
  BY <1>1, CoreInit, CoreStep, PTL DEF Spec

-----------------------------------------------------------------------------
(* The router, its endpoints and the client agree.                         *)

(* What the proofs carry from state to state, besides Core.                *)
ChannelsAgree == \A c \in Channels : ChannelAgrees(c)
PeersAgree == \A p \in Peers : PeerAgrees(p)
Agreement ==
    /\ TablesAgree /\ ClientAgrees /\ HeldBack /\ SessionAgrees
    /\ ChannelsAgree /\ PeersAgree

-----------------------------------------------------------------------------
(* The tables.                                                             *)

(* An open channel is listed by its endpoint, which the router knows.      *)
LEMMA RouteFacts ==
    ASSUME TablesAgree, NEW c \in Channels
    PROVE  /\ \A e \in Endpoint : openChannels[c] = e <=> c \in endpoints[e]
           /\ \A e \in Endpoint : openChannels[c] = e => e \in live
BY DEF TablesAgree

(* shutdown_endpoint() closes exactly the channels it drops.               *)
LEMMA RemoveAgrees ==
    ASSUME Core, TablesAgree, ClientAgrees, NEW S \in SUBSET Endpoint,
           RemoveEndpoints(S),
           \A c \in Channels : c \in ChannelsOf(S) => view'[c] = "closed",
           \A c \in Channels : c \notin ChannelsOf(S) =>
              (view'[c] \in {"open", "ready", "done"} <=> view[c] \in {"open", "ready", "done"})
    PROVE  TablesAgree' /\ ClientAgrees'
<1>0. /\ openChannels \in [Channels -> Endpoint \cup {NoEndpoint}]
      /\ endpoints \in [Endpoint -> SUBSET Channels]
  BY DEF Core, TypeOK, RouterTypeOK
<1>1. /\ live' = live \ S
      /\ endpoints' = [e \in Endpoint |-> IF e \in S THEN {} ELSE endpoints[e]]
      /\ openChannels' = [c \in Channels |->
                             IF c \in ChannelsOf(S) THEN NoEndpoint ELSE openChannels[c]]
  BY DEF RemoveEndpoints
<1>2. \A c \in Channels : c \in ChannelsOf(S) <=> openChannels[c] \in S
  BY <1>0 DEF ChannelsOf, TablesAgree
<1>3. NoEndpoint \notin Endpoint
  BY RouterAssumption DEF Endpoint
<1>4. ASSUME NEW e \in Endpoint
      PROVE  /\ endpoints'[e] = {c \in Channels : openChannels'[c] = e}
             /\ endpoints'[e] # {} => e \in live'
  <2>1. CASE e \in S
    BY <1>1, <1>2, <1>3, <2>1
  <2>2. CASE e \notin S
    <3>1. endpoints'[e] = endpoints[e] /\ endpoints[e] = {c \in Channels : openChannels[c] = e}
      BY <1>1, <2>2 DEF TablesAgree
    <3>2. \A c \in Channels : openChannels'[c] = e <=> openChannels[c] = e
      BY <1>1, <1>2, <1>3, <2>2
    <3>3. endpoints[e] # {} => e \in live
      BY DEF TablesAgree
    <3> QED
      BY <1>1, <2>2, <3>1, <3>2, <3>3
  <2> QED
    BY <2>1, <2>2
<1>5. TablesAgree'
  BY <1>4 DEF TablesAgree
<1>6. ClientAgrees'
  BY <1>1 DEF ClientAgrees
<1> QED
  BY <1>5, <1>6

(* Tables that stay as they are.                                           *)
LEMMA NothingRemoved ==
    ASSUME TablesType, UNCHANGED tables
    PROVE  RemoveEndpoints({}) /\ ChannelsOf({}) = {}
<1>1. ChannelsOf({}) = {}
  BY DEF ChannelsOf
<1> QED
  BY <1>1 DEF RemoveEndpoints, TablesType, tables

(* A new channel gets a route, from nothing.                               *)
LEMMA AddAgrees ==
    ASSUME Core, TablesAgree, ClientAgrees, NEW c \in Channels, NEW e \in Endpoint,
           AddRoute(c, e), view[c] = "unused", NEW v \in {"open", "ready"},
           view' = [view EXCEPT ![c] = v]
    PROVE  TablesAgree' /\ ClientAgrees'
<1>0. /\ openChannels \in [Channels -> Endpoint \cup {NoEndpoint}]
      /\ endpoints \in [Endpoint -> SUBSET Channels] /\ view \in [Channels -> View]
  BY DEF Core, TypeOK, RouterTypeOK
<1>1. openChannels[c] = NoEndpoint /\ NoEndpoint \notin Endpoint
  BY RouterAssumption DEF ClientAgrees, Endpoint
<1>2. /\ live' = live \cup {e}
      /\ openChannels' = [openChannels EXCEPT ![c] = e]
      /\ endpoints' = [endpoints EXCEPT ![e] = @ \cup {c}]
  BY DEF AddRoute
<1>3. ASSUME NEW f \in Endpoint
      PROVE  /\ endpoints'[f] = {d \in Channels : openChannels'[d] = f}
             /\ endpoints'[f] # {} => f \in live'
  <2>1. endpoints[f] = {d \in Channels : openChannels[d] = f} /\ (endpoints[f] # {} => f \in live)
    BY DEF TablesAgree
  <2>2. CASE f = e
    BY <1>0, <1>1, <1>2, <2>1, <2>2
  <2>3. CASE f # e
    BY <1>0, <1>1, <1>2, <2>1, <2>3
  <2> QED
    BY <2>2, <2>3
<1>4. TablesAgree'
  BY <1>3 DEF TablesAgree
<1>5. ClientAgrees'
  BY <1>0, <1>1, <1>2 DEF ClientAgrees
<1> QED
  BY <1>4, <1>5

(* send_channel_control() of a "close" that a peer sent.                   *)
LEMMA DropAgrees ==
    ASSUME Core, TablesAgree, ClientAgrees, NEW c \in Channels, NEW e \in Endpoint,
           c \in endpoints[e], DropChannel(c, e), view' = [view EXCEPT ![c] = "closed"]
    PROVE  TablesAgree' /\ ClientAgrees'
<1>0. /\ openChannels \in [Channels -> Endpoint \cup {NoEndpoint}]
      /\ endpoints \in [Endpoint -> SUBSET Channels] /\ view \in [Channels -> View]
  BY DEF Core, TypeOK, RouterTypeOK
<1>1. openChannels[c] = e /\ NoEndpoint \notin Endpoint
  BY RouterAssumption DEF TablesAgree, Endpoint
<1>2. /\ live' = live
      /\ openChannels' = [openChannels EXCEPT ![c] = NoEndpoint]
      /\ endpoints' = [endpoints EXCEPT ![e] = @ \ {c}]
  BY DEF DropChannel
<1>3. ASSUME NEW f \in Endpoint
      PROVE  /\ endpoints'[f] = {d \in Channels : openChannels'[d] = f}
             /\ endpoints'[f] # {} => f \in live'
  <2>1. endpoints[f] = {d \in Channels : openChannels[d] = f} /\ (endpoints[f] # {} => f \in live)
    BY DEF TablesAgree
  <2>2. CASE f = e
    BY <1>0, <1>1, <1>2, <2>1, <2>2
  <2>3. CASE f # e
    BY <1>0, <1>1, <1>2, <2>1, <2>3
  <2> QED
    BY <2>2, <2>3
<1>4. TablesAgree'
  BY <1>3 DEF TablesAgree
<1>5. ClientAgrees'
  BY <1>0, <1>1, <1>2 DEF ClientAgrees
<1> QED
  BY <1>4, <1>5

-----------------------------------------------------------------------------
(* The two ends of a peer's pipes.  What crosses them is one call, one     *)
(* frame, or a change of the client's view at a time.                      *)

(* What the client is told of the channels of others does not matter.      *)
LEMMA ViewKept ==
    ASSUME NEW pipe \in Seq(Call), NEW said \in Seq(Reply), NEW far \in [Channels -> View],
           NEW chs \in SUBSET Channels, NEW v, NEW w,
           BothEnds(pipe, said, far, chs, v),
           \A c \in chs : w[c] = v[c],
           \A c \in Channels : w[c] = "unused" => v[c] = "unused"
    PROVE  BothEnds(pipe, said, far, chs, w)
<1>1. Announced(pipe, far, chs, w)
  BY DEF BothEnds, Announced
<1>2. SaysInOrder(said, far, chs, w)
  BY DEF BothEnds, SaysInOrder
<1>3. HasSaid(said, far, w)
  <2>1. \A c \in Channels : far[c] \in {"open", "ready"} => w[c] = v[c]
    BY DEF BothEnds, Announced
  <2> QED
    BY <2>1 DEF BothEnds, HasSaid
<1> QED
  BY <1>1, <1>2, <1>3 DEF BothEnds

(* A peer that is not there has nothing in its pipes.                      *)
LEMMA NothingSaid ==
    ASSUME NEW v
    PROVE  BothEnds(<<>>, <<>>, NoneServed, {}, v)
BY DEF BothEnds, Announced, OpenComesFirst, SaysInOrder, HasSaid, NoneServed

(* A call for one of the peer's channels, or for a group, joins the pipe.  *)
LEMMA PipeGrows ==
    ASSUME NEW pipe \in Seq(Call), NEW said \in Seq(Reply), NEW far \in [Channels -> View],
           NEW chs \in SUBSET Channels, NEW v, NEW k \in Call,
           BothEnds(pipe, said, far, chs, v),
           k.cmd # "open", k.cmd = "kill" \/ k.chs \subseteq chs
    PROVE  BothEnds(Append(pipe, k), said, far, chs, v)
<1> DEFINE new == Append(pipe, k)
<1>1. /\ Len(new) = Len(pipe) + 1 /\ Len(pipe) \in Nat /\ new[Len(pipe) + 1] = k
      /\ \A i \in 1..Len(pipe) : new[i] = pipe[i]
  OBVIOUS
<1> HIDE DEF new
<1>2. \A c \in Channels : k # call(c, "open")
  BY DEF call
<1>3. \A i \in 1..Len(new), c \in Channels :
         new[i] = call(c, "open") => i \in 1..Len(pipe) /\ pipe[i] = call(c, "open")
  BY <1>1, <1>2
<1>4. \A i \in 1..Len(pipe) : i \in 1..Len(new)
  BY <1>1
<1>5. Announced(new, far, chs, v)
  <2>1. \A i \in 1..Len(new), c \in Channels :
          new[i] = call(c, "open") =>
              /\ c \in chs /\ v[c] = "open" /\ far[c] = "unused"
              /\ \A j \in 1..Len(new) : new[j] = call(c, "open") => j = i
    BY <1>3 DEF BothEnds, Announced
  <2>2. \A c \in chs :
          far[c] # "unused" \/ \E i \in 1..Len(new) : new[i] = call(c, "open")
    BY <1>1, <1>4 DEF BothEnds, Announced
  <2> QED
    BY <2>1, <2>2 DEF BothEnds, Announced
<1>6. OpenComesFirst(new, far)
  <2> SUFFICES ASSUME NEW i \in 1..Len(new), NEW c \in new[i].chs,
                      new[i].cmd \notin {"open", "kill"}, far[c] = "unused"
               PROVE  \E j \in 1..(i - 1) : new[j] = call(c, "open")
    BY DEF OpenComesFirst
  <2>1. CASE i \in 1..Len(pipe)
    <3>1. \E j \in 1..(i - 1) : pipe[j] = call(c, "open")
      BY <1>1, <2>1 DEF BothEnds, OpenComesFirst
    <3> QED
      BY <1>1, <2>1, <3>1
  <2>2. CASE i = Len(pipe) + 1
    <3>1. c \in chs
      BY <1>1, <2>2
    <3>2. \E j \in 1..Len(pipe) : pipe[j] = call(c, "open")
      BY <3>1 DEF BothEnds, Announced
    <3> QED
      BY <1>1, <2>2, <3>2
  <2> QED
    BY <1>1, <2>1, <2>2
<1> QED
  BY <1>5, <1>6 DEF BothEnds, new

(* A new channel of the peer: its "open" joins the pipe.                   *)
LEMMA PipeOpens ==
    ASSUME NEW pipe \in Seq(Call), NEW said \in Seq(Reply), NEW far \in [Channels -> View],
           NEW chs \in SUBSET Channels, NEW v \in [Channels -> View], NEW c \in Channels,
           BothEnds(pipe, said, far, chs, v), v[c] = "unused", c \notin chs
    PROVE  BothEnds(Append(pipe, call(c, "open")), said, far, chs \cup {c},
                    [v EXCEPT ![c] = "open"])
<1> DEFINE k == call(c, "open")
           new == Append(pipe, k)
           w == [v EXCEPT ![c] = "open"]
           all == chs \cup {c}
<1>0. k \in Call /\ k.cmd = "open"
  BY DEF call, Call, Commands
<1>1. /\ Len(new) = Len(pipe) + 1 /\ Len(pipe) \in Nat /\ new[Len(pipe) + 1] = k
      /\ \A i \in 1..Len(pipe) : new[i] = pipe[i]
  BY <1>0
<1>2. \A d \in Channels : d # c => w[d] = v[d]
  OBVIOUS
<1>3. w[c] = "open"
  OBVIOUS
<1> HIDE DEF new, w
<1>4. \A d \in Channels : k = call(d, "open") => d = c
  BY DEF call
<1>5. far[c] = "unused" /\ \A i \in 1..Len(pipe) : pipe[i] # k
  BY DEF BothEnds, Announced
<1> HIDE DEF k
<1>6. Announced(new, far, all, w)
  <2>1. ASSUME NEW i \in 1..Len(new), NEW d \in Channels, new[i] = call(d, "open")
        PROVE  /\ d \in all /\ w[d] = "open" /\ far[d] = "unused"
               /\ \A j \in 1..Len(new) : new[j] = call(d, "open") => j = i
    <3>1. CASE d = c
      BY <1>1, <1>3, <1>5, <2>1, <3>1 DEF k
    <3>2. CASE d # c
      <4>1. i \in 1..Len(pipe) /\ pipe[i] = call(d, "open")
        BY <1>1, <1>4, <2>1, <3>2
      <4>2. \A j \in 1..Len(new) : new[j] = call(d, "open") =>
                j \in 1..Len(pipe) /\ pipe[j] = call(d, "open")
        BY <1>1, <1>4, <3>2
      <4> QED
        BY <1>2, <3>2, <4>1, <4>2 DEF BothEnds, Announced
    <3> QED
      BY <3>1, <3>2
  <2>2. ASSUME NEW d \in all, far[d] = "unused"
        PROVE  \E i \in 1..Len(new) : new[i] = call(d, "open")
    <3>1. CASE d = c
      BY <1>1, <3>1 DEF k
    <3>2. CASE d # c
      <4>1. \E i \in 1..Len(pipe) : pipe[i] = call(d, "open")
        BY <2>2, <3>2 DEF BothEnds, Announced
      <4> QED
        BY <1>1, <4>1
    <3> QED
      BY <3>1, <3>2
  <2>3. ASSUME NEW d \in Channels
        PROVE  /\ far[d] \in {"open", "ready", "done"} => d \in all
               /\ far[d] # "unused" => w[d] # "unused"
    BY <1>2, <1>3 DEF BothEnds, Announced
  <2> QED
    BY <2>1, <2>2, <2>3 DEF Announced
<1>7. OpenComesFirst(new, far)
  <2> SUFFICES ASSUME NEW i \in 1..Len(new), NEW d \in new[i].chs,
                      new[i].cmd \notin {"open", "kill"}, far[d] = "unused"
               PROVE  \E j \in 1..(i - 1) : new[j] = call(d, "open")
    BY DEF OpenComesFirst
  <2>1. i \in 1..Len(pipe)
    BY <1>0, <1>1
  <2>2. \E j \in 1..(i - 1) : pipe[j] = call(d, "open")
    BY <1>1, <2>1 DEF BothEnds, OpenComesFirst
  <2> QED
    BY <1>1, <2>1, <2>2, SMTT(30)
<1>8. SaysInOrder(said, far, all, w) /\ HasSaid(said, far, w)
  <2>1. \A i \in 1..Len(said) : said[i].ch \in chs /\ said[i].ch # c
    BY DEF BothEnds, SaysInOrder
  <2>2. SaysInOrder(said, far, all, w)
    BY <1>2, <2>1 DEF BothEnds, SaysInOrder
  <2>3. HasSaid(said, far, w)
    BY <1>2, <1>5 DEF BothEnds, HasSaid
  <2> QED
    BY <2>2, <2>3
<1> QED
  BY <1>6, <1>7, <1>8 DEF BothEnds, new, w, k

(* The process reads a call.                                               *)
LEMMA PipeRead ==
    ASSUME NEW pipe \in Seq(Call), NEW said \in Seq(Reply), NEW far \in [Channels -> View],
           NEW chs \in SUBSET Channels, NEW v,
           BothEnds(pipe, said, far, chs, v), pipe # <<>>
    PROVE  BothEnds(Tail(pipe), said,
                    [c \in Channels |-> IF Head(pipe) = call(c, "open")
                                        THEN "open" ELSE far[c]], chs, v)
<1> DEFINE rest == Tail(pipe)
           now == [c \in Channels |-> IF Head(pipe) = call(c, "open")
                                      THEN "open" ELSE far[c]]
<1>1. /\ Len(pipe) \in Nat /\ Len(pipe) > 0 /\ Len(rest) = Len(pipe) - 1
      /\ Head(pipe) = pipe[1] /\ \A i \in 1..Len(pipe) : pipe[i] \in Call
      /\ \A i \in 1..Len(rest) : rest[i] = pipe[i + 1] /\ i + 1 \in 1..Len(pipe)
  OBVIOUS
<1> HIDE DEF rest
<1>2. \A c \in Channels : pipe[1] = call(c, "open") =>
         /\ far[c] = "unused" /\ c \in chs /\ v[c] = "open" /\ now[c] = "open"
         /\ \A i \in 1..Len(rest) : rest[i] # call(c, "open")
  BY <1>1 DEF BothEnds, Announced
<1>3. \A c \in Channels : pipe[1] # call(c, "open") => now[c] = far[c]
  BY <1>1
<1> HIDE DEF now
<1>4. \A c \in Channels : now[c] = "unused" => far[c] = "unused" /\ pipe[1] # call(c, "open")
  BY <1>2, <1>3
<1>5. Announced(rest, now, chs, v)
  <2>1. ASSUME NEW i \in 1..Len(rest), NEW c \in Channels, rest[i] = call(c, "open")
        PROVE  /\ c \in chs /\ v[c] = "open" /\ now[c] = "unused"
               /\ \A j \in 1..Len(rest) : rest[j] = call(c, "open") => j = i
    <3>1. pipe[i + 1] = call(c, "open") /\ i + 1 \in 1..Len(pipe)
      BY <1>1, <2>1
    <3>2. pipe[1] # call(c, "open")
      BY <1>2, <2>1
    <3>3. c \in chs /\ v[c] = "open" /\ far[c] = "unused"
      BY <3>1 DEF BothEnds, Announced
    <3>4. ASSUME NEW j \in 1..Len(rest), rest[j] = call(c, "open") PROVE j = i
      <4>1. pipe[j + 1] = call(c, "open") /\ j + 1 \in 1..Len(pipe)
        BY <1>1, <3>4
      <4>2. j + 1 = i + 1
        BY <3>1, <4>1 DEF BothEnds, Announced
      <4> QED
        BY <4>2
    <3> QED
      BY <1>3, <3>2, <3>3, <3>4
  <2>2. ASSUME NEW c \in chs, now[c] = "unused"
        PROVE  \E i \in 1..Len(rest) : rest[i] = call(c, "open")
    <3>1. PICK i \in 1..Len(pipe) : pipe[i] = call(c, "open")
      BY <1>4, <2>2 DEF BothEnds, Announced
    <3>2. i # 1
      BY <1>4, <2>2, <3>1
    <3>3. i - 1 \in 1..Len(rest) /\ rest[i - 1] = pipe[i]
      BY <1>1, <3>2
    <3> QED
      BY <3>1, <3>3
  <2>3. ASSUME NEW c \in Channels
        PROVE  /\ now[c] \in {"open", "ready", "done"} => c \in chs
               /\ now[c] # "unused" => v[c] # "unused"
    BY <1>2, <1>3 DEF BothEnds, Announced
  <2> QED
    BY <2>1, <2>2, <2>3 DEF Announced
<1>6. OpenComesFirst(rest, now)
  <2> SUFFICES ASSUME NEW i \in 1..Len(rest), NEW c \in rest[i].chs,
                      rest[i].cmd \notin {"open", "kill"}, now[c] = "unused"
               PROVE  \E j \in 1..(i - 1) : rest[j] = call(c, "open")
    BY DEF OpenComesFirst
  <2>0. rest[i] \in Call /\ c \in Channels
    BY <1>1 DEF Call
  <2>1. PICK j \in 1..i : pipe[j] = call(c, "open")
    <3>1. \E j \in 1..((i + 1) - 1) : pipe[j] = call(c, "open")
      BY <1>1, <1>4, <2>0 DEF BothEnds, OpenComesFirst
    <3> QED
      BY <3>1
  <2>2. j # 1
    BY <1>4, <2>0, <2>1
  <2>3. j - 1 \in 1..Len(rest) /\ rest[j - 1] = pipe[j] /\ j - 1 \in 1..(i - 1)
    BY <1>1, <2>2
  <2> QED
    BY <2>1, <2>3
<1>7. \A i \in 1..Len(said) : now[said[i].ch] = far[said[i].ch]
  <2> SUFFICES ASSUME NEW i \in 1..Len(said) PROVE now[said[i].ch] = far[said[i].ch]
    OBVIOUS
  <2>1. said[i].ch \in chs /\ far[said[i].ch] # "unused"
    BY DEF BothEnds, SaysInOrder
  <2> QED
    BY <1>2, <1>3, <2>1
<1>8. SaysInOrder(said, now, chs, v)
  BY <1>7 DEF BothEnds, SaysInOrder
<1>9. HasSaid(said, now, v)
  <2> SUFFICES ASSUME NEW c \in Channels
               PROVE  /\ now[c] = "open" =>
                            v[c] = "open" /\ \A i \in 1..Len(said) : said[i].ch # c
                      /\ now[c] = "ready" =>
                            /\ v[c] \in {"open", "ready"}
                            /\ \A i \in 1..Len(said) : said[i] # [ch |-> c, cmd |-> "done"]
    BY DEF HasSaid
  <2>1. CASE pipe[1] = call(c, "open")
    BY <1>2, <2>1 DEF BothEnds, SaysInOrder
  <2>2. CASE pipe[1] # call(c, "open")
    BY <1>3, <2>2 DEF BothEnds, HasSaid
  <2> QED
    BY <2>1, <2>2
<1> QED
  BY <1>5, <1>6, <1>8, <1>9 DEF BothEnds, rest, now

(* The process says something of one of its channels.                      *)
LEMMA ProcessSays ==
    ASSUME NEW pipe \in Seq(Call), NEW said \in Seq(Reply), NEW far \in [Channels -> View],
           NEW chs \in SUBSET Channels, NEW v, NEW c \in Channels,
           NEW cmd \in {"ready", "data", "done", "close"}, NEW became,
           BothEnds(pipe, said, far, chs, v),
           \/ far[c] = "open" /\ cmd = "ready" /\ became = "ready"
           \/ far[c] = "ready" /\ cmd = "data" /\ became = "ready"
           \/ far[c] = "ready" /\ cmd = "done" /\ became = "done"
           \/ far[c] \in {"open", "ready", "done"} /\ cmd = "close" /\ became = "closed"
    PROVE  BothEnds(pipe, Append(said, [ch |-> c, cmd |-> cmd]), [far EXCEPT ![c] = became],
                    chs, v)
<1> DEFINE m == [ch |-> c, cmd |-> cmd]
           more == Append(said, m)
           now == [far EXCEPT ![c] = became]
<1>0. m \in Reply /\ m.ch = c /\ m.cmd = cmd
  BY DEF Reply
<1>1. /\ Len(said) \in Nat /\ Len(more) = Len(said) + 1 /\ more[Len(said) + 1] = m
      /\ \A i \in 1..Len(said) : more[i] = said[i] /\ said[i] \in Reply
  BY <1>0
<1>2. now[c] = became /\ \A d \in Channels : d # c => now[d] = far[d]
  OBVIOUS
<1> HIDE DEF more, now
<1>3. /\ far[c] # "unused" /\ became # "unused" /\ became # "open" /\ c \in chs
      /\ v[c] # "unused"
  BY DEF BothEnds, Announced
<1>4. Announced(pipe, now, chs, v) /\ OpenComesFirst(pipe, now)
  <2>1. \A d \in Channels : now[d] = "unused" <=> far[d] = "unused"
    BY <1>2, <1>3
  <2>2. Announced(pipe, now, chs, v)
    <3>1. \A i \in 1..Len(pipe), d \in Channels :
             pipe[i] = call(d, "open") =>
                 /\ d \in chs /\ v[d] = "open" /\ now[d] = "unused"
                 /\ \A j \in 1..Len(pipe) : pipe[j] = call(d, "open") => j = i
      BY <2>1 DEF BothEnds, Announced
    <3>2. \A d \in chs :
             now[d] # "unused" \/ \E i \in 1..Len(pipe) : pipe[i] = call(d, "open")
      BY <2>1 DEF BothEnds, Announced
    <3>3. \A d \in Channels : /\ now[d] \in {"open", "ready", "done"} => d \in chs
                              /\ now[d] # "unused" => v[d] # "unused"
      BY <1>2, <1>3 DEF BothEnds, Announced
    <3> QED
      BY <3>1, <3>2, <3>3 DEF Announced
  <2>3. OpenComesFirst(pipe, now)
    <3> SUFFICES ASSUME NEW i \in 1..Len(pipe), NEW d \in pipe[i].chs,
                        pipe[i].cmd \notin {"open", "kill"}, now[d] = "unused"
                 PROVE  \E j \in 1..(i - 1) : pipe[j] = call(d, "open")
      BY DEF OpenComesFirst
    <3>1. d \in Channels
      <4>1. pipe[i] \in Call
        OBVIOUS
      <4> QED
        BY <4>1 DEF Call
    <3> QED
      BY <2>1, <3>1 DEF BothEnds, OpenComesFirst
  <2> QED
    BY <2>2, <2>3
<1>5. \A i \in 1..Len(said) :
         /\ said[i].ch \in chs /\ said[i].ch \in Channels /\ far[said[i].ch] # "unused"
         /\ said[i].ch = c /\ cmd # "data" => said[i] # m
         /\ far[c] = "open" => said[i].ch # c
         /\ said[i].ch = c => said[i].cmd # "close"
         /\ said[i].cmd = "done" /\ said[i].ch = c => became \in {"done", "closed"}
  <2> SUFFICES ASSUME NEW i \in 1..Len(said)
               PROVE  /\ said[i].ch \in chs /\ said[i].ch \in Channels
                      /\ far[said[i].ch] # "unused"
                      /\ said[i].ch = c /\ cmd # "data" => said[i] # m
                      /\ far[c] = "open" => said[i].ch # c
                      /\ said[i].ch = c => said[i].cmd # "close"
                      /\ said[i].cmd = "done" /\ said[i].ch = c => became \in {"done", "closed"}
    OBVIOUS
  <2>1. said[i] \in Reply /\ said[i].ch \in Channels
    BY <1>1 DEF Reply
  <2>2. said[i].ch \in chs /\ far[said[i].ch] # "unused"
    BY DEF BothEnds, SaysInOrder
  <2>3. said[i].ch = c => said[i].cmd # "close"
    BY DEF BothEnds, SaysInOrder
  <2>4. said[i].cmd = "done" /\ said[i].ch = c => far[c] \in {"done", "closed"}
    BY DEF BothEnds, SaysInOrder
  <2>5. far[c] = "open" => said[i].ch # c
    BY DEF BothEnds, HasSaid
  <2>6. far[c] = "ready" => said[i] # [ch |-> c, cmd |-> "done"]
    BY DEF BothEnds, HasSaid
  <2> QED
    BY <1>0, <2>1, <2>2, <2>3, <2>4, <2>5, <2>6
<1>6. SaysInOrder(more, now, chs, v)
  <2> SUFFICES ASSUME NEW i \in 1..Len(more)
               PROVE  /\ more[i].ch \in chs /\ now[more[i].ch] # "unused"
                      /\ more[i].cmd = "ready" =>
                            /\ v[more[i].ch] = "open"
                            /\ \A j \in 1..(i - 1) : more[j].ch # more[i].ch
                      /\ more[i].cmd = "done" =>
                            /\ v[more[i].ch] \in {"open", "ready"}
                            /\ now[more[i].ch] \in {"done", "closed"}
                            /\ \A j \in 1..Len(more) : more[j] = more[i] => j = i
                      /\ more[i].cmd = "close" =>
                            /\ now[more[i].ch] = "closed"
                            /\ \A j \in (i + 1)..Len(more) : more[j].ch # more[i].ch
    BY DEF SaysInOrder
  <2>1. CASE i = Len(said) + 1
    <3>1. more[i] = m /\ more[i].ch = c /\ more[i].cmd = cmd
      BY <1>0, <1>1, <2>1
    <3>2. cmd = "ready" => v[c] = "open" /\ \A j \in 1..(i - 1) : more[j].ch # c
      <4>1. 1..(i - 1) = 1..Len(said)
        BY <1>1, <2>1
      <4>2. cmd = "ready" => far[c] = "open"
        OBVIOUS
      <4>3. far[c] = "open" => v[c] = "open"
        BY DEF BothEnds, HasSaid
      <4> QED
        BY <1>1, <1>5, <4>1, <4>2, <4>3
    <3>3. cmd = "done" => /\ v[c] \in {"open", "ready"} /\ now[c] \in {"done", "closed"}
                          /\ \A j \in 1..Len(more) : more[j] = m => j = i
      <4>1. cmd = "done" => v[c] \in {"open", "ready"} /\ now[c] = "done"
        BY <1>2 DEF BothEnds, HasSaid
      <4>2. cmd = "done" => \A j \in 1..Len(said) : more[j] # m
        BY <1>0, <1>1, <1>5
      <4> QED
        BY <1>1, <2>1, <4>1, <4>2
    <3>4. cmd = "close" => now[c] = "closed"
      BY <1>2
    <3>5. (i + 1)..Len(more) = {}
      BY <1>1, <2>1
    <3> QED
      BY <1>2, <1>3, <3>1, <3>2, <3>3, <3>4, <3>5
  <2>2. CASE i \in 1..Len(said)
    <3>0. more[i] = said[i] /\ Len(more) = Len(said) + 1 /\ \A j \in 1..(i - 1) : more[j] = said[j]
      BY <1>1, <2>2
    <3>1. said[i].ch \in chs /\ now[said[i].ch] # "unused"
      BY <1>2, <1>3, <1>5, <2>2
    <3>2. said[i].cmd = "ready" =>
             /\ v[said[i].ch] = "open"
             /\ \A j \in 1..(i - 1) : more[j].ch # said[i].ch
      BY <2>2, <3>0 DEF BothEnds, SaysInOrder
    <3>3. said[i].cmd = "done" =>
             /\ v[said[i].ch] \in {"open", "ready"}
             /\ now[said[i].ch] \in {"done", "closed"}
             /\ \A j \in 1..Len(more) : more[j] = said[i] => j = i
      <4> SUFFICES ASSUME said[i].cmd = "done"
                   PROVE  /\ v[said[i].ch] \in {"open", "ready"}
                          /\ now[said[i].ch] \in {"done", "closed"}
                          /\ \A j \in 1..Len(more) : more[j] = said[i] => j = i
        OBVIOUS
      <4>1. /\ v[said[i].ch] \in {"open", "ready"} /\ far[said[i].ch] \in {"done", "closed"}
            /\ \A j \in 1..Len(said) : said[j] = said[i] => j = i
        BY <2>2 DEF BothEnds, SaysInOrder
      <4>2. now[said[i].ch] \in {"done", "closed"}
        BY <1>2, <1>5, <2>2, <4>1
      <4>3. said[i] # m
        BY <1>0, <1>5, <2>2
      <4> QED
        BY <1>1, <4>1, <4>2, <4>3
    <3>4. said[i].cmd = "close" =>
             /\ now[said[i].ch] = "closed"
             /\ \A j \in (i + 1)..Len(more) : more[j].ch # said[i].ch
      <4> SUFFICES ASSUME said[i].cmd = "close"
                   PROVE  /\ now[said[i].ch] = "closed"
                          /\ \A j \in (i + 1)..Len(more) : more[j].ch # said[i].ch
        OBVIOUS
      <4>1. said[i].ch # c
        BY <1>5, <2>2
      <4>2. far[said[i].ch] = "closed" /\ \A j \in (i + 1)..Len(said) : said[j].ch # said[i].ch
        BY <2>2 DEF BothEnds, SaysInOrder
      <4>3. now[said[i].ch] = "closed"
        BY <1>2, <1>5, <2>2, <4>1, <4>2
      <4>4. more[Len(said) + 1].ch # said[i].ch
        BY <1>0, <1>1, <4>1
      <4>5. \A j \in (i + 1)..Len(said) : more[j].ch # said[i].ch
        BY <1>1, <2>2, <4>2
      <4>6. \A j \in (i + 1)..Len(more) : j = Len(said) + 1 \/ j \in (i + 1)..Len(said)
        BY <1>1, <2>2
      <4> QED
        BY <4>3, <4>4, <4>5, <4>6
    <3> QED
      BY <3>0, <3>1, <3>2, <3>3, <3>4
  <2> QED
    BY <1>1, <2>1, <2>2
<1>7. HasSaid(more, now, v)
  <2> SUFFICES ASSUME NEW d \in Channels
               PROVE  /\ now[d] = "open" =>
                            v[d] = "open" /\ \A i \in 1..Len(more) : more[i].ch # d
                      /\ now[d] = "ready" =>
                            /\ v[d] \in {"open", "ready"}
                            /\ \A i \in 1..Len(more) : more[i] # [ch |-> d, cmd |-> "done"]
    BY DEF HasSaid
  <2>1. CASE d = c
    <3>1. now[d] = became /\ became # "open"
      BY <1>2, <1>3, <2>1
    <3>2. ASSUME became = "ready"
          PROVE  /\ v[c] \in {"open", "ready"}
                 /\ \A i \in 1..Len(more) : more[i] # [ch |-> c, cmd |-> "done"]
      <4>1. /\ v[c] \in {"open", "ready"}
            /\ \A i \in 1..Len(said) : said[i] # [ch |-> c, cmd |-> "done"]
        BY <3>2 DEF BothEnds, HasSaid
      <4>2. m # [ch |-> c, cmd |-> "done"]
        BY <1>0, <3>2
      <4> QED
        BY <1>1, <4>1, <4>2
    <3> QED
      BY <2>1, <3>1, <3>2
  <2>2. CASE d # c
    <3>1. m # [ch |-> d, cmd |-> "done"] /\ m.ch # d
      BY <1>0, <2>2
    <3> HIDE DEF m
    <3>2. now[d] = far[d]
      BY <1>2, <2>2
    <3>3. /\ far[d] = "open" =>
                v[d] = "open" /\ \A i \in 1..Len(said) : said[i].ch # d
          /\ far[d] = "ready" =>
                /\ v[d] \in {"open", "ready"}
                /\ \A i \in 1..Len(said) : said[i] # [ch |-> d, cmd |-> "done"]
      BY DEF BothEnds, HasSaid
    <3>4. \A i \in 1..Len(more) : more[i] = m \/ (i \in 1..Len(said) /\ more[i] = said[i])
      <4>1. \A i \in 1..Len(more) : i = Len(said) + 1 \/ i \in 1..Len(said)
        BY <1>1
      <4> QED
        BY <1>1, <4>1
    <3> QED
      BY <3>1, <3>2, <3>3, <3>4
  <2> QED
    BY <2>1, <2>2
<1> QED
  BY <1>4, <1>6, <1>7 DEF BothEnds, more, now

(* The router hears what was said first, and the client of it.             *)
LEMMA FrameHeard ==
    ASSUME NEW pipe \in Seq(Call), NEW said \in Seq(Reply), NEW far \in [Channels -> View],
           NEW chs \in SUBSET Channels, NEW v \in [Channels -> View],
           BothEnds(pipe, said, far, chs, v), said # <<>>,
           NEW c, c = Head(said).ch, NEW became,
           became = CASE Head(said).cmd = "data" -> v[c]
                      [] Head(said).cmd = "close" -> "closed"
                      [] OTHER -> Head(said).cmd,
           NEW left, left = IF Head(said).cmd = "close" THEN chs \ {c} ELSE chs
    PROVE  BothEnds(pipe, Tail(said), far, left, [v EXCEPT ![c] = became])
<1> DEFINE rest == Tail(said)
           w == [v EXCEPT ![c] = became]
           m == said[1]
<1>1. /\ Len(said) \in Nat /\ Len(said) > 0 /\ Len(rest) = Len(said) - 1 /\ Head(said) = m
      /\ \A i \in 1..Len(said) : said[i] \in Reply
      /\ \A i \in 1..Len(rest) : rest[i] = said[i + 1] /\ i + 1 \in 1..Len(said)
  OBVIOUS
<1>2. m \in Reply /\ m.ch = c /\ c \in Channels /\ m.cmd \in {"ready", "data", "done", "close"}
  BY <1>1 DEF Reply
<1>3. w[c] = became /\ \A d \in Channels : d # c => w[d] = v[d]
  BY <1>2
<1>4. /\ m.cmd = "data" => became = v[c] /\ left = chs
      /\ m.cmd = "ready" => became = "ready" /\ left = chs
      /\ m.cmd = "done" => became = "done" /\ left = chs
      /\ m.cmd = "close" => became = "closed" /\ left = chs \ {c}
  BY <1>1, <1>2
<1> HIDE DEF rest, w
<1>5. /\ c \in chs /\ far[c] # "unused"
      /\ m.cmd = "ready" => v[c] = "open"
      /\ m.cmd = "done" => v[c] \in {"open", "ready"} /\ far[c] \in {"done", "closed"}
      /\ m.cmd = "close" => far[c] = "closed"
  BY <1>1, <1>2 DEF BothEnds, SaysInOrder
<1>6. \A i \in 1..Len(rest) :
         /\ m.cmd = "close" => rest[i].ch # c
         /\ rest[i].ch = c => rest[i].cmd # "ready"
         /\ rest[i].ch = c /\ rest[i].cmd = "done" => m.cmd \in {"ready", "data"}
  <2> SUFFICES ASSUME NEW i \in 1..Len(rest)
               PROVE  /\ m.cmd = "close" => rest[i].ch # c
                      /\ rest[i].ch = c => rest[i].cmd # "ready"
                      /\ rest[i].ch = c /\ rest[i].cmd = "done" => m.cmd \in {"ready", "data"}
    OBVIOUS
  <2>1. rest[i] = said[i + 1] /\ i + 1 \in 1..Len(said) /\ i + 1 \in 2..Len(said)
        /\ 1 \in 1..Len(said) /\ 1 \in 1..((i + 1) - 1)
    BY <1>1
  <2>2. m.cmd = "close" => rest[i].ch # c
    <3>1. m.cmd = "close" => \A j \in (1 + 1)..Len(said) : said[j].ch # m.ch
      BY <2>1 DEF BothEnds, SaysInOrder
    <3> QED
      BY <1>2, <2>1, <3>1
  <2>3. rest[i].cmd = "ready" => m.ch # rest[i].ch
    <3>1. said[i + 1].cmd = "ready" =>
             \A j \in 1..((i + 1) - 1) : said[j].ch # said[i + 1].ch
      BY <2>1 DEF BothEnds, SaysInOrder
    <3> QED
      BY <2>1, <3>1
  <2>4. rest[i].cmd = "done" => m # rest[i]
    <3>1. rest[i].cmd = "done" => \A j \in 1..Len(said) : said[j] = said[i + 1] => j = i + 1
      BY <2>1 DEF BothEnds, SaysInOrder
    <3> QED
      BY <2>1, <3>1
  <2>5. rest[i].ch = c /\ rest[i].cmd = "done" => m.cmd # "done"
    <3>1. rest[i] \in Reply
      BY <1>1, <2>1
    <3>2. \A x, y \in Reply : x.ch = y.ch /\ x.cmd = y.cmd => x = y
      BY DEF Reply
    <3> QED
      BY <1>2, <2>4, <3>1, <3>2
  <2> QED
    BY <1>2, <2>2, <2>3, <2>5
<1>7. Announced(pipe, far, left, w) /\ OpenComesFirst(pipe, far)
  <2>1. ASSUME NEW i \in 1..Len(pipe), NEW d \in Channels, pipe[i] = call(d, "open")
        PROVE  /\ d \in left /\ w[d] = "open" /\ far[d] = "unused"
               /\ \A j \in 1..Len(pipe) : pipe[j] = call(d, "open") => j = i
    <3>1. /\ d \in chs /\ v[d] = "open" /\ far[d] = "unused"
          /\ \A j \in 1..Len(pipe) : pipe[j] = call(d, "open") => j = i
      BY <2>1 DEF BothEnds, Announced
    <3>2. d # c
      BY <1>5, <3>1
    <3> QED
      BY <1>2, <1>3, <1>4, <3>1, <3>2
  <2>2. ASSUME NEW d \in left, far[d] = "unused"
        PROVE  \E i \in 1..Len(pipe) : pipe[i] = call(d, "open")
    BY <1>2, <1>4, <2>2 DEF BothEnds, Announced
  <2>3. ASSUME NEW d \in Channels
        PROVE  /\ far[d] \in {"open", "ready", "done"} => d \in left
               /\ far[d] # "unused" => w[d] # "unused"
    <3>1. /\ far[d] \in {"open", "ready", "done"} => d \in chs
          /\ far[d] # "unused" => v[d] # "unused"
      BY DEF BothEnds, Announced
    <3> QED
      BY <1>2, <1>3, <1>4, <1>5, <3>1
  <2> QED
    BY <2>1, <2>2, <2>3 DEF Announced, BothEnds
<1>8. SaysInOrder(rest, far, left, w)
  <2> SUFFICES ASSUME NEW i \in 1..Len(rest)
               PROVE  /\ rest[i].ch \in left /\ far[rest[i].ch] # "unused"
                      /\ rest[i].cmd = "ready" =>
                            /\ w[rest[i].ch] = "open"
                            /\ \A j \in 1..(i - 1) : rest[j].ch # rest[i].ch
                      /\ rest[i].cmd = "done" =>
                            /\ w[rest[i].ch] \in {"open", "ready"}
                            /\ far[rest[i].ch] \in {"done", "closed"}
                            /\ \A j \in 1..Len(rest) : rest[j] = rest[i] => j = i
                      /\ rest[i].cmd = "close" =>
                            /\ far[rest[i].ch] = "closed"
                            /\ \A j \in (i + 1)..Len(rest) : rest[j].ch # rest[i].ch
    BY DEF SaysInOrder
  <2> DEFINE k == i + 1
             n == rest[i]
  <2>1. n = said[k] /\ k \in 1..Len(said) /\ n \in Reply /\ n.ch \in Channels
    BY <1>1 DEF Reply
  <2>2. n.ch \in chs /\ far[n.ch] # "unused"
    BY <2>1 DEF BothEnds, SaysInOrder
  <2>3. n.ch \in left
    BY <1>2, <1>4, <1>6, <2>2
  <2>4. ASSUME n.cmd = "ready"
        PROVE  w[n.ch] = "open" /\ \A j \in 1..(i - 1) : rest[j].ch # n.ch
    <3>1. v[n.ch] = "open" /\ \A j \in 1..(k - 1) : said[j].ch # n.ch
      BY <2>1, <2>4 DEF BothEnds, SaysInOrder
    <3>2. n.ch # c
      BY <1>6, <2>4
    <3>3. \A j \in 1..(i - 1) : j + 1 \in 1..(k - 1) /\ rest[j] = said[j + 1]
      BY <1>1
    <3> QED
      BY <1>3, <2>1, <3>1, <3>2, <3>3
  <2>5. ASSUME n.cmd = "done"
        PROVE  /\ w[n.ch] \in {"open", "ready"} /\ far[n.ch] \in {"done", "closed"}
               /\ \A j \in 1..Len(rest) : rest[j] = n => j = i
    <3>1. /\ v[n.ch] \in {"open", "ready"} /\ far[n.ch] \in {"done", "closed"}
          /\ \A j \in 1..Len(said) : said[j] = said[k] => j = k
      BY <2>1, <2>5 DEF BothEnds, SaysInOrder
    <3>2. w[n.ch] \in {"open", "ready"}
      BY <1>2, <1>3, <1>4, <1>6, <2>1, <2>5, <3>1
    <3>3. \A j \in 1..Len(rest) : rest[j] = n => j + 1 = k
      BY <1>1, <2>1, <3>1
    <3> QED
      BY <3>1, <3>2, <3>3
  <2>6. ASSUME n.cmd = "close"
        PROVE  far[n.ch] = "closed" /\ \A j \in (i + 1)..Len(rest) : rest[j].ch # n.ch
    <3>1. far[n.ch] = "closed" /\ \A j \in (k + 1)..Len(said) : said[j].ch # n.ch
      BY <2>1, <2>6 DEF BothEnds, SaysInOrder
    <3>2. \A j \in (i + 1)..Len(rest) : j + 1 \in (k + 1)..Len(said) /\ rest[j] = said[j + 1]
      BY <1>1
    <3> QED
      BY <3>1, <3>2
  <2> QED
    BY <2>2, <2>3, <2>4, <2>5, <2>6
<1>9. HasSaid(rest, far, w)
  <2> SUFFICES ASSUME NEW d \in Channels
               PROVE  /\ far[d] = "open" =>
                            w[d] = "open" /\ \A i \in 1..Len(rest) : rest[i].ch # d
                      /\ far[d] = "ready" =>
                            /\ w[d] \in {"open", "ready"}
                            /\ \A i \in 1..Len(rest) : rest[i] # [ch |-> d, cmd |-> "done"]
    BY DEF HasSaid
  <2>1. /\ far[d] = "open" =>
              v[d] = "open" /\ \A i \in 1..Len(said) : said[i].ch # d
        /\ far[d] = "ready" =>
              /\ v[d] \in {"open", "ready"}
              /\ \A i \in 1..Len(said) : said[i] # [ch |-> d, cmd |-> "done"]
    BY DEF BothEnds, HasSaid
  <2>2. far[d] = "open" => w[d] = v[d]
    <3>1. far[d] = "open" => d # c
      BY <1>1, <1>2, <2>1
    <3> QED
      BY <1>3, <3>1
  <2>3. far[d] = "ready" => w[d] \in {"open", "ready"}
    BY <1>2, <1>3, <1>4, <1>5, <2>1
  <2> QED
    BY <1>1, <2>1, <2>2, <2>3
<1> QED
  BY <1>7, <1>8, <1>9 DEF BothEnds, rest, w

-----------------------------------------------------------------------------
(* Channel objects.                                                        *)

(* do_close() neither makes nor forgets a transport, and cancels at most.  *)
LEMMA DoCloseKeeps ==
    ASSUME NEW r \in ChanState
    PROVE  /\ DoClose(r).conn = "none" <=> r.conn = "none"
           /\ Runs(DoClose(r)) => Runs(r)
           /\ r.cls = "none" => DoClose(r) = r
<1>1. CASE r.cls \in {"plain", "tasks"}
  <2>1. DoClose(r) = [r EXCEPT !.closing = TRUE]
    BY <1>1 DEF DoClose
  <2> QED
    BY <1>1, <2>1 DEF ChanState, Runs
<1>2. CASE r.cls = "async"
  <2>1. DoClose(r) = [r EXCEPT !.run = Cancelled(r.run)]
    BY <1>2 DEF DoClose
  <2>2. Cancelled(r.run) \in {"new", "running", "cancelled"} => Runs(r)
    BY DEF Cancelled, Runs
  <2> QED
    BY <1>2, <2>1, <2>2 DEF ChanState, Runs
<1>3. CASE r.cls = "socket"
  <2>1. DoClose(r) = [r EXCEPT !.conn = IF r.conn = "open" THEN "closing" ELSE r.conn]
    BY <1>3 DEF DoClose
  <2> QED
    BY <1>3, <2>1 DEF ChanState, Runs
<1>4. CASE r.cls = "none"
  BY <1>4 DEF DoClose
<1> QED
  BY <1>1, <1>2, <1>3, <1>4 DEF ChanState

(* Nor do the calls of a channel, which end no task either.                *)
LEMMA RunCallsKeeps ==
    ASSUME NEW r \in ChanState, NEW q \in Seq(Call)
    PROVE  /\ RunCalls(r, q).conn = "none" <=> r.conn = "none"
           /\ Runs(RunCalls(r, q)) => Runs(r)
           /\ RunCalls(r, q).tasks >= r.tasks
<1> DEFINE seen == Handled(r, q)
           stop == \E i \in seen : Stops(q[i])
           r1 == IF stop THEN DoClose(r) ELSE r
           data == {i \in seen : q[i].cmd = "data"}
           more == IF r.cls = "tasks" THEN Cardinality(data) ELSE 0
           shut == r1.closing \/ \E i \in seen : Sets(r, q[i])
<1>1. /\ r1 \in ChanState /\ r1.tasks = r.tasks
      /\ r1.conn = "none" <=> r.conn = "none"
      /\ Runs(r1) => Runs(r)
  BY DoCloseFacts, DoCloseKeeps
<1>2. more \in Nat
  <2>1. seen \subseteq 1..Len(q) /\ IsFiniteSet(1..Len(q))
    BY FS_Interval DEF Handled
  <2>2. IsFiniteSet(data)
    BY <2>1, FS_Subset
  <2> QED
    BY <2>2, FS_CardinalityType
<1>3. RunCalls(r, q) = [r1 EXCEPT !.closing = shut, !.tasks = r1.tasks + more]
  BY DEF RunCalls
<1> HIDE DEF seen, stop, r1, data, more, shut
<1>4. /\ RunCalls(r, q).conn = r1.conn /\ RunCalls(r, q).run = r1.run
      /\ RunCalls(r, q).tasks = r1.tasks + more
  BY <1>1, <1>3 DEF ChanState
<1> QED
  BY <1>1, <1>2, <1>4 DEF ChanState, Runs

(* What a step may do to a channel object and to what is known of it.      *)
Settled(r, s) ==
    /\ s.cls = r.cls
    /\ r.cls = "none" => s = r
    /\ s.conn = "none" \/ r.cls = "socket"
    /\ r.cls \in {"tasks", "async"} /\ Runs(s) => s.tasks > 0

(* A channel that does not change is settled.                              *)
LEMMA SameSettled ==
    ASSUME NEW c \in Channels, ChannelAgrees(c)
    PROVE  Settled(chan[c], chan[c])
BY DEF ChannelAgrees, Settled

(* So is one on which its endpoint was called.                             *)
LEMMA CallsSettled ==
    ASSUME Core, NEW c \in Channels, ChannelAgrees(c), chan[c].cls # "none",
           NEW q \in Seq(Call)
    PROVE  Settled(chan[c], RunCalls(chan[c], q))
<1>1. chan[c] \in ChanState
  BY DEF Core, TypeOK, ChannelTypeOK
<1> DEFINE r == chan[c]
           s == RunCalls(chan[c], q)
<1>2. s \in ChanState /\ s.cls = r.cls /\ s.tasks >= r.tasks
      /\ (s.conn = "none" <=> r.conn = "none")
      /\ (Runs(s) => Runs(r))
  BY <1>1, RunCallsFacts, RunCallsKeeps
<1> HIDE DEF s
<1>3. r.cls \in {"tasks", "async"} /\ Runs(r) => r.tasks > 0
  BY DEF ChannelAgrees
<1>4. r.tasks \in Nat /\ s.tasks \in Nat
  BY <1>1, <1>2 DEF ChanState
<1> QED
  BY <1>2, <1>3, <1>4 DEF Settled, ChannelAgrees, s

(* And one that was told to close.                                         *)
LEMMA CloseSettled ==
    ASSUME Core, NEW c \in Channels, ChannelAgrees(c)
    PROVE  Settled(chan[c], DoClose(chan[c]))
<1>1. chan[c] \in ChanState
  BY DEF Core, TypeOK, ChannelTypeOK
<1> QED
  BY <1>1, DoCloseFacts, DoCloseKeeps DEF Settled, ChannelAgrees

(* A channel stays in agreement while its object is settled, a message     *)
(* does not take it back to unused, its route is kept or dropped, and it   *)
(* is thawed before the client hears of it.                                *)
LEMMA ChannelKept ==
    ASSUME Core, HeldBack, NEW c \in Channels, ChannelAgrees(c),
           Settled(chan[c], chan'[c]),
           openChannels'[c] \in {openChannels[c], NoEndpoint},
           view'[c] = "unused" => view[c] = "unused",
           c \in frozen' => c \in frozen,
           c \in frozen' /\ chan[c].cls # "socket" => view'[c] = view[c],
           c \in stray' => c \in stray \/ chan[c].cls = "socket"
    PROVE  ChannelAgrees(c)'
<1>1. c \in frozen' => chan[c].cls # "none"
  BY DEF HeldBack, Core, ShutDownOnce
<1>2. NoEndpoint \notin Peers
  BY RouterAssumption
<1> QED
  BY <1>1, <1>2 DEF ChannelAgrees, Settled

-----------------------------------------------------------------------------
(* Steps of one channel object.                                            *)

(* The types that the lemmas about peers need.                             *)
LEMMA PeerTypes ==
    ASSUME Core, NEW p \in Peers
    PROVE  /\ Pipeline(p) \in Seq(Call) /\ toPeer[p] \in Seq(Call) /\ queue[p] \in Seq(Call)
           /\ fromPeer[p] \in Seq(Reply) /\ remote[p] \in [Channels -> View]
           /\ endpoints[p] \in SUBSET Channels /\ view \in [Channels -> View]
           /\ p \in Endpoint
<1>1. toPeer[p] \in Seq(Call) /\ queue[p] \in Seq(Call) /\ p \in Endpoint
  BY DEF Core, TypeOK, RouterTypeOK, PeerTypeOK, Endpoint
<1>2. Pipeline(p) \in Seq(Call)
  BY <1>1 DEF Pipeline
<1> QED
  BY <1>1, <1>2 DEF Core, TypeOK, RouterTypeOK, PeerTypeOK

(* A step that has nothing to do with peer p.                              *)
LEMMA PeerKept ==
    ASSUME Core, NEW p \in Peers, PeerAgrees(p),
           toPeer'[p] = toPeer[p], queue'[p] = queue[p], fromPeer'[p] = fromPeer[p],
           remote'[p] = remote[p], endpoints'[p] = endpoints[p],
           \A c \in endpoints[p] : view'[c] = view[c],
           \A c \in Channels : view'[c] = "unused" => view[c] = "unused"
    PROVE  PeerAgrees(p)'
<1>1. BothEnds(Pipeline(p), fromPeer[p], remote[p], endpoints[p], view')
  BY PeerTypes, ViewKept DEF PeerAgrees
<1>2. Pipeline(p)' = Pipeline(p)
  BY DEF Pipeline
<1> QED
  BY <1>1, <1>2 DEF PeerAgrees

(* A channel object's endpoint serves its own channel and nothing else.    *)
LEMMA OwnChannel ==
    ASSUME Core, Agreement, NEW c \in Channels
    PROVE  /\ endpoints[c] \subseteq {c}
           /\ chan[c].cls # "none" => \A p \in Peers : c \notin endpoints[p]
           /\ \A S \in SUBSET {c} : ChannelsOf(S) \subseteq {c}
<1>1. c \in Endpoint /\ c \notin Peers /\ c # NoEndpoint
  BY RouterAssumption DEF Endpoint
<1>2. \A d \in Channels : openChannels[d] = c => d = c
  BY <1>1 DEF Agreement, ChannelsAgree, ChannelAgrees
<1>3. endpoints[c] \subseteq {c}
  BY <1>1, <1>2 DEF Agreement, TablesAgree
<1>4. chan[c].cls # "none" => \A p \in Peers : c \notin endpoints[p]
  BY DEF Agreement, TablesAgree, ChannelsAgree, ChannelAgrees, Endpoint
<1>5. \A S \in SUBSET {c} : ChannelsOf(S) \subseteq {c}
  BY <1>3 DEF ChannelsOf
<1> QED
  BY <1>3, <1>4, <1>5

(* The step of a channel object: it takes a state that is settled, its     *)
(* endpoint may go, and only its own execution queue changes.              *)
LEMMA ObjectStep ==
    ASSUME Core, Core', Agreement, NEW c \in Channels, NEW r, NEW S \in SUBSET {c},
           chan' = [chan EXCEPT ![c] = r], Settled(chan[c], r), chan[c].cls # "none",
           RemoveEndpoints(S), UNCHANGED <<session, peerVars>>,
           \A d \in Channels : d # c => view'[d] = view[d],
           c \in ChannelsOf(S) => view'[c] = "closed",
           c \notin ChannelsOf(S) =>
              (view'[c] \in {"open", "ready", "done"} <=> view[c] \in {"open", "ready", "done"}),
           view'[c] # "unused",
           frozen' \subseteq frozen, frozen \subseteq frozen' \cup {c}, frozen' \cap S = {},
           c \notin frozen' => queue'[c] = <<>>,
           \A e \in Endpoint : e # c => queue'[e] = queue[e],
           c \in frozen' /\ chan[c].cls # "socket" => view'[c] = view[c],
           stray' \subseteq stray \cup {c},
           c \in stray' => c \in stray \/ chan[c].cls = "socket"
    PROVE  Agreement'
<1>1. /\ TablesAgree /\ ClientAgrees /\ HeldBack /\ SessionAgrees
      /\ \A d \in Channels : ChannelAgrees(d)
      /\ \A p \in Peers : PeerAgrees(p)
  BY DEF Agreement, ChannelsAgree, PeersAgree
<1>2. S \in SUBSET Endpoint /\ ChannelsOf(S) \subseteq {c} /\ \A p \in Peers : p # c /\ p \notin S
  BY OwnChannel, RouterAssumption DEF Endpoint
<1>3. /\ live' = live \ S
      /\ endpoints' = [e \in Endpoint |-> IF e \in S THEN {} ELSE endpoints[e]]
      /\ openChannels' = [d \in Channels |->
                             IF d \in ChannelsOf(S) THEN NoEndpoint ELSE openChannels[d]]
  BY DEF RemoveEndpoints
<1>4. TablesAgree' /\ ClientAgrees'
  <2>1. \A d \in Channels : d \in ChannelsOf(S) => view'[d] = "closed"
    BY <1>2
  <2>2. \A d \in Channels : d \notin ChannelsOf(S) =>
           (view'[d] \in {"open", "ready", "done"} <=> view[d] \in {"open", "ready", "done"})
    OBVIOUS
  <2> QED
    BY <1>1, <1>2, <2>1, <2>2, RemoveAgrees
<1>5. HeldBack'
  <2>1. frozen' \subseteq live'
    BY <1>1, <1>3 DEF HeldBack
  <2>2. \A e \in Endpoint \ frozen' : queue'[e] = <<>>
    BY <1>1 DEF HeldBack
  <2>3. ASSUME NEW p \in Peers
        PROVE  /\ p \in live' <=> peer'[p] # "absent"
               /\ p \in frozen' <=> peer'[p] \in {"starting", "init"}
    <3>1. (p \in live' <=> p \in live) /\ (p \in frozen' <=> p \in frozen) /\ peer' = peer
      BY <1>2, <1>3 DEF peerVars
    <3> QED
      BY <1>1, <3>1 DEF HeldBack
  <2> QED
    BY <2>1, <2>2, <2>3 DEF HeldBack
<1>6. SessionAgrees'
  BY <1>1, <1>3 DEF SessionAgrees, session
<1>7. ChannelsAgree'
  <2> SUFFICES ASSUME NEW d \in Channels PROVE ChannelAgrees(d)'
    BY DEF ChannelsAgree
  <2>1. openChannels'[d] \in {openChannels[d], NoEndpoint}
    BY <1>3
  <2>2. Settled(chan[d], chan'[d])
    <3>1. CASE d = c
      BY <3>1 DEF Core, TypeOK, ChannelTypeOK
    <3>2. CASE d # c
      <4>1. chan'[d] = chan[d]
        BY <3>2 DEF Core, TypeOK, ChannelTypeOK
      <4> QED
        BY <1>1, <4>1, SameSettled
    <3> QED
      BY <3>1, <3>2
  <2>3. view'[d] = "unused" => view[d] = "unused"
    OBVIOUS
  <2>4. d \in frozen' /\ chan[d].cls # "socket" => view'[d] = view[d]
    OBVIOUS
  <2>5. d \in stray' => d \in stray \/ chan[d].cls = "socket"
    OBVIOUS
  <2> QED
    BY <1>1, <2>1, <2>2, <2>3, <2>4, <2>5, ChannelKept
<1>8. PeersAgree'
  <2> SUFFICES ASSUME NEW p \in Peers PROVE PeerAgrees(p)'
    BY DEF PeersAgree
  <2>1. c \notin endpoints[p] /\ p \in Endpoint /\ p # c
    BY <1>2, OwnChannel DEF Endpoint
  <2>2. endpoints'[p] = endpoints[p] /\ queue'[p] = queue[p]
    BY <1>2, <1>3, <2>1
  <2>3. toPeer'[p] = toPeer[p] /\ fromPeer'[p] = fromPeer[p] /\ remote'[p] = remote[p]
    BY DEF peerVars
  <2>4. \A d \in endpoints[p] : view'[d] = view[d]
    BY <2>1, PeerTypes
  <2>5. \A d \in Channels : view'[d] = "unused" => view[d] = "unused"
    OBVIOUS
  <2> QED
    BY <1>1, <2>2, <2>3, <2>4, <2>5, PeerKept
<1> QED
  BY <1>4, <1>5, <1>6, <1>7, <1>8 DEF Agreement

(* close() and _task_done().                                               *)
LEMMA BecomeAgrees ==
    ASSUME Core, Core', Agreement, NEW c \in Channels, NEW r,
           Become(c, r), Settled(chan[c], r), chan[c].cls # "none",
           UNCHANGED <<session, stray, peerVars>>
    PROVE  Agreement'
<1> DEFINE S == Ended(c, r)
<1>1. S \in SUBSET {c} /\ (c \in S \/ S = {})
  BY DEF Ended
<1> HIDE DEF S
<1>2. /\ chan' = [chan EXCEPT ![c] = r]
      /\ RemoveEndpoints(S) /\ CloseView(S, view) /\ Release(S)
  BY DEF Become, ShutdownEndpoints, S
<1>3. ChannelsOf(S) \subseteq {c} /\ (S = {} => ChannelsOf(S) = {})
  BY <1>1, OwnChannel DEF ChannelsOf
<1>4. view[c] # "unused" /\ (c \notin frozen => queue[c] = <<>>) /\ c \in Endpoint
  BY DEF Agreement, ChannelsAgree, ChannelAgrees, HeldBack, Endpoint
<1>5. \A d \in Channels : view'[d] = IF d \in ChannelsOf(S) THEN "closed" ELSE view[d]
  BY <1>2 DEF CloseView
<1>6. /\ frozen' = frozen \ S
      /\ \A e \in Endpoint : queue'[e] = IF e \in S THEN <<>> ELSE queue[e]
  BY <1>2 DEF Release
<1>7. /\ frozen' \subseteq frozen /\ frozen \subseteq frozen' \cup {c} /\ frozen' \cap S = {}
      /\ c \notin frozen' => queue'[c] = <<>>
      /\ \A e \in Endpoint : e # c => queue'[e] = queue[e]
  BY <1>1, <1>4, <1>6
<1>8. /\ \A d \in Channels : d # c => view'[d] = view[d]
      /\ c \in ChannelsOf(S) => view'[c] = "closed"
      /\ c \notin ChannelsOf(S) => view'[c] = view[c]
      /\ view'[c] # "unused"
      /\ c \in frozen' => view'[c] = view[c]
  BY <1>1, <1>3, <1>4, <1>5, <1>6
<1> QED
  BY <1>1, <1>2, <1>7, <1>8, ObjectStep

(* Writing a message of a channel that is not closed, and nothing else.    *)
LEMMA WriteAgrees ==
    ASSUME Core, Core', Agreement, NEW c \in Channels, NEW r,
           chan' = [chan EXCEPT ![c] = r], Settled(chan[c], r), chan[c].cls # "none",
           NEW v, v \in {"open", "ready", "done"} \/ v = view[c],
           c \in frozen /\ chan[c].cls # "socket" => v = view[c],
           view[c] = "closed" => chan[c].cls = "socket",
           Write(c, v), UNCHANGED <<tables, hold, session, peerVars>>
    PROVE  Agreement'
<1>1. {} \in SUBSET {c} /\ RemoveEndpoints({}) /\ ChannelsOf({}) = {}
  BY NothingRemoved DEF Core, TypeOK, RouterTypeOK, TablesType
<1>2. view[c] # "unused" /\ view \in [Channels -> View] /\ (c \notin frozen => queue[c] = <<>>)
  BY DEF Agreement, ChannelsAgree, ChannelAgrees, HeldBack, Endpoint, Core, TypeOK, RouterTypeOK
<1>3. /\ \A d \in Channels : d # c => view'[d] = view[d]
      /\ view'[c] = IF view[c] = "closed" THEN view[c] ELSE v
      /\ stray' \subseteq stray \cup {c}
      /\ c \in stray' => c \in stray \/ chan[c].cls = "socket"
  BY <1>2 DEF Write
<1>4. /\ view'[c] \in {"open", "ready", "done"} <=> view[c] \in {"open", "ready", "done"}
      /\ view'[c] # "unused"
      /\ c \in frozen /\ chan[c].cls # "socket" => view'[c] = view[c]
  BY <1>2, <1>3 DEF View
<1>5. frozen' = frozen /\ queue' = queue
  BY DEF hold
<1> HIDE DEF Write
<1> QED
  BY <1>1, <1>2, <1>3, <1>4, <1>5, ObjectStep

(* A frame for a channel.                                                  *)
LEMMA LocalFrameAgrees ==
    ASSUME Core, Core', Agreement, NEW c \in Channels, NEW cmd \in FrameCommands,
           LocalFrame(c, cmd), UNCHANGED peerVars
    PROVE  Agreement'
<1>1. ChannelAgrees(c) /\ c \in live /\ chan[c].cls # "none" /\ c \in Endpoint
  BY DEF LocalFrame, Agreement, TablesAgree, ChannelsAgree, Core, ShutDownOnce, Endpoint
<1>2. UNCHANGED <<session, stray>> /\ chan \in [Channels -> ChanState]
  BY DEF LocalFrame, Core, TypeOK, ChannelTypeOK
<1>3. CASE /\ Enqueue(c, call(c, cmd))
           /\ UNCHANGED <<tables, session, link, view, stray, chan>>
  <2>1. {} \in SUBSET {c} /\ RemoveEndpoints({}) /\ ChannelsOf({}) = {}
    BY <1>3, NothingRemoved DEF Core, TypeOK, RouterTypeOK, TablesType
  <2>2. chan' = [chan EXCEPT ![c] = chan[c]] /\ Settled(chan[c], chan[c])
    BY <1>1, <1>2, <1>3, SameSettled
  <2>3. /\ c \in frozen /\ frozen' = frozen /\ view' = view
        /\ \A e \in Endpoint : e # c => queue'[e] = queue[e]
    BY <1>3 DEF Enqueue, Core, TypeOK, RouterTypeOK
  <2>4. view[c] # "unused"
    BY <1>1 DEF ChannelAgrees
  <2> QED
    BY <1>1, <1>2, <2>1, <2>2, <2>3, <2>4, ObjectStep
<1>4. CASE Become(c, RunCalls(chan[c], <<call(c, cmd)>>))
  <2>1. <<call(c, cmd)>> \in Seq(Call)
    BY CallType DEF FrameCommands, Commands
  <2>2. Settled(chan[c], RunCalls(chan[c], <<call(c, cmd)>>))
    BY <1>1, <2>1, CallsSettled
  <2> QED
    BY <1>1, <1>2, <1>4, <2>2, BecomeAgrees
<1> QED
  BY <1>3, <1>4 DEF LocalFrame

(* Becoming ready.                                                         *)
LEMMA ReadyAgrees ==
    ASSUME Core, Core', Agreement, NEW c \in Channels, Ready(c), UNCHANGED peerVars
    PROVE  Agreement'
<1> DEFINE r0 == IF chan[c].cls = "async" THEN chan[c]
                 ELSE [chan[c] EXCEPT !.run = "finished"]
           r == RunCalls(r0, queue[c])
           S == Ended(c, r)
<1>1. chan[c] \in ChanState /\ queue[c] \in Seq(Call) /\ c \in Endpoint /\ ChannelAgrees(c)
  BY DEF Core, TypeOK, ChannelTypeOK, RouterTypeOK, Endpoint, Agreement, ChannelsAgree
<1>2. chan[c].cls \in {"tasks", "async", "socket"} /\ chan[c].run = "running"
  BY DEF Ready, MayReady
<1>3. /\ r0 \in ChanState /\ r0.cls = chan[c].cls /\ r0.conn = chan[c].conn
      /\ r0.tasks = chan[c].tasks
      /\ r0.run = "finished" \/ (chan[c].cls = "async" /\ r0.tasks > 0)
  BY <1>1, <1>2 DEF ChanState, ChannelAgrees, Runs
<1> HIDE DEF r0
<1>4. /\ r \in ChanState /\ r.cls = chan[c].cls /\ r.tasks >= r0.tasks
      /\ r.conn = "none" <=> r0.conn = "none"
      /\ Runs(r) => Runs(r0)
  BY <1>1, <1>3, RunCallsFacts, RunCallsKeeps
<1> HIDE DEF r
<1>5. r.tasks \in Nat /\ r0.tasks \in Nat
  BY <1>3, <1>4 DEF ChanState
<1>6. Settled(chan[c], r)
  BY <1>1, <1>2, <1>3, <1>4, <1>5 DEF Settled, ChannelAgrees, Runs
<1>7. S \in SUBSET {c} /\ (S = {} => ChannelsOf(S) = {}) /\ ChannelsOf(S) \subseteq {c}
  <2>1. S \in SUBSET {c}
    BY DEF Ended
  <2> HIDE DEF S
  <2> QED
    BY <2>1, OwnChannel DEF ChannelsOf
<1>8. /\ chan' = [chan EXCEPT ![c] = r]
      /\ RemoveEndpoints(S) /\ Release({c})
      /\ IF S # {} \/ view[c] = "closed"
         THEN CloseView(S, view) /\ stray' = stray \cup {c}
         ELSE view' = [view EXCEPT ![c] = "ready"] /\ UNCHANGED stray
      /\ UNCHANGED session
  BY DEF Ready, r, r0
<1> HIDE DEF S
<1>9. view \in [Channels -> View] /\ view[c] # "unused"
  BY <1>1, <1>2 DEF ChannelAgrees, Core, TypeOK, RouterTypeOK
<1>10. /\ \A d \in Channels : d # c => view'[d] = view[d]
       /\ c \in ChannelsOf(S) => view'[c] = "closed"
       /\ c \notin ChannelsOf(S) =>
             (view'[c] \in {"open", "ready", "done"} <=> view[c] \in {"open", "ready", "done"})
       /\ view'[c] # "unused"
  <2>1. CASE S # {} \/ view[c] = "closed"
    <3>1. \A d \in Channels : view'[d] = IF d \in ChannelsOf(S) THEN "closed" ELSE view[d]
      BY <1>8, <2>1 DEF CloseView
    <3> QED
      BY <1>7, <1>9, <3>1
  <2>2. CASE S = {} /\ view[c] # "closed"
    <3>1. view' = [view EXCEPT ![c] = "ready"]
      BY <1>8, <2>2
    <3> QED
      BY <1>7, <1>9, <2>2, <3>1 DEF View
  <2> QED
    BY <2>1, <2>2
<1>11. /\ frozen' = frozen \ {c} /\ queue'[c] = <<>>
       /\ \A e \in Endpoint : e # c => queue'[e] = queue[e]
  BY <1>1, <1>8 DEF Release
<1>12. frozen' \cap S = {} /\ c \notin frozen' /\ frozen' \subseteq frozen
       /\ frozen \subseteq frozen' \cup {c}
  BY <1>7, <1>11
<1>13. chan[c].cls # "none"
  BY <1>2
<1>14. stray' \subseteq stray \cup {c} /\ (c \in stray' => c \in stray \/ chan[c].cls = "socket")
  <2>1. CASE chan[c].cls = "socket"
    BY <1>8, <2>1
  <2>2. CASE chan[c].cls # "socket"
    <3>1. view[c] = "open" /\ chan[c].tasks > 0
      BY <1>1, <1>2, <2>2 DEF Ready, MayReady, ChannelAgrees, Runs
    <3>2. r.tasks # 0
      BY <1>3, <1>4, <1>5, <3>1
    <3>3. S = {}
      BY <3>2 DEF S, Ended, Ends, Finished
    <3> QED
      BY <1>8, <3>1, <3>3
  <2> QED
    BY <2>1, <2>2
<1> QED
  BY <1>6, <1>7, <1>8, <1>10, <1>11, <1>12, <1>13, <1>14, ObjectStep

(* Every step of a channel.                                                *)
LEMMA ChannelStepAgrees ==
    ASSUME Core, Core', Agreement, NEW c \in Channels, ChannelStep(c)
    PROVE  Agreement'
<1>0. /\ ChannelAgrees(c) /\ chan \in [Channels -> ChanState] /\ chan[c] \in ChanState
      /\ UNCHANGED peerVars
  BY DEF ChannelStep, Core, TypeOK, ChannelTypeOK, Agreement, ChannelsAgree
<1>1. CASE Ready(c)
  BY <1>0, <1>1, ReadyAgrees
<1>2. CASE RunEnds(c)
  <2> DEFINE r == [chan[c] EXCEPT !.run = "finished", !.closing = TRUE]
  <2>1. Settled(chan[c], r) /\ chan[c].cls # "none"
    BY <1>0, <1>2 DEF RunEnds, Settled, ChannelAgrees, ChanState, Runs
  <2>2. Become(c, r) /\ UNCHANGED <<session, stray>>
    BY <1>2 DEF RunEnds
  <2> HIDE DEF r
  <2> QED
    BY <1>0, <2>1, <2>2, BecomeAgrees
<1>3. CASE RunDone(c)
  <2>1. /\ chan[c].cls = "async" /\ view[c] = "ready" /\ Write(c, "done")
        /\ UNCHANGED <<tables, hold, session, chan>>
    BY <1>3 DEF RunDone
  <2>2. c \notin frozen
    BY <1>0, <2>1 DEF ChannelAgrees
  <2>3. chan' = [chan EXCEPT ![c] = chan[c]] /\ Settled(chan[c], chan[c])
    BY <1>0, <2>1, SameSettled
  <2> QED
    BY <1>0, <2>1, <2>2, <2>3, WriteAgrees
<1>4. CASE TaskDone(c)
  <2> DEFINE r == [chan[c] EXCEPT !.tasks = chan[c].tasks - 1]
  <2>1. chan[c].tasks > IF Runs(chan[c]) THEN 1 ELSE 0
    BY <1>4 DEF TaskDone
  <2>2. chan[c].tasks \in Nat /\ chan[c].cls # "none"
    BY <1>0, <2>1 DEF ChanState, ChannelAgrees
  <2>3. r.cls = chan[c].cls /\ r.run = chan[c].run /\ r.conn = chan[c].conn
        /\ r.tasks = chan[c].tasks - 1
    BY <1>0 DEF ChanState
  <2>4. Become(c, r) /\ UNCHANGED <<session, stray>>
    BY <1>4 DEF TaskDone
  <2> HIDE DEF r
  <2>5. Settled(chan[c], r)
    BY <1>0, <2>1, <2>2, <2>3 DEF Settled, ChannelAgrees, Runs
  <2> QED
    BY <1>0, <2>2, <2>4, <2>5, BecomeAgrees
<1>5. CASE RunBegins(c) \/ SocketConnected(c)
  <2>1. PICK r \in ChanState :
           /\ chan' = [chan EXCEPT ![c] = r] /\ Settled(chan[c], r)
           /\ UNCHANGED <<tables, hold, session, view, stray>> /\ chan[c].cls # "none"
    <3>1. CASE RunBegins(c)
      <4> DEFINE r == [chan[c] EXCEPT !.run = "running"]
      <4>1. /\ r \in ChanState /\ Runs(r) /\ Runs(chan[c]) /\ r.tasks = chan[c].tasks
            /\ r.cls = chan[c].cls /\ r.conn = chan[c].conn
        BY <1>0, <3>1 DEF RunBegins, ChanState, Runs
      <4>2. chan' = [chan EXCEPT ![c] = r] /\ chan[c].run = "new"
            /\ UNCHANGED <<tables, hold, session, view, stray>>
        BY <1>0, <3>1 DEF RunBegins
      <4> HIDE DEF r
      <4>3. Settled(chan[c], r) /\ chan[c].cls # "none"
        BY <1>0, <4>1, <4>2 DEF Settled, ChannelAgrees
      <4> QED
        BY <4>1, <4>2, <4>3
    <3>2. CASE SocketConnected(c)
      <4> DEFINE r == [chan[c] EXCEPT !.conn = "open"]
      <4>1. chan' = [chan EXCEPT ![c] = r] /\ chan[c].cls = "socket"
            /\ UNCHANGED <<tables, hold, session, view, stray>>
        BY <1>0, <3>2 DEF SocketConnected
      <4>2. Settled(chan[c], r) /\ r \in ChanState
        BY <1>0, <4>1 DEF Settled, ChanState
      <4> HIDE DEF r
      <4> QED
        BY <4>1, <4>2
    <3> QED
      BY <1>5, <3>1, <3>2
  <2>3. {} \in SUBSET {c} /\ RemoveEndpoints({}) /\ ChannelsOf({}) = {}
    BY <2>1, NothingRemoved DEF Core, TypeOK, RouterTypeOK, TablesType
  <2>4. view[c] # "unused" /\ (c \notin frozen => queue[c] = <<>>) /\ frozen' = frozen
        /\ queue' = queue
    BY <1>0, <2>1 DEF ChannelAgrees, Agreement, HeldBack, Endpoint, hold
  <2> QED
    BY <1>0, <2>1, <2>3, <2>4, ObjectStep
<1>6. CASE SocketData(c)
  <2>1. /\ chan[c].conn = "open" /\ Write(c, view[c])
        /\ UNCHANGED <<tables, hold, session, chan>>
    BY <1>6 DEF SocketData
  <2>2. chan[c].cls = "socket"
    BY <1>0, <2>1 DEF ChannelAgrees
  <2>3. chan' = [chan EXCEPT ![c] = chan[c]] /\ Settled(chan[c], chan[c])
    BY <1>0, <2>1, SameSettled
  <2> QED
    BY <1>0, <2>1, <2>2, <2>3, WriteAgrees
<1>7. CASE SocketGarbage(c)
  <2> DEFINE r == [chan[c] EXCEPT !.closing = TRUE]
  <2>1. Become(c, r) /\ UNCHANGED <<session, stray>> /\ chan[c].conn = "open"
    BY <1>7 DEF SocketGarbage
  <2>2. Settled(chan[c], r) /\ chan[c].cls # "none"
    BY <1>0, <2>1 DEF Settled, ChannelAgrees, ChanState
  <2> HIDE DEF r
  <2> QED
    BY <1>0, <2>1, <2>2, BecomeAgrees
<1>8. CASE SocketEof(c)
  <2> DEFINE r == [chan[c] EXCEPT !.conn = "closing"]
  <2>1. /\ chan' = [chan EXCEPT ![c] = r] /\ chan[c].conn = "open" /\ Write(c, "done")
        /\ UNCHANGED <<tables, hold, session>>
    BY <1>0, <1>8 DEF SocketEof
  <2>2. Settled(chan[c], r) /\ chan[c].cls = "socket"
    BY <1>0, <2>1 DEF Settled, ChannelAgrees, ChanState
  <2> HIDE DEF r
  <2> QED
    BY <1>0, <2>1, <2>2, WriteAgrees
<1>9. CASE SocketLost(c)
  <2> DEFINE r == [chan[c] EXCEPT !.conn = "lost", !.closing = TRUE]
  <2>1. /\ Become(c, r) /\ UNCHANGED <<session, stray>> /\ chan[c].conn \in {"open", "closing"}
    BY <1>9 DEF SocketLost
  <2>2. Settled(chan[c], r) /\ chan[c].cls # "none"
    BY <1>0, <2>1 DEF Settled, ChannelAgrees, ChanState
  <2> HIDE DEF r
  <2> QED
    BY <1>0, <2>1, <2>2, BecomeAgrees
<1> QED
  BY <1>1, <1>2, <1>3, <1>4, <1>5, <1>6, <1>7, <1>8, <1>9 DEF ChannelStep

-----------------------------------------------------------------------------
(* Opening channels.                                                       *)

(* Nothing is known of a channel that was not opened.                      *)
LEMMA UnusedFacts ==
    ASSUME Core, Agreement, NEW c \in Channels, view[c] = "unused"
    PROVE  /\ chan[c].cls = "none" /\ openChannels[c] = NoEndpoint /\ c \notin frozen
           /\ \A p \in Peers : c \notin endpoints[p]
<1>1. chan[c].cls = "none" /\ openChannels[c] = NoEndpoint
  BY DEF Agreement, ChannelsAgree, ChannelAgrees, ClientAgrees
<1>2. c \notin frozen
  BY <1>1 DEF Agreement, HeldBack, Core, ShutDownOnce
<1>3. \A p \in Peers : c \notin endpoints[p]
  BY <1>1, RouterAssumption DEF Agreement, TablesAgree, Endpoint
<1> QED
  BY <1>1, <1>2, <1>3

(* An "open" that is refused.                                              *)
LEMMA OpenRefusedAgrees ==
    ASSUME Core, Core', Agreement, NEW c \in Channels, OpenRefused(c), UNCHANGED peerVars
    PROVE  Agreement'
<1>0. /\ TablesAgree /\ ClientAgrees /\ HeldBack /\ SessionAgrees
      /\ \A d \in Channels : ChannelAgrees(d)
      /\ \A p \in Peers : PeerAgrees(p)
  BY DEF Agreement, ChannelsAgree, PeersAgree
<1>1. /\ view[c] = "unused" /\ view' = [view EXCEPT ![c] = "closed"]
      /\ UNCHANGED <<tables, hold, session, stray, chan>> /\ view \in [Channels -> View]
  BY DEF OpenRefused, Core, TypeOK, RouterTypeOK
<1>2. RemoveEndpoints({}) /\ ChannelsOf({}) = {} /\ {} \in SUBSET Endpoint
  BY <1>1, NothingRemoved DEF Core, TypeOK, RouterTypeOK, TablesType
<1>3. \A d \in Channels : /\ view'[d] \in {"open", "ready", "done"} <=>
                                view[d] \in {"open", "ready", "done"}
                          /\ view'[d] = "unused" => view[d] = "unused"
                          /\ d # c => view'[d] = view[d]
  BY <1>1
<1>4. TablesAgree' /\ ClientAgrees'
  BY <1>0, <1>2, <1>3, RemoveAgrees
<1>5. HeldBack' /\ SessionAgrees'
  BY <1>0, <1>1 DEF HeldBack, SessionAgrees, hold, tables, session, peerVars
<1>6. ChannelsAgree'
  <2> SUFFICES ASSUME NEW d \in Channels PROVE ChannelAgrees(d)'
    BY DEF ChannelsAgree
  <2>1. Settled(chan[d], chan'[d])
    BY <1>0, <1>1, SameSettled
  <2>2. d \in frozen' => d \in frozen /\ d # c
    BY <1>1, UnusedFacts DEF hold
  <2>3. openChannels'[d] = openChannels[d]
    BY <1>1 DEF tables
  <2> QED
    BY <1>0, <1>1, <1>3, <2>1, <2>2, <2>3, ChannelKept
<1>7. PeersAgree'
  <2> SUFFICES ASSUME NEW p \in Peers PROVE PeerAgrees(p)'
    BY DEF PeersAgree
  <2>1. c \notin endpoints[p]
    BY <1>1, UnusedFacts
  <2>2. \A d \in endpoints[p] : view'[d] = view[d]
    BY <1>3, <2>1, PeerTypes
  <2>3. /\ toPeer'[p] = toPeer[p] /\ queue'[p] = queue[p] /\ fromPeer'[p] = fromPeer[p]
        /\ remote'[p] = remote[p] /\ endpoints'[p] = endpoints[p]
    BY <1>1 DEF tables, hold, peerVars
  <2> QED
    BY <1>0, <1>3, <2>2, <2>3, PeerKept
<1> QED
  BY <1>4, <1>5, <1>6, <1>7 DEF Agreement

(* A new route, as another channel sees it.                                *)
LEMMA OtherChannel ==
    ASSUME Core, Agreement, NEW c \in Channels, NEW e \in Endpoint, AddRoute(c, e),
           NEW v, view' = [view EXCEPT ![c] = v], UNCHANGED stray,
           NEW d \in Channels, d # c, chan'[d] = chan[d], d \in frozen' => d \in frozen
    PROVE  ChannelAgrees(d)'
<1>1. HeldBack /\ ChannelAgrees(d)
  BY DEF Agreement, ChannelsAgree
<1>2. view'[d] = view[d] /\ openChannels'[d] = openChannels[d]
  BY DEF AddRoute, Core, TypeOK, RouterTypeOK
<1>3. Settled(chan[d], chan'[d])
  BY <1>1, SameSettled
<1> QED
  BY <1>1, <1>2, <1>3, ChannelKept

(* And as another peer sees it.                                            *)
LEMMA OtherPeer ==
    ASSUME Core, Agreement, NEW c \in Channels, NEW e \in Endpoint, AddRoute(c, e),
           view[c] = "unused", NEW v \in {"open", "ready"}, view' = [view EXCEPT ![c] = v],
           NEW p \in Peers, p # e, queue'[p] = queue[p], toPeer'[p] = toPeer[p],
           fromPeer'[p] = fromPeer[p], remote'[p] = remote[p]
    PROVE  PeerAgrees(p)'
<1>1. PeerAgrees(p) /\ view \in [Channels -> View]
  BY DEF Agreement, PeersAgree, Core, TypeOK, RouterTypeOK
<1>2. endpoints'[p] = endpoints[p] /\ c \notin endpoints[p] /\ endpoints[p] \subseteq Channels
  BY UnusedFacts DEF AddRoute, Endpoint, Core, TypeOK, RouterTypeOK
<1>3. /\ \A d \in endpoints[p] : view'[d] = view[d]
      /\ \A d \in Channels : view'[d] = "unused" => view[d] = "unused"
  BY <1>1, <1>2
<1> QED
  BY <1>1, <1>2, <1>3, PeerKept

(* The client cannot open a channel any more once communicate() is over.   *)
LEMMA ReadingFacts ==
    ASSUME Agreement, Reading
    PROVE  ~eof /\ ~closed /\ ~exited /\ ~done
BY DEF Reading, Agreement, SessionAgrees

(* An "open" that a channel object takes.                                  *)
LEMMA OpenLocalAgrees ==
    ASSUME Core, Core', Agreement, NEW c \in Channels, NEW cls \in Classes,
           OpenLocal(c, cls), UNCHANGED peerVars
    PROVE  Agreement'
<1>0. TablesAgree /\ ClientAgrees /\ HeldBack /\ SessionAgrees
  BY DEF Agreement
<1>1. /\ view[c] = "unused" /\ AddRoute(c, c) /\ Reading
      /\ chan' = [chan EXCEPT ![c] = NewChan(cls)] /\ chan \in [Channels -> ChanState]
      /\ frozen' = IF cls = "plain" THEN frozen ELSE frozen \cup {c}
      /\ view' = [view EXCEPT ![c] = IF cls = "plain" THEN "ready" ELSE "open"]
      /\ UNCHANGED <<queue, session, stray>>
      /\ c \in Endpoint /\ c \notin Peers
      /\ view \in [Channels -> View]
  BY RouterAssumption DEF OpenLocal, Endpoint, Core, TypeOK, RouterTypeOK, ChannelTypeOK
<1>2. PICK v \in {"open", "ready"} : /\ view' = [view EXCEPT ![c] = v]
                                     /\ cls # "plain" => v = "open"
  BY <1>1
<1>3. TablesAgree' /\ ClientAgrees'
  BY <1>0, <1>1, <1>2, AddAgrees
<1>4. live' = live \cup {c}
  BY <1>1 DEF AddRoute
<1>5. HeldBack'
  <2>1. frozen' \subseteq live' /\ \A e \in Endpoint \ frozen' : queue'[e] = <<>>
    BY <1>0, <1>1, <1>4 DEF HeldBack
  <2>2. \A p \in Peers : /\ p \in live' <=> peer'[p] # "absent"
                         /\ p \in frozen' <=> peer'[p] \in {"starting", "init"}
    BY <1>0, <1>1, <1>4 DEF HeldBack, peerVars
  <2> QED
    BY <2>1, <2>2 DEF HeldBack
<1>6. SessionAgrees'
  BY <1>1, ReadingFacts DEF SessionAgrees, session
<1>7. ChannelsAgree'
  <2> SUFFICES ASSUME NEW d \in Channels PROVE ChannelAgrees(d)'
    BY DEF ChannelsAgree
  <2>1. CASE d = c
    <3>1. chan'[c] = NewChan(cls) /\ openChannels'[c] = c /\ view'[c] = v
      BY <1>1, <1>2 DEF AddRoute, Core, TypeOK, RouterTypeOK
    <3>2. /\ NewChan(cls).cls = cls /\ cls # "none" /\ NewChan(cls).conn = "none"
          /\ cls \in {"tasks", "async"} => NewChan(cls).tasks > 0
      BY ClassAssumption DEF NewChan
    <3>3. (c \in frozen' => v = "open") /\ c \notin stray'
      BY <1>1, <1>2, UnusedFacts DEF Agreement, ChannelsAgree, ChannelAgrees
    <3> HIDE DEF NewChan
    <3> QED
      BY <1>1, <2>1, <3>1, <3>2, <3>3 DEF ChannelAgrees
  <2>2. CASE d # c
    <3>1. chan'[d] = chan[d] /\ (d \in frozen' => d \in frozen)
      BY <1>1, <2>2
    <3> QED
      BY <1>1, <1>2, <2>2, <3>1, OtherChannel
  <2> QED
    BY <2>1, <2>2
<1>8. PeersAgree'
  <2> SUFFICES ASSUME NEW p \in Peers PROVE PeerAgrees(p)'
    BY DEF PeersAgree
  <2>1. /\ p # c /\ queue'[p] = queue[p] /\ toPeer'[p] = toPeer[p]
        /\ fromPeer'[p] = fromPeer[p] /\ remote'[p] = remote[p]
    BY <1>1 DEF peerVars
  <2> QED
    BY <1>1, <1>2, <2>1, OtherPeer
<1> QED
  BY <1>3, <1>5, <1>6, <1>7, <1>8 DEF Agreement

(* Appending to the second part of a sequence.                             *)
LEMMA ConcatAppend ==
    ASSUME NEW a \in Seq(Call), NEW b \in Seq(Call), NEW k \in Call
    PROVE  a \o Append(b, k) = Append(a \o b, k)
OBVIOUS

(* do_channel_control() and the like make the pipeline longer by one call, *)
(* whether the peer is frozen or not.                                      *)
LEMMA ForwardAppends ==
    ASSUME Core, HeldBack, NEW p \in Peers, NEW k \in Call, Forward(p, k)
    PROVE  /\ Pipeline(p)' = Append(Pipeline(p), k)
           /\ frozen' = frozen
           /\ \A e \in Endpoint : e # p => queue'[e] = queue[e]
           /\ \A q \in Peers : q # p => toPeer'[q] = toPeer[q]
           /\ \A e \in Endpoint \ frozen : queue'[e] = <<>>
<1>0. /\ toPeer[p] \in Seq(Call) /\ queue[p] \in Seq(Call) /\ p \in Endpoint
      /\ queue \in [Endpoint -> Seq(Call)] /\ toPeer \in [Peers -> Seq(Call)]
      /\ \A e \in Endpoint \ frozen : queue[e] = <<>>
  BY PeerTypes DEF Core, TypeOK, RouterTypeOK, PeerTypeOK, HeldBack
<1>1. CASE Enqueue(p, k) /\ UNCHANGED toPeer
  <2>1. /\ p \in frozen /\ frozen' = frozen /\ queue' = [queue EXCEPT ![p] = Append(@, k)]
        /\ toPeer' = toPeer
    BY <1>1 DEF Enqueue
  <2>2. queue'[p] = Append(queue[p], k)
    BY <1>0, <2>1
  <2>3. toPeer[p] \o Append(queue[p], k) = Append(toPeer[p] \o queue[p], k)
    BY <1>0, ConcatAppend
  <2> QED
    BY <1>0, <2>1, <2>2, <2>3 DEF Pipeline
<1>2. CASE /\ p \notin frozen
           /\ toPeer' = [toPeer EXCEPT ![p] = Append(@, k)]
           /\ UNCHANGED hold
  <2>1. frozen' = frozen /\ queue' = queue /\ queue[p] = <<>>
    BY <1>0, <1>2 DEF hold
  <2>2. toPeer'[p] = Append(toPeer[p], k) /\ \A q \in Peers : q # p => toPeer'[q] = toPeer[q]
    BY <1>0, <1>2
  <2>3. Append(toPeer[p], k) \o <<>> = Append(toPeer[p] \o <<>>, k)
    BY <1>0
  <2> QED
    BY <1>0, <2>1, <2>2, <2>3 DEF Pipeline
<1> QED
  BY <1>1, <1>2 DEF Forward

(* An "open" that a peer takes.                                            *)
LEMMA OpenPeerAgrees ==
    ASSUME Core, Core', Agreement, NEW c \in Channels, NEW p \in Peers,
           OpenPeer(c, p), UNCHANGED chan
    PROVE  Agreement'
<1>0. TablesAgree /\ ClientAgrees /\ HeldBack /\ SessionAgrees /\ PeerAgrees(p)
  BY DEF Agreement, PeersAgree
<1>1. /\ view[c] = "unused" /\ AddRoute(c, p) /\ Reading
      /\ view' = [view EXCEPT ![c] = "open"]
      /\ UNCHANGED <<session, stray, fromPeer, remote>>
      /\ view \in [Channels -> View]
      /\ p \in Endpoint /\ p \notin Channels
      /\ endpoints' = [endpoints EXCEPT ![p] = @ \cup {c}] /\ live' = live \cup {p}
      /\ call(c, "open") \in Call
  BY RouterAssumption, CallType
     DEF OpenPeer, AddRoute, Endpoint, Core, TypeOK, RouterTypeOK, Commands
<1>2. TablesAgree' /\ ClientAgrees'
  BY <1>0, <1>1, AddAgrees
<1>3. /\ Pipeline(p)' = Append(Pipeline(p), call(c, "open"))
      /\ \A e \in Endpoint : e # p => queue'[e] = queue[e]
      /\ \A q \in Peers : q # p => toPeer'[q] = toPeer[q]
      /\ \A e \in Endpoint \ frozen' : queue'[e] = <<>>
      /\ \A e \in Endpoint : e # p => (e \in frozen' <=> e \in frozen)
      /\ p \in frozen' <=> peer'[p] \in {"starting", "init"}
      /\ peer'[p] # "absent"
      /\ \A q \in Peers : q # p => peer'[q] = peer[q]
  <2>1. CASE peer[p] = "absent"
    <3>1. /\ peer' = [peer EXCEPT ![p] = "starting"] /\ frozen' = frozen \cup {p}
          /\ queue' = [queue EXCEPT ![p] = <<call(c, "open")>>] /\ toPeer' = toPeer
      BY <2>1 DEF OpenPeer
    <3>2. p \notin frozen /\ queue[p] = <<>>
      BY <1>0, <1>1, <2>1 DEF HeldBack
    <3>3. queue \in [Endpoint -> Seq(Call)] /\ peer \in [Peers -> {"absent", "starting", "init", "up"}]
          /\ toPeer[p] \in Seq(Call)
      BY DEF Core, TypeOK, RouterTypeOK, PeerTypeOK
    <3>4. toPeer[p] \o <<call(c, "open")>> = Append(toPeer[p] \o <<>>, call(c, "open"))
      BY <1>1, <3>3
    <3>5. queue'[p] = <<call(c, "open")>> /\ \A e \in Endpoint : e # p => queue'[e] = queue[e]
      BY <1>1, <3>1, <3>3
    <3>6. Pipeline(p)' = Append(Pipeline(p), call(c, "open"))
      BY <3>1, <3>2, <3>4, <3>5 DEF Pipeline
    <3>7. \A e \in Endpoint \ frozen' : queue'[e] = <<>>
      BY <1>0, <3>1, <3>5 DEF HeldBack
    <3> QED
      BY <3>1, <3>3, <3>5, <3>6, <3>7
  <2>2. CASE peer[p] # "absent"
    <3>1. Forward(p, call(c, "open")) /\ peer' = peer
      BY <2>2 DEF OpenPeer
    <3>2. p \in frozen <=> peer[p] \in {"starting", "init"}
      BY <1>0 DEF HeldBack
    <3> QED
      BY <1>0, <1>1, <2>2, <3>1, <3>2, ForwardAppends
  <2> QED
    BY <2>1, <2>2
<1>4. HeldBack'
  <2>1. frozen' \subseteq live'
    <3>1. frozen' \subseteq Endpoint
      BY DEF Core, TypeOK, RouterTypeOK
    <3> QED
      BY <1>0, <1>1, <1>3, <3>1 DEF HeldBack
  <2>2. \A q \in Peers : /\ q \in live' <=> peer'[q] # "absent"
                         /\ q \in frozen' <=> peer'[q] \in {"starting", "init"}
    BY <1>0, <1>1, <1>3 DEF HeldBack, Endpoint
  <2> QED
    BY <1>3, <2>1, <2>2 DEF HeldBack
<1>5. SessionAgrees'
  BY <1>1, ReadingFacts DEF SessionAgrees, session
<1>6. ChannelsAgree'
  <2> SUFFICES ASSUME NEW d \in Channels PROVE ChannelAgrees(d)'
    BY DEF ChannelsAgree
  <2>1. d \in frozen' => d \in frozen
    BY <1>1, <1>3 DEF Endpoint
  <2>2. CASE d = c
    <3>1. chan[c].cls = "none" /\ c \notin frozen
      BY <1>1, UnusedFacts
    <3>2. openChannels'[c] = p
      BY <1>1 DEF AddRoute, Core, TypeOK, RouterTypeOK
    <3>3. ChannelAgrees(c)
      BY DEF Agreement, ChannelsAgree
    <3> QED
      BY <1>1, <2>1, <2>2, <3>1, <3>2, <3>3 DEF ChannelAgrees
  <2>3. CASE d # c
    BY <1>1, <2>1, <2>3, OtherChannel
  <2> QED
    BY <2>2, <2>3
<1>7. PeersAgree'
  <2> SUFFICES ASSUME NEW q \in Peers PROVE PeerAgrees(q)'
    BY DEF PeersAgree
  <2>1. CASE q = p
    <3>1. BothEnds(Append(Pipeline(p), call(c, "open")), fromPeer[p], remote[p],
                   endpoints[p] \cup {c}, [view EXCEPT ![c] = "open"])
      BY <1>0, <1>1, PeerTypes, UnusedFacts, PipeOpens DEF PeerAgrees
    <3>2. endpoints'[p] = endpoints[p] \cup {c}
      BY <1>1 DEF Core, TypeOK, RouterTypeOK
    <3> QED
      BY <1>1, <1>3, <2>1, <3>1, <3>2 DEF PeerAgrees
  <2>2. CASE q # p
    <3>1. queue'[q] = queue[q] /\ toPeer'[q] = toPeer[q] /\ q \in Endpoint
      BY <1>3, <2>2 DEF Endpoint
    <3> QED
      BY <1>1, <2>2, <3>1, OtherPeer
  <2> QED
    BY <2>1, <2>2
<1> QED
  BY <1>2, <1>4, <1>5, <1>6, <1>7 DEF Agreement

-----------------------------------------------------------------------------
(* Steps of one peer.                                                      *)

(* A step that is about the pipes of one peer and nothing else.            *)
LEMMA PipesOnly ==
    ASSUME Core, Core', Agreement, NEW p \in Peers,
           UNCHANGED <<tables, session, view, stray, chan>>, HeldBack', PeerAgrees(p)',
           \A d \in Channels : d \in frozen' => d \in frozen,
           \A q \in Peers : q # p => /\ toPeer'[q] = toPeer[q] /\ queue'[q] = queue[q]
                                     /\ fromPeer'[q] = fromPeer[q] /\ remote'[q] = remote[q]
    PROVE  Agreement'
<1>0. /\ TablesAgree /\ ClientAgrees /\ HeldBack /\ SessionAgrees
      /\ \A d \in Channels : ChannelAgrees(d)
      /\ \A q \in Peers : PeerAgrees(q)
  BY DEF Agreement, ChannelsAgree, PeersAgree
<1>1. TablesAgree' /\ ClientAgrees' /\ SessionAgrees'
  BY <1>0 DEF TablesAgree, ClientAgrees, SessionAgrees, tables, session
<1>2. ChannelsAgree'
  <2> SUFFICES ASSUME NEW d \in Channels PROVE ChannelAgrees(d)'
    BY DEF ChannelsAgree
  <2>1. Settled(chan[d], chan'[d])
    BY <1>0, SameSettled
  <2> QED
    BY <1>0, <2>1, ChannelKept DEF tables
<1>3. PeersAgree'
  <2> SUFFICES ASSUME NEW q \in Peers, q # p PROVE PeerAgrees(q)'
    BY DEF PeersAgree
  <2> QED
    BY <1>0, PeerKept DEF tables
<1> QED
  BY <1>1, <1>2, <1>3 DEF Agreement

(* A call of the router joins the pipeline of p, and nothing else happens. *)
LEMMA ForwardAgrees ==
    ASSUME Core, Core', Agreement, NEW p \in Peers, NEW k \in Call, Forward(p, k),
           k.cmd # "open", k.cmd = "kill" \/ k.chs \subseteq endpoints[p],
           UNCHANGED <<tables, session, view, stray, chan, peer, fromPeer, remote>>
    PROVE  Agreement'
<1>1. HeldBack /\ PeerAgrees(p)
  BY DEF Agreement, PeersAgree
<1>2. /\ Pipeline(p)' = Append(Pipeline(p), k)
      /\ frozen' = frozen
      /\ \A q \in Peers : q # p => queue'[q] = queue[q]
      /\ \A q \in Peers : q # p => toPeer'[q] = toPeer[q]
      /\ \A e \in Endpoint \ frozen : queue'[e] = <<>>
  BY <1>1, ForwardAppends DEF Endpoint
<1>3. HeldBack'
  BY <1>1, <1>2 DEF HeldBack, tables
<1>4. PeerAgrees(p)'
  <2>1. BothEnds(Append(Pipeline(p), k), fromPeer[p], remote[p], endpoints[p], view)
    BY <1>1, PeerTypes, PipeGrows DEF PeerAgrees
  <2> QED
    BY <1>2, <2>1 DEF PeerAgrees, tables
<1> QED
  BY <1>2, <1>3, <1>4, PipesOnly

(* Endpoints are shut down, their channels closed, and their peers         *)
(* forgotten; what becomes of the other peers is told in advance.          *)
LEMMA RemovalAgrees ==
    ASSUME Core, Core', Agreement, NEW S \in SUBSET Endpoint,
           RemoveEndpoints(S), CloseView(S, view), UNCHANGED stray,
           \A c \in Channels : Settled(chan[c], chan'[c]),
           frozen' \subseteq frozen, frozen' \cap S = {}, HeldBack', SessionAgrees',
           \A p \in Peers \cap S : /\ toPeer'[p] = <<>> /\ queue'[p] = <<>>
                                   /\ fromPeer'[p] = <<>> /\ remote'[p] = NoneServed,
           \A p \in Peers \ S :
              BothEnds(toPeer'[p] \o queue'[p], fromPeer'[p], remote'[p], endpoints[p], view)
    PROVE  Agreement'
<1>0. /\ TablesAgree /\ ClientAgrees /\ HeldBack
      /\ \A c \in Channels : ChannelAgrees(c)
  BY DEF Agreement, ChannelsAgree
<1>1. /\ openChannels \in [Channels -> Endpoint \cup {NoEndpoint}]
      /\ endpoints \in [Endpoint -> SUBSET Channels]
      /\ endpoints' = [e \in Endpoint |-> IF e \in S THEN {} ELSE endpoints[e]]
      /\ openChannels' = [c \in Channels |->
                             IF c \in ChannelsOf(S) THEN NoEndpoint ELSE openChannels[c]]
  BY DEF RemoveEndpoints, Core, TypeOK, RouterTypeOK
<1>2. \A c \in Channels : c \in ChannelsOf(S) <=> openChannels[c] \in S
  BY <1>0, <1>1 DEF ChannelsOf, TablesAgree
<1>3. \A c \in Channels : view'[c] = IF c \in ChannelsOf(S) THEN "closed" ELSE view[c]
  BY DEF CloseView
<1>4. TablesAgree' /\ ClientAgrees'
  <2>1. /\ \A c \in Channels : c \in ChannelsOf(S) => view'[c] = "closed"
        /\ \A c \in Channels : c \notin ChannelsOf(S) =>
              (view'[c] \in {"open", "ready", "done"} <=> view[c] \in {"open", "ready", "done"})
    BY <1>3
  <2> QED
    BY <1>0, <2>1, RemoveAgrees
<1>5. ChannelsAgree'
  <2> SUFFICES ASSUME NEW c \in Channels PROVE ChannelAgrees(c)'
    BY DEF ChannelsAgree
  <2>1. openChannels'[c] \in {openChannels[c], NoEndpoint}
    BY <1>1
  <2>2. view'[c] = "unused" => view[c] = "unused"
    BY <1>3
  <2>3. c \in frozen' => view'[c] = view[c]
    <3>1. c \in frozen' => chan[c].cls # "none" /\ c \notin S
      BY <1>0 DEF HeldBack, Core, ShutDownOnce
    <3>2. chan[c].cls # "none" => openChannels[c] \in {c, NoEndpoint}
      BY <1>0 DEF ChannelAgrees
    <3>3. NoEndpoint \notin S
      BY RouterAssumption DEF Endpoint
    <3> QED
      BY <1>2, <1>3, <3>1, <3>2, <3>3
  <2> QED
    BY <1>0, <2>1, <2>2, <2>3, ChannelKept
<1>6. PeersAgree'
  <2> SUFFICES ASSUME NEW p \in Peers PROVE PeerAgrees(p)'
    BY DEF PeersAgree
  <2>0. p \in Endpoint
    BY DEF Endpoint
  <2>1. CASE p \in S
    <3>1. endpoints'[p] = {} /\ toPeer'[p] \o queue'[p] = <<>>
      BY <1>1, <2>0, <2>1
    <3>2. BothEnds(<<>>, <<>>, NoneServed, {}, view')
      BY NothingSaid
    <3> QED
      BY <2>1, <3>1, <3>2 DEF PeerAgrees, Pipeline
  <2>2. CASE p \notin S
    <3>1. endpoints'[p] = endpoints[p] /\ endpoints[p] \in SUBSET Channels
      BY <1>1, <2>0, <2>2
    <3>2. \A c \in endpoints[p] : openChannels[c] = p
      BY <1>0, <2>0 DEF TablesAgree
    <3>3. /\ \A c \in endpoints[p] : view'[c] = view[c]
          /\ \A c \in Channels : view'[c] = "unused" => view[c] = "unused"
      BY <1>2, <1>3, <2>2, <3>1, <3>2
    <3>4. /\ toPeer'[p] \o queue'[p] \in Seq(Call)
          /\ fromPeer'[p] \in Seq(Reply) /\ remote'[p] \in [Channels -> View]
      <4>1. toPeer'[p] \in Seq(Call) /\ queue'[p] \in Seq(Call)
        BY <2>0 DEF Core, TypeOK, RouterTypeOK, PeerTypeOK
      <4> QED
        BY <4>1 DEF Core, TypeOK, PeerTypeOK
    <3>5. BothEnds(toPeer'[p] \o queue'[p], fromPeer'[p], remote'[p], endpoints[p], view')
      BY <2>2, <3>1, <3>3, <3>4, ViewKept
    <3> QED
      BY <3>1, <3>5 DEF PeerAgrees, Pipeline
  <2> QED
    BY <2>1, <2>2
<1> QED
  BY <1>4, <1>5, <1>6 DEF Agreement

(* A peer is closed, for whatever reason.                                  *)
LEMMA PeerClosedAgrees ==
    ASSUME Core, Core', Agreement, NEW p \in Peers, ForgetPeers({p}),
           ShutdownEndpoints({p}), UNCHANGED <<session, stray, chan>>
    PROVE  Agreement'
<1>0. /\ HeldBack /\ SessionAgrees /\ (\A c \in Channels : ChannelAgrees(c))
      /\ \A q \in Peers : PeerAgrees(q)
  BY DEF Agreement, ChannelsAgree, PeersAgree
<1>1. /\ {p} \in SUBSET Endpoint /\ RemoveEndpoints({p}) /\ CloseView({p}, view)
      /\ live' = live \ {p} /\ frozen' = frozen \ {p}
      /\ queue' = [e \in Endpoint |-> IF e \in {p} THEN <<>> ELSE queue[e]]
  BY DEF ShutdownEndpoints, Release, RemoveEndpoints, Endpoint
<1>2. \A q \in Peers :
         /\ peer'[q] = IF q = p THEN "absent" ELSE peer[q]
         /\ toPeer'[q] = IF q = p THEN <<>> ELSE toPeer[q]
         /\ fromPeer'[q] = IF q = p THEN <<>> ELSE fromPeer[q]
         /\ remote'[q] = IF q = p THEN NoneServed ELSE remote[q]
         /\ queue'[q] = IF q = p THEN <<>> ELSE queue[q]
  BY <1>1 DEF ForgetPeers, Endpoint
<1>3. HeldBack'
  BY <1>0, <1>1, <1>2 DEF HeldBack
<1>4. SessionAgrees'
  BY <1>0, <1>1 DEF SessionAgrees, session
<1>5. \A c \in Channels : Settled(chan[c], chan'[c])
  BY <1>0, SameSettled
<1>6. \A q \in Peers \ {p} :
         BothEnds(toPeer'[q] \o queue'[q], fromPeer'[q], remote'[q], endpoints[q], view)
  BY <1>0, <1>2 DEF PeerAgrees, Pipeline
<1> QED
  BY <1>1, <1>2, <1>3, <1>4, <1>5, <1>6, RemovalAgrees

(* A frame for a channel of a peer.                                        *)
LEMMA PeerFrameAgrees ==
    ASSUME Core, Core', Agreement, NEW c \in Channels, NEW p \in Peers,
           NEW cmd \in FrameCommands, PeerFrame(c, p, cmd), UNCHANGED chan
    PROVE  Agreement'
<1>1. call(c, cmd) \in Call /\ call(c, cmd).cmd # "open" /\ call(c, cmd).chs = {c}
  BY DEF FrameCommands, Commands, call, Call
<1>2. c \in endpoints[p]
  BY DEF PeerFrame, Agreement, TablesAgree, Endpoint
<1>3. Forward(p, call(c, cmd)) /\ UNCHANGED <<tables, session, view, stray, peer, fromPeer, remote>>
  BY DEF PeerFrame
<1> QED
  BY <1>1, <1>2, <1>3, ForwardAgrees

(* A "kill" of a peer's host.                                              *)
LEMMA KillHostAgrees ==
    ASSUME Core, Core', Agreement, NEW p \in Peers, KillHost(p), UNCHANGED chan
    PROVE  Agreement'
<1> DEFINE k == [chs |-> {}, cmd |-> "killhost"]
<1>1. k \in Call /\ k.cmd # "open" /\ k.chs = {}
  BY DEF Call, Commands
<1>2. CASE Enqueue(p, k) /\ UNCHANGED <<tables, session, link, view, stray, peerVars>>
  <2>1. Forward(p, k)
    BY <1>2 DEF Forward, peerVars
  <2>2. UNCHANGED <<tables, session, view, stray, peer, fromPeer, remote>>
    BY <1>2 DEF peerVars
  <2> HIDE DEF k
  <2> QED
    BY <1>1, <2>1, <2>2, ForwardAgrees
<1>3. CASE ForgetPeers({p}) /\ ShutdownEndpoints({p}) /\ UNCHANGED <<session, stray>>
  BY <1>3, PeerClosedAgrees
<1> QED
  BY <1>2, <1>3 DEF KillHost

(* A frame of a peer reaches the client.                                   *)
LEMMA PeerReceivedAgrees ==
    ASSUME Core, Core', Agreement, NEW p \in Peers, PeerReceived(p), UNCHANGED chan
    PROVE  Agreement'
<1>0. /\ TablesAgree /\ ClientAgrees /\ HeldBack /\ SessionAgrees
      /\ \A d \in Channels : ChannelAgrees(d)
      /\ \A q \in Peers : PeerAgrees(q)
  BY DEF Agreement, ChannelsAgree, PeersAgree
<1> DEFINE m == Head(fromPeer[p])
           c == m.ch
           became == CASE m.cmd = "data" -> view[c]
                       [] m.cmd = "close" -> "closed"
                       [] OTHER -> m.cmd
<1>1. /\ fromPeer[p] # <<>> /\ fromPeer[p] \in Seq(Reply)
      /\ fromPeer' = [fromPeer EXCEPT ![p] = Tail(@)]
      /\ UNCHANGED <<hold, session, peer, toPeer, remote>>
      /\ fromPeer \in [Peers -> Seq(Reply)]
  BY DEF PeerReceived, Core, TypeOK, PeerTypeOK
<1>2. /\ m \in Reply /\ c \in Channels /\ m.cmd \in {"ready", "data", "done", "close"}
      /\ m = fromPeer[p][1] /\ 1 \in 1..Len(fromPeer[p])
  <2>1. m \in Reply /\ m = fromPeer[p][1] /\ 1 \in 1..Len(fromPeer[p])
    BY <1>1
  <2> HIDE DEF m
  <2> QED
    BY <2>1 DEF Reply
<1>3. IF m.cmd = "close"
      THEN DropChannel(c, p) /\ Write(c, "closed")
      ELSE /\ Write(c, IF m.cmd = "data" THEN view[c] ELSE m.cmd)
           /\ UNCHANGED tables
  BY DEF PeerReceived
<1>4. c \in endpoints[p]
  BY <1>0, <1>2 DEF PeerAgrees, BothEnds, SaysInOrder
<1> HIDE DEF m
<1>5. /\ p \in Endpoint /\ openChannels[c] = p /\ chan[c].cls = "none"
      /\ view[c] \in {"open", "ready", "done"} /\ view \in [Channels -> View]
  <2>1. p \in Endpoint /\ p # NoEndpoint
    BY RouterAssumption DEF Endpoint
  <2>2. openChannels[c] = p
    BY <1>0, <1>2, <1>4, <2>1 DEF TablesAgree
  <2> QED
    BY <1>0, <1>2, <2>1, <2>2 DEF ClientAgrees, ChannelAgrees, Core, TypeOK, RouterTypeOK
<1>6. view' = [view EXCEPT ![c] = became] /\ UNCHANGED stray
  BY <1>2, <1>3, <1>5 DEF Write
<1>7. became \in View \ {"unused"} /\ (m.cmd # "close" => became \in {"open", "ready", "done"})
  BY <1>2, <1>5 DEF View
<1>8. /\ m.cmd = "close" => became = "closed"
      /\ \A d \in Channels : d # c => view'[d] = view[d]
      /\ view'[c] = became
  BY <1>2, <1>5, <1>6
<1>9. TablesAgree' /\ ClientAgrees'
  <2>1. CASE m.cmd = "close"
    BY <1>0, <1>2, <1>3, <1>4, <1>5, <1>6, <1>8, <2>1, DropAgrees
  <2>2. CASE m.cmd # "close"
    <3>1. UNCHANGED tables
      BY <1>3, <2>2
    <3>2. RemoveEndpoints({}) /\ ChannelsOf({}) = {} /\ {} \in SUBSET Endpoint
      BY <3>1, NothingRemoved DEF Core, TypeOK, RouterTypeOK, TablesType
    <3>3. \A d \in Channels :
             view'[d] \in {"open", "ready", "done"} <=> view[d] \in {"open", "ready", "done"}
      BY <1>5, <1>7, <1>8, <2>2
    <3> QED
      BY <1>0, <3>2, <3>3, RemoveAgrees
  <2> QED
    BY <2>1, <2>2
<1>10. /\ live' = live
       /\ \A d \in Channels : openChannels'[d] \in {openChannels[d], NoEndpoint}
       /\ \A q \in Peers : q # p => endpoints'[q] = endpoints[q]
       /\ endpoints'[p] = IF m.cmd = "close" THEN endpoints[p] \ {c} ELSE endpoints[p]
  <2>1. CASE m.cmd = "close"
    <3>1. DropChannel(c, p)
      BY <1>3, <2>1
    <3> QED
      BY <1>2, <1>5, <2>1, <3>1 DEF DropChannel, Core, TypeOK, RouterTypeOK, Endpoint
  <2>2. CASE m.cmd # "close"
    BY <1>3, <2>2 DEF tables
  <2> QED
    BY <2>1, <2>2
<1>11. HeldBack' /\ SessionAgrees'
  BY <1>0, <1>1, <1>10 DEF HeldBack, SessionAgrees, hold, session
<1> HIDE DEF became
<1>12. ChannelsAgree'
  <2> SUFFICES ASSUME NEW d \in Channels PROVE ChannelAgrees(d)'
    BY DEF ChannelsAgree
  <2>1. Settled(chan[d], chan'[d])
    BY <1>0, SameSettled
  <2>2. view'[d] = "unused" => view[d] = "unused"
    BY <1>7, <1>8
  <2>3. d \in frozen' => d \in frozen /\ d # c
    BY <1>0, <1>1, <1>5 DEF hold, HeldBack, Core, ShutDownOnce
  <2> QED
    BY <1>0, <1>6, <1>8, <1>10, <2>1, <2>2, <2>3, ChannelKept
<1>13. PeersAgree'
  <2> SUFFICES ASSUME NEW q \in Peers PROVE PeerAgrees(q)'
    BY DEF PeersAgree
  <2>1. CASE q = p
    <3>1. BothEnds(Pipeline(p), Tail(fromPeer[p]), remote[p], endpoints'[p],
                   [view EXCEPT ![c] = became])
      <4>1. /\ Pipeline(p) \in Seq(Call) /\ remote[p] \in [Channels -> View]
            /\ endpoints[p] \in SUBSET Channels
        BY PeerTypes
      <4>2. became = CASE Head(fromPeer[p]).cmd = "data" -> view[c]
                       [] Head(fromPeer[p]).cmd = "close" -> "closed"
                       [] OTHER -> Head(fromPeer[p]).cmd
        BY DEF became, m
      <4>3. c = Head(fromPeer[p]).ch
        BY DEF m
      <4>4. endpoints'[p] = IF Head(fromPeer[p]).cmd = "close" THEN endpoints[p] \ {c}
                            ELSE endpoints[p]
        BY <1>10 DEF m
      <4>5. BothEnds(Pipeline(p), fromPeer[p], remote[p], endpoints[p], view)
        BY <1>0 DEF PeerAgrees
      <4> HIDE DEF c
      <4> QED
        BY <1>1, <1>5, <4>1, <4>2, <4>3, <4>4, <4>5, FrameHeard
    <3>2. fromPeer'[p] = Tail(fromPeer[p]) /\ Pipeline(p)' = Pipeline(p) /\ remote' = remote
      BY <1>1 DEF hold, Pipeline
    <3> QED
      BY <1>6, <2>1, <3>1, <3>2 DEF PeerAgrees
  <2>2. CASE q # p
    <3>1. c \notin endpoints[q]
      BY <1>0, <1>5, <2>2 DEF TablesAgree, Endpoint
    <3>2. /\ \A d \in endpoints[q] : view'[d] = view[d]
          /\ \A d \in Channels : view'[d] = "unused" => view[d] = "unused"
      BY <1>7, <1>8, <3>1, PeerTypes
    <3>3. /\ toPeer'[q] = toPeer[q] /\ queue'[q] = queue[q] /\ fromPeer'[q] = fromPeer[q]
          /\ remote'[q] = remote[q] /\ endpoints'[q] = endpoints[q]
      BY <1>1, <1>10, <2>2 DEF hold
    <3> QED
      BY <1>0, <3>2, <3>3, PeerKept
  <2> QED
    BY <2>1, <2>2
<1> QED
  BY <1>9, <1>11, <1>12, <1>13 DEF Agreement

(* Every step of a peer.                                                   *)
LEMMA PeerStepAgrees ==
    ASSUME Core, Core', Agreement, NEW p \in Peers, PeerStep(p)
    PROVE  Agreement'
<1>0. /\ UNCHANGED chan /\ HeldBack /\ PeerAgrees(p) /\ p \in Endpoint
      /\ queue \in [Endpoint -> Seq(Call)] /\ toPeer \in [Peers -> Seq(Call)]
      /\ fromPeer \in [Peers -> Seq(Reply)] /\ remote \in [Peers -> [Channels -> View]]
      /\ peer \in [Peers -> {"absent", "starting", "init", "up"}]
      /\ toPeer[p] \in Seq(Call) /\ queue[p] \in Seq(Call)
      /\ \A d \in Channels : d # p
  BY RouterAssumption DEF PeerStep, Agreement, PeersAgree, Endpoint, Core, TypeOK,
                          RouterTypeOK, PeerTypeOK
<1>1. CASE PeerGone(p)
  BY <1>0, <1>1, PeerClosedAgrees DEF PeerGone
<1>2. CASE PeerInitReceived(p)
  <2>1. /\ peer[p] = "starting" /\ peer' = [peer EXCEPT ![p] = "init"]
        /\ UNCHANGED <<routerVars, toPeer, fromPeer, remote>>
    BY <1>2 DEF PeerInitReceived
  <2>2. UNCHANGED <<tables, session, view, stray, frozen, queue>>
    BY <2>1 DEF routerVars, hold
  <2>3. HeldBack'
    <3>1. \A q \in Peers : /\ peer'[q] # "absent" <=> peer[q] # "absent"
                           /\ peer'[q] \in {"starting", "init"} <=> peer[q] \in {"starting", "init"}
      BY <1>0, <2>1
    <3> QED
      BY <1>0, <2>2, <3>1 DEF HeldBack, tables
  <2>4. PeerAgrees(p)'
    BY <1>0, <2>1, <2>2, PeerKept DEF tables
  <2> QED
    BY <1>0, <2>1, <2>2, <2>3, <2>4, PipesOnly
<1>3. CASE PeerUp(p)
  <2>1. CASE /\ peer' = [peer EXCEPT ![p] = "up"]
             /\ toPeer' = [toPeer EXCEPT ![p] = @ \o queue[p]]
             /\ Release({p})
             /\ UNCHANGED <<tables, session, link, view, stray, fromPeer, remote>>
    <3>1. /\ frozen' = frozen \ {p}
          /\ queue' = [e \in Endpoint |-> IF e \in {p} THEN <<>> ELSE queue[e]]
      BY <2>1 DEF Release
    <3>2. HeldBack'
      <4>1. peer[p] = "init"
        BY <1>3 DEF PeerUp
      <4>2. \A q \in Peers : peer'[q] = IF q = p THEN "up" ELSE peer[q]
        BY <1>0, <2>1
      <4> QED
        BY <1>0, <2>1, <3>1, <4>1, <4>2 DEF HeldBack, tables
    <3>3. toPeer'[p] = toPeer[p] \o queue[p] /\ queue'[p] = <<>>
      BY <1>0, <2>1, <3>1
    <3>4. (toPeer[p] \o queue[p]) \o <<>> = toPeer[p] \o queue[p]
      BY <1>0
    <3>5. PeerAgrees(p)'
      BY <1>0, <2>1, <3>3, <3>4 DEF PeerAgrees, Pipeline, tables
    <3>6. \A q \in Peers : q # p => /\ toPeer'[q] = toPeer[q] /\ queue'[q] = queue[q]
                                    /\ fromPeer'[q] = fromPeer[q] /\ remote'[q] = remote[q]
      BY <1>0, <2>1, <3>1 DEF Endpoint
    <3> QED
      BY <1>0, <2>1, <3>1, <3>2, <3>5, <3>6, PipesOnly
  <2>2. CASE ForgetPeers({p}) /\ ShutdownEndpoints({p}) /\ UNCHANGED <<session, stray>>
    BY <1>0, <2>2, PeerClosedAgrees
  <2> QED
    BY <1>3, <2>1, <2>2 DEF PeerUp
<1>4. CASE RemoteRead(p)
  <2> DEFINE now == [c \in Channels |-> IF Head(toPeer[p]) = call(c, "open")
                                        THEN "open" ELSE remote[p][c]]
  <2>1. /\ toPeer[p] # <<>> /\ toPeer' = [toPeer EXCEPT ![p] = Tail(@)]
        /\ remote' = [remote EXCEPT ![p] = now]
        /\ UNCHANGED <<routerVars, peer, fromPeer>>
    BY <1>4 DEF RemoteRead
  <2>2. UNCHANGED <<tables, session, view, stray, frozen, queue>>
    BY <2>1 DEF routerVars, hold
  <2>3. HeldBack'
    BY <1>0, <2>1, <2>2 DEF HeldBack, tables
  <2>4. /\ toPeer'[p] = Tail(toPeer[p]) /\ remote'[p] = now
        /\ \A q \in Peers : q # p => toPeer'[q] = toPeer[q] /\ remote'[q] = remote[q]
    BY <1>0, <2>1
  <2>5. /\ Pipeline(p) # <<>> /\ Head(Pipeline(p)) = Head(toPeer[p])
        /\ Tail(Pipeline(p)) = Tail(toPeer[p]) \o queue[p]
    BY <1>0, <2>1 DEF Pipeline
  <2>6. PeerAgrees(p)'
    <3>1. BothEnds(Tail(Pipeline(p)), fromPeer[p],
                   [c \in Channels |-> IF Head(Pipeline(p)) = call(c, "open")
                                       THEN "open" ELSE remote[p][c]], endpoints[p], view)
      BY <1>0, <2>5, PeerTypes, PipeRead, ZenonT(60) DEF PeerAgrees
    <3>2. BothEnds(Tail(Pipeline(p)), fromPeer[p], now, endpoints[p], view)
      BY <2>5, <3>1
    <3>3. Pipeline(p)' = Tail(Pipeline(p))
      BY <2>2, <2>4, <2>5 DEF Pipeline
    <3> HIDE DEF now
    <3> QED
      BY <2>1, <2>2, <2>4, <3>2, <3>3 DEF PeerAgrees, tables
  <2> QED
    BY <1>0, <2>1, <2>2, <2>3, <2>4, <2>6, PipesOnly
<1>5. ASSUME NEW c \in Channels, RemoteSay(p, c) PROVE Agreement'
  <2>1. PICK cmd \in {"ready", "data", "done", "close"}, became \in View :
           /\ Say(p, c, cmd, became)
           /\ \/ remote[p][c] = "open" /\ cmd = "ready" /\ became = "ready"
              \/ remote[p][c] = "ready" /\ cmd = "data" /\ became = "ready"
              \/ remote[p][c] = "ready" /\ cmd = "done" /\ became = "done"
              \/ /\ remote[p][c] \in {"open", "ready", "done"}
                 /\ cmd = "close" /\ became = "closed"
    BY <1>5 DEF RemoteSay, Serving, View
  <2>2. UNCHANGED <<tables, session, view, stray, frozen, queue, peer, toPeer>>
    BY <1>5 DEF RemoteSay, routerVars, hold
  <2>3. HeldBack'
    BY <1>0, <2>2 DEF HeldBack, tables
  <2>4. /\ fromPeer'[p] = Append(fromPeer[p], [ch |-> c, cmd |-> cmd])
        /\ remote'[p] = [remote[p] EXCEPT ![c] = became]
        /\ \A q \in Peers : q # p => fromPeer'[q] = fromPeer[q] /\ remote'[q] = remote[q]
    BY <1>0, <2>1 DEF Say
  <2>5. BothEnds(Pipeline(p), Append(fromPeer[p], [ch |-> c, cmd |-> cmd]),
                 [remote[p] EXCEPT ![c] = became], endpoints[p], view)
    BY <1>0, <2>1, PeerTypes, ProcessSays DEF PeerAgrees
  <2>6. PeerAgrees(p)'
    BY <2>2, <2>4, <2>5 DEF PeerAgrees, Pipeline, tables
  <2> QED
    BY <1>0, <2>2, <2>3, <2>4, <2>6, PipesOnly
<1>6. CASE PeerReceived(p)
  BY <1>0, <1>6, PeerReceivedAgrees
<1> QED
  BY <1>1, <1>2, <1>3, <1>4, <1>5, <1>6 DEF PeerStep

-----------------------------------------------------------------------------
(* The steps that go through all endpoints.                                *)

(* A "kill": frozen endpoints and peers get it later, and the channels     *)
(* that end at once were not frozen.                                       *)
LEMMA KillAgrees ==
    ASSUME Core, Core', Agreement, NEW G \in SUBSET Channels, Kill(G)
    PROVE  Agreement'
<1>0. /\ TablesAgree /\ HeldBack /\ SessionAgrees
      /\ (\A c \in Channels : ChannelAgrees(c)) /\ \A p \in Peers : PeerAgrees(p)
  BY DEF Agreement, ChannelsAgree, PeersAgree
<1> DEFINE locals == live \cap Channels \cap G
           peers == live \cap Peers
           k == [chs |-> G, cmd |-> "kill"]
           after == [c \in Channels |-> IF c \in locals \ frozen
                                        THEN RunCalls(chan[c], <<k>>) ELSE chan[c]]
           gone == {c \in locals : Ends(c, after[c])}
<1>1. k \in Call /\ k.cmd = "kill" /\ <<k>> \in Seq(Call)
  BY DEF Call, Commands
<1>2. /\ chan' = after
      /\ RemoveEndpoints(gone) /\ CloseView(gone, view)
      /\ queue' = [e \in Endpoint |-> IF e \in (locals \cup peers) \cap frozen
                                      THEN Append(queue[e], k) ELSE queue[e]]
      /\ toPeer' = [p \in Peers |-> IF p \in peers \ frozen
                                    THEN Append(toPeer[p], k) ELSE toPeer[p]]
      /\ UNCHANGED <<frozen, session, stray, peer, fromPeer, remote>>
  BY DEF Kill
<1> HIDE DEF k
<1>3. \A c \in Channels : Settled(chan[c], chan'[c])
  <2> SUFFICES ASSUME NEW c \in Channels PROVE Settled(chan[c], chan'[c])
    OBVIOUS
  <2>1. CASE c \in locals \ frozen
    <3>1. chan'[c] = RunCalls(chan[c], <<k>>) /\ chan[c].cls # "none"
      BY <1>2, <2>1 DEF Core, ShutDownOnce
    <3> QED
      BY <1>0, <1>1, <3>1, CallsSettled
  <2>2. CASE c \notin locals \ frozen
    <3>1. chan'[c] = chan[c]
      BY <1>2, <2>2
    <3> QED
      BY <1>0, <3>1, SameSettled
  <2> QED
    BY <2>1, <2>2
<1>4. gone \in SUBSET Endpoint /\ gone \subseteq Channels /\ frozen \cap gone = {}
  <2>1. \A c \in Channels : c \in frozen => after[c] = chan[c]
    OBVIOUS
  <2> HIDE DEF after
  <2> QED
    BY <2>1 DEF Ends, Endpoint
<1> HIDE DEF after, gone
<1>5. live' = live \ gone /\ frozen' = frozen
  BY <1>2 DEF RemoveEndpoints
<1>6. /\ \A p \in Peers : p \notin gone
      /\ \A p \in Peers : p \in Endpoint
  BY <1>4, RouterAssumption DEF Endpoint
<1>7. HeldBack'
  <2>1. frozen' \subseteq live'
    BY <1>0, <1>4, <1>5 DEF HeldBack
  <2>2. \A e \in Endpoint \ frozen' : queue'[e] = <<>>
    BY <1>0, <1>2, <1>5 DEF HeldBack
  <2>3. \A p \in Peers : /\ p \in live' <=> peer'[p] # "absent"
                         /\ p \in frozen' <=> peer'[p] \in {"starting", "init"}
    BY <1>0, <1>2, <1>5, <1>6 DEF HeldBack
  <2> QED
    BY <2>1, <2>2, <2>3 DEF HeldBack
<1>8. SessionAgrees'
  BY <1>0, <1>2, <1>5 DEF SessionAgrees, session
<1>9. ASSUME NEW p \in Peers
      PROVE  BothEnds(toPeer'[p] \o queue'[p], fromPeer'[p], remote'[p], endpoints[p], view)
  <2>1. /\ toPeer[p] \in Seq(Call) /\ queue[p] \in Seq(Call) /\ Pipeline(p) \in Seq(Call)
        /\ fromPeer[p] \in Seq(Reply) /\ remote[p] \in [Channels -> View]
        /\ endpoints[p] \in SUBSET Channels
    BY PeerTypes
  <2>2. BothEnds(Pipeline(p), fromPeer[p], remote[p], endpoints[p], view)
    BY <1>0 DEF PeerAgrees
  <2>3. BothEnds(Append(Pipeline(p), k), fromPeer[p], remote[p], endpoints[p], view)
    BY <1>1, <2>1, <2>2, PipeGrows
  <2>4. p \notin locals
    BY RouterAssumption
  <2>5. \/ toPeer'[p] \o queue'[p] = Append(Pipeline(p), k)
        \/ toPeer'[p] \o queue'[p] = Pipeline(p)
    <3>1. CASE p \in peers /\ p \in frozen
      <4>1. toPeer'[p] = toPeer[p] /\ queue'[p] = Append(queue[p], k)
        BY <1>2, <1>6, <3>1
      <4>2. toPeer[p] \o Append(queue[p], k) = Append(toPeer[p] \o queue[p], k)
        BY <1>1, <2>1, ConcatAppend
      <4> QED
        BY <4>1, <4>2 DEF Pipeline
    <3>2. CASE p \in peers /\ p \notin frozen
      <4>1. toPeer'[p] = Append(toPeer[p], k) /\ queue'[p] = queue[p] /\ queue[p] = <<>>
        BY <1>0, <1>2, <1>6, <3>2 DEF HeldBack
      <4>2. Append(toPeer[p], k) \o <<>> = Append(toPeer[p] \o <<>>, k)
        BY <1>1, <2>1
      <4> QED
        BY <4>1, <4>2 DEF Pipeline
    <3>3. CASE p \notin peers
      <4>1. toPeer'[p] = toPeer[p] /\ queue'[p] = queue[p]
        BY <1>2, <1>6, <2>4, <3>3
      <4> QED
        BY <4>1 DEF Pipeline
    <3> QED
      BY <3>1, <3>2, <3>3
  <2> QED
    BY <1>2, <2>2, <2>3, <2>5
<1> QED
  BY <1>2, <1>3, <1>4, <1>5, <1>6, <1>7, <1>8, <1>9, RemovalAgrees

(* do_close() of every endpoint.                                           *)
LEMMA CloseEndpointsAgrees ==
    ASSUME Core, Core', Agreement, CloseEndpoints, SessionAgrees'
    PROVE  Agreement' /\ live' \subseteq live
<1>0. /\ TablesAgree /\ HeldBack
      /\ (\A c \in Channels : ChannelAgrees(c)) /\ \A p \in Peers : PeerAgrees(p)
  BY DEF Agreement, ChannelsAgree, PeersAgree
<1> DEFINE after == [c \in Channels |-> IF c \in live THEN DoClose(chan[c]) ELSE chan[c]]
           gone == {c \in live \cap Channels : Ends(c, after[c])} \cup (live \cap Peers)
<1>1. /\ chan' = after
      /\ RemoveEndpoints(gone) /\ CloseView(gone, view) /\ Release(gone)
      /\ ForgetPeers(live \cap Peers) /\ UNCHANGED stray
  BY DEF CloseEndpoints
<1>2. \A c \in Channels : Settled(chan[c], chan'[c])
  <2> SUFFICES ASSUME NEW c \in Channels PROVE Settled(chan[c], chan'[c])
    OBVIOUS
  <2>1. CASE c \in live
    <3>1. chan'[c] = DoClose(chan[c])
      BY <1>1, <2>1
    <3> QED
      BY <1>0, <3>1, CloseSettled
  <2>2. CASE c \notin live
    <3>1. chan'[c] = chan[c]
      BY <1>1, <2>2
    <3> QED
      BY <1>0, <3>1, SameSettled
  <2> QED
    BY <2>1, <2>2
<1>3. gone \in SUBSET Endpoint /\ \A p \in Peers : p \in gone <=> p \in live
  BY RouterAssumption DEF Endpoint
<1> HIDE DEF after, gone
<1>4. /\ live' = live \ gone /\ frozen' = frozen \ gone
      /\ \A e \in Endpoint : queue'[e] = IF e \in gone THEN <<>> ELSE queue[e]
      /\ \A p \in Peers :
            /\ peer'[p] = IF p \in live THEN "absent" ELSE peer[p]
            /\ toPeer'[p] = IF p \in live THEN <<>> ELSE toPeer[p]
            /\ fromPeer'[p] = IF p \in live THEN <<>> ELSE fromPeer[p]
            /\ remote'[p] = IF p \in live THEN NoneServed ELSE remote[p]
            /\ p \in Endpoint
  BY <1>1 DEF RemoveEndpoints, Release, ForgetPeers, Endpoint
<1>5. HeldBack'
  <2>1. frozen' \subseteq live' /\ \A e \in Endpoint \ frozen' : queue'[e] = <<>>
    BY <1>0, <1>4 DEF HeldBack
  <2>2. \A p \in Peers : /\ p \in live' <=> peer'[p] # "absent"
                         /\ p \in frozen' <=> peer'[p] \in {"starting", "init"}
    BY <1>0, <1>3, <1>4 DEF HeldBack
  <2> QED
    BY <2>1, <2>2 DEF HeldBack
<1>6. \A p \in Peers \cap gone : /\ toPeer'[p] = <<>> /\ queue'[p] = <<>>
                                 /\ fromPeer'[p] = <<>> /\ remote'[p] = NoneServed
  BY <1>3, <1>4
<1>7. \A p \in Peers \ gone :
         BothEnds(toPeer'[p] \o queue'[p], fromPeer'[p], remote'[p], endpoints[p], view)
  BY <1>0, <1>3, <1>4 DEF PeerAgrees, Pipeline
<1>8. frozen' \subseteq frozen /\ frozen' \cap gone = {}
  BY <1>4
<1>9. Agreement'
  BY <1>1, <1>2, <1>3, <1>5, <1>6, <1>7, <1>8, RemovalAgrees
<1> QED
  BY <1>4, <1>9

(* A step that leaves all but the session and the transport alone.         *)
LEMMA SessionOnly ==
    ASSUME Core, Core', Agreement, UNCHANGED <<tables, hold, view, stray, chan, peerVars>>,
           SessionAgrees'
    PROVE  Agreement'
<1>0. /\ TablesAgree /\ ClientAgrees /\ HeldBack
      /\ (\A c \in Channels : ChannelAgrees(c)) /\ \A p \in Peers : PeerAgrees(p)
  BY DEF Agreement, ChannelsAgree, PeersAgree
<1>1. TablesAgree' /\ ClientAgrees' /\ HeldBack'
  BY <1>0 DEF TablesAgree, ClientAgrees, HeldBack, tables, hold, peerVars
<1>2. ChannelsAgree'
  BY <1>0 DEF ChannelsAgree, ChannelAgrees, tables, hold
<1>3. PeersAgree'
  BY <1>0 DEF PeersAgree, PeerAgrees, Pipeline, tables, hold, peerVars
<1> QED
  BY <1>1, <1>2, <1>3 DEF Agreement

(* close() of the router.                                                  *)
LEMMA CloseRouterAgrees ==
    ASSUME Core, Core', Agreement, CloseRouter
    PROVE  Agreement'
<1>1. closed' = TRUE /\ done' = TRUE /\ eof' = TRUE /\ exited' = exited
  BY DEF CloseRouter
<1>2. CASE eof
  <2>1. UNCHANGED <<tables, hold, view, stray, chan, peerVars>>
    BY <1>2 DEF CloseRouter
  <2>2. SessionAgrees'
    BY <1>1, <2>1 DEF Agreement, SessionAgrees, tables
  <2> QED
    BY <2>1, <2>2, SessionOnly
<1>3. CASE ~eof
  <2>1. CloseEndpoints
    BY <1>3 DEF CloseRouter
  <2>2. ~exited
    BY <1>3 DEF Agreement, SessionAgrees
  <2>3. SessionAgrees'
    BY <1>1, <2>2 DEF SessionAgrees
  <2> QED
    BY <2>1, <2>3, CloseEndpointsAgrees
<1> QED
  BY <1>2, <1>3

(* The steps of the client.                                                *)
LEMMA ClientStepAgrees ==
    ASSUME Core, Core', Agreement, ClientStep
    PROVE  Agreement'
<1>1. ASSUME NEW c \in Channels, OpenRefused(c), UNCHANGED peerVars PROVE Agreement'
  BY <1>1, OpenRefusedAgrees
<1>2. ASSUME NEW c \in Channels, NEW cls \in Classes, OpenLocal(c, cls), UNCHANGED peerVars
      PROVE  Agreement'
  BY <1>2, OpenLocalAgrees
<1>3. ASSUME NEW c \in Channels, NEW p \in Peers, OpenPeer(c, p), UNCHANGED chan
      PROVE  Agreement'
  BY <1>3, OpenPeerAgrees
<1>4. ASSUME NEW c \in Channels, NEW cmd \in FrameCommands,
             LocalFrame(c, cmd), UNCHANGED peerVars
      PROVE  Agreement'
  BY <1>4, LocalFrameAgrees
<1>5. ASSUME NEW c \in Channels, NEW cmd \in FrameCommands, NEW p \in Peers,
             PeerFrame(c, p, cmd), UNCHANGED chan
      PROVE  Agreement'
  BY <1>5, PeerFrameAgrees
<1>6. ASSUME NEW S \in Groups \cup {Channels}, Kill(S) PROVE Agreement'
  <2>1. S \in SUBSET Channels
    BY RouterAssumption
  <2> QED
    BY <1>6, <2>1, KillAgrees
<1>7. ASSUME NEW p \in Peers, KillHost(p), UNCHANGED chan PROVE Agreement'
  BY <1>7, KillHostAgrees
<1>8. CASE Eof
  <2>1. CloseEndpoints /\ eof' = TRUE /\ UNCHANGED <<closed, done, exited>> /\ Reading
    BY <1>8 DEF Eof
  <2>2. SessionAgrees'
    BY <2>1, ReadingFacts DEF SessionAgrees
  <2> QED
    BY <2>1, <2>2, CloseEndpointsAgrees
<1>9. CASE ProtocolError
  BY <1>9, CloseRouterAgrees DEF ProtocolError
<1> QED
  BY <1>1, <1>2, <1>3, <1>4, <1>5, <1>6, <1>7, <1>8, <1>9 DEF ClientStep

(* The steps of the stdio transport and of communicate().                  *)
LEMMA LinkStepAgrees ==
    ASSUME Core, Core', Agreement, LinkStep
    PROVE  Agreement'
<1>0. SessionAgrees
  BY DEF Agreement
<1>1. CASE LinkLost
  <2>1. CASE closed
    <3>1. UNCHANGED <<tables, hold, session, view, stray, chan, peerVars>>
      BY <1>1, <2>1 DEF LinkLost
    <3>2. SessionAgrees'
      BY <1>0, <3>1 DEF SessionAgrees, session, tables
    <3> QED
      BY <3>1, <3>2, SessionOnly
  <2>2. CASE ~closed
    BY <1>1, <2>2, CloseRouterAgrees DEF LinkLost
  <2> QED
    BY <2>1, <2>2
<1>2. CASE Exit /\ UNCHANGED <<chan, peerVars>>
  <2>1. /\ done /\ noEndpoints /\ exited' = TRUE
        /\ UNCHANGED <<tables, hold, eof, closed, done, view, stray, chan, peerVars>>
    BY <1>2 DEF Exit
  <2>2. live = {}
    BY <2>1 DEF Core, EventAgrees
  <2>3. SessionAgrees'
    BY <1>0, <2>1, <2>2 DEF SessionAgrees, tables
  <2> QED
    BY <2>1, <2>3, SessionOnly
<1>3. CASE LinkAbort /\ UNCHANGED <<chan, peerVars>>
  <2>1. UNCHANGED <<tables, hold, session, view, stray, chan, peerVars>>
    BY <1>3 DEF LinkAbort
  <2>2. SessionAgrees'
    BY <1>0, <2>1 DEF SessionAgrees, session, tables
  <2> QED
    BY <2>1, <2>2, SessionOnly
<1> QED
  BY <1>1, <1>2, <1>3 DEF LinkStep

-----------------------------------------------------------------------------
(* The invariant.                                                          *)
Invariant == Core /\ Agreement

(* The initial state.                                                      *)
LEMMA InvariantInit == Init => Invariant
<1> SUFFICES ASSUME Init PROVE Agreement
  BY CoreInit DEF Invariant
<1>0. NoEndpoint \notin Endpoint
  BY RouterAssumption DEF Endpoint
<1>1. TablesAgree /\ ClientAgrees /\ SessionAgrees
  BY <1>0 DEF Init, RouterInit, TablesAgree, ClientAgrees, SessionAgrees
<1>2. HeldBack
  BY DEF Init, RouterInit, PeerInit, HeldBack
<1>3. ChannelsAgree
  BY DEF Init, RouterInit, ChannelInit, ChannelsAgree, ChannelAgrees
<1>4. PeersAgree
  <2> SUFFICES ASSUME NEW p \in Peers PROVE PeerAgrees(p)
    BY DEF PeersAgree
  <2>1. /\ toPeer[p] = <<>> /\ queue[p] = <<>> /\ fromPeer[p] = <<>>
        /\ remote[p] = NoneServed /\ endpoints[p] = {}
    BY DEF Init, RouterInit, PeerInit, Endpoint
  <2>2. <<>> \o <<>> = <<>>
    OBVIOUS
  <2> QED
    BY <2>1, <2>2, NothingSaid DEF PeerAgrees, Pipeline
<1> QED
  BY <1>1, <1>2, <1>3, <1>4 DEF Agreement

(* Every step of the bridge.                                               *)
LEMMA InvariantStep == Invariant /\ [Next]_vars => Invariant'
<1> SUFFICES ASSUME Core, Agreement, [Next]_vars PROVE Core' /\ Agreement'
  BY DEF Invariant
<1>0. Core'
  BY CoreStep
<1>1. CASE ClientStep
  BY <1>0, <1>1, ClientStepAgrees
<1>2. ASSUME NEW c \in Channels, ChannelStep(c) PROVE Agreement'
  BY <1>0, <1>2, ChannelStepAgrees
<1>3. ASSUME NEW p \in Peers, PeerStep(p) PROVE Agreement'
  BY <1>0, <1>3, PeerStepAgrees
<1>4. CASE LinkStep
  BY <1>0, <1>4, LinkStepAgrees
<1>5. CASE UNCHANGED vars
  <2>1. UNCHANGED <<tables, hold, session, view, stray, chan, peerVars>>
    BY <1>5 DEF vars, routerVars
  <2>2. SessionAgrees'
    BY <2>1 DEF Agreement, SessionAgrees, session, tables
  <2> QED
    BY <1>0, <2>1, <2>2, SessionOnly
<1> QED
  BY <1>0, <1>1, <1>2, <1>3, <1>4, <1>5 DEF Next

(* communicate() returns with nothing left behind.                         *)
LEMMA ExitIsClean == Invariant => ExitedClean
<1> SUFFICES ASSUME Core, Agreement, exited PROVE ExitedClean
  BY DEF Invariant, ExitedClean
<1>1. live = {} /\ closed
  BY DEF Agreement, SessionAgrees
<1>2. ASSUME NEW c \in Channels PROVE openChannels[c] = NoEndpoint /\ chan[c].tasks = 0
  <2>1. openChannels[c] \in Endpoint \cup {NoEndpoint}
    BY DEF Core, TypeOK, RouterTypeOK
  <2>2. openChannels[c] = NoEndpoint
    BY <1>1, <2>1 DEF Agreement, TablesAgree
  <2>3. chan[c].cls = "none" \/ Finished(chan[c])
    BY <1>1 DEF Core, ShutDownOnce
  <2>4. chan[c].tasks = 0
    BY <2>3 DEF Finished, Agreement, ChannelsAgree, ChannelAgrees
  <2> QED
    BY <2>2, <2>4
<1>3. \A p \in Peers : peer[p] = "absent"
  BY <1>1 DEF Agreement, HeldBack
<1> QED
  BY <1>1, <1>2, <1>3 DEF ExitedClean

(* The tables of the router are inverse to each other and agree with what  *)
(* the client was told, execution queues and calls on their way to peers   *)
(* keep their order, answers of peers are about channels the router knows, *)
(* and the bridge exits with nothing left, for any set of channels and     *)
(* peers, in every interleaving of closes, kills, EOF, protocol errors and *)
(* exits of peers.                                                         *)
THEOREM RouterAlwaysAgrees == Spec => []RouterAgrees
<1>1. Invariant => RouterAgrees
  <2> SUFFICES ASSUME Invariant PROVE RouterAgrees
    OBVIOUS
  <2>1. /\ TypeOK /\ TablesAgree /\ ClientAgrees /\ HeldBack /\ SessionAgrees
        /\ (\A c \in Channels : ChannelAgrees(c)) /\ (\A p \in Peers : PeerAgrees(p))
    BY DEF Invariant, Core, Agreement, ChannelsAgree, PeersAgree
  <2>2. OpenFirst /\ RepliesKnown
    BY <2>1 DEF OpenFirst, RepliesKnown, PeerAgrees, BothEnds, SaysInOrder
  <2> QED
    BY <2>1, <2>2, ExitIsClean DEF RouterAgrees
<1> QED
  BY <1>1, InvariantInit, InvariantStep, PTL DEF Spec

-----------------------------------------------------------------------------
(* The lifecycle of ChannelProtocol.  Every step of the bridge is a step   *)
(* of it, or one of a "socket" channel, which may write to the client      *)
(* after its "close", or "ready" after "done" (SocketData, SocketEof).     *)
Step == Lifecycle!Next \/ UNCHANGED <<view, stray>>
SocketStep(c) ==
    /\ chan[c].cls = "socket" /\ chan'[c].cls = "socket"
    /\ \A d \in Channels \ {c} : view'[d] = view[d] /\ (d \in stray' => d \in stray)

(* Closing all channels of some endpoints is a step of the lifecycle.      *)
LEMMA CloseIsStep ==
    ASSUME Invariant, NEW S \in SUBSET Endpoint, CloseView(S, view), UNCHANGED stray
    PROVE  Step
<1>1. ChannelsOf(S) \in SUBSET Channels
  BY DEF ChannelsOf, Invariant, Core, TypeOK, RouterTypeOK
<1>2. ASSUME NEW c \in ChannelsOf(S) PROVE view[c] \notin {"unused", "closed"}
  <2>1. c \in Channels /\ openChannels[c] \in Endpoint
    BY <1>1, <1>2 DEF ChannelsOf, Invariant, Agreement, TablesAgree
  <2>2. openChannels[c] # NoEndpoint
    BY <2>1, RouterAssumption DEF Endpoint
  <2> QED
    BY <2>1, <2>2 DEF Invariant, Agreement, ClientAgrees
<1>3. Lifecycle!CloseTogether(ChannelsOf(S))
  BY <1>2 DEF CloseView, Lifecycle!CloseTogether
<1> QED
  BY <1>1, <1>3 DEF Step, Lifecycle!Next

(* So is the next message of a channel.                                    *)
LEMMA AdvanceIsStep ==
    ASSUME NEW c \in Channels, NEW v,
           \/ view[c] = "unused" /\ v \in {"open", "ready", "closed"}
           \/ view[c] = "open" /\ v \in {"ready", "done", "closed"}
           \/ view[c] = "ready" /\ v \in {"done", "closed"}
           \/ view[c] = "done" /\ v = "closed",
           view' = [view EXCEPT ![c] = v], UNCHANGED stray
    PROVE  Step
<1>1. /\ Lifecycle!Rank("unused") = 0 /\ Lifecycle!Rank("open") = 1
      /\ Lifecycle!Rank("ready") = 2 /\ Lifecycle!Rank("done") = 3
      /\ Lifecycle!Rank("closed") = 4
  BY DEF Lifecycle!Rank
<1>2. Lifecycle!Rank(v) > Lifecycle!Rank(view[c])
  BY <1>1
<1>3. Lifecycle!Advance(c, v) /\ v \in {"open", "ready", "done", "closed"}
  BY <1>2 DEF Lifecycle!Advance
<1> QED
  BY <1>3 DEF Step, Lifecycle!Next

(* close() and _task_done().                                               *)
LEMMA BecomeIsStep ==
    ASSUME Invariant, NEW c \in Channels, NEW r, Become(c, r), UNCHANGED stray
    PROVE  Step
<1>1. Ended(c, r) \in SUBSET Endpoint /\ CloseView(Ended(c, r), view)
  BY DEF Become, ShutdownEndpoints, Ended, Endpoint
<1> QED
  BY <1>1, CloseIsStep

(* Becoming ready: the task that calls ready() is still counted, so that   *)
(* the channel is there, and the client has not heard of it.               *)
LEMMA ReadyIsStep ==
    ASSUME Invariant, NEW c \in Channels, Ready(c), chan[c].cls # "socket"
    PROVE  Step
<1> DEFINE r0 == IF chan[c].cls = "async" THEN chan[c]
                 ELSE [chan[c] EXCEPT !.run = "finished"]
           r == RunCalls(r0, queue[c])
           S == Ended(c, r)
<1>1. ChannelAgrees(c) /\ chan[c] \in ChanState /\ queue[c] \in Seq(Call)
  BY DEF Invariant, Agreement, ChannelsAgree, Core, TypeOK, ChannelTypeOK, RouterTypeOK, Endpoint
<1>2. chan[c].cls \in {"tasks", "async"} /\ c \in frozen /\ chan[c].run = "running"
  BY DEF Ready, MayReady
<1>3. view[c] = "open" /\ chan[c].tasks > 0
  BY <1>1, <1>2 DEF ChannelAgrees, Runs
<1>4. r0 \in ChanState /\ r0.tasks = chan[c].tasks
  BY <1>1 DEF ChanState
<1> HIDE DEF r0
<1>5. r \in ChanState /\ r.tasks >= r0.tasks
  BY <1>1, <1>4, RunCallsFacts, RunCallsKeeps
<1> HIDE DEF r
<1>6. r.tasks # 0
  BY <1>1, <1>3, <1>4, <1>5 DEF ChanState
<1>7. S = {}
  BY <1>6 DEF Ended, Ends, Finished
<1>8. IF S # {} \/ view[c] = "closed"
      THEN CloseView(S, view) /\ stray' = stray \cup {c}
      ELSE view' = [view EXCEPT ![c] = "ready"] /\ UNCHANGED stray
  BY DEF Ready, r, r0
<1> HIDE DEF S
<1> QED
  BY <1>3, <1>7, <1>8, AdvanceIsStep

(* Every step of a channel.                                                *)
LEMMA ChannelStepIsStep ==
    ASSUME Invariant, Invariant', NEW c \in Channels, ChannelStep(c)
    PROVE  Step \/ SocketStep(c)
<1>0. /\ ChannelAgrees(c) /\ view \in [Channels -> View] /\ chan \in [Channels -> ChanState]
      /\ chan[c] \in ChanState
  BY DEF Invariant, Agreement, ChannelsAgree, Core, TypeOK, RouterTypeOK, ChannelTypeOK
<1>1. CASE Ready(c) /\ chan[c].cls # "socket"
  BY <1>1, ReadyIsStep
<1>2. CASE Ready(c) /\ chan[c].cls = "socket"
  <2>1. PICK S \in SUBSET {c} :
           /\ CloseView(S, view) \/ view' = [view EXCEPT ![c] = "ready"]
           /\ stray' \subseteq stray \cup {c}
    BY <1>2 DEF Ready, Ended
  <2>2. ChannelsOf(S) \subseteq {c}
    BY OwnChannel DEF Invariant
  <2>3. \A d \in Channels \ {c} : view'[d] = view[d] /\ (d \in stray' => d \in stray)
    BY <1>0, <2>1, <2>2 DEF CloseView
  <2>4. chan'[c].cls = "socket"
    <3>1. chan[c] \in ChanState /\ queue[c] \in Seq(Call)
      BY DEF Invariant, Core, TypeOK, RouterTypeOK, ChannelTypeOK, Endpoint
    <3> DEFINE r0 == [chan[c] EXCEPT !.run = "finished"]
    <3>2. r0 \in ChanState /\ r0.cls = "socket"
      BY <1>2, <3>1 DEF ChanState
    <3>3. chan' = [chan EXCEPT ![c] = RunCalls(r0, queue[c])]
      BY <1>2 DEF Ready
    <3> HIDE DEF r0
    <3> QED
      BY <1>0, <3>1, <3>2, <3>3, RunCallsFacts
  <2> QED
    BY <1>2, <2>3, <2>4 DEF SocketStep
<1>3. CASE RunEnds(c)
  BY <1>3, BecomeIsStep DEF RunEnds
<1>4. CASE RunDone(c)
  <2>1. view[c] = "ready" /\ Write(c, "done")
    BY <1>4 DEF RunDone
  <2> QED
    BY <2>1, AdvanceIsStep DEF Write
<1>5. CASE TaskDone(c)
  BY <1>5, BecomeIsStep DEF TaskDone
<1>6. CASE RunBegins(c) \/ SocketConnected(c)
  BY <1>6 DEF RunBegins, SocketConnected, Step
<1>7. CASE SocketData(c)
  <2>1. chan[c].cls = "socket" /\ chan' = chan /\ Write(c, view[c])
    BY <1>0, <1>7 DEF SocketData, ChannelAgrees
  <2> QED
    BY <1>0, <2>1 DEF SocketStep, Write
<1>8. CASE SocketEof(c)
  <2>1. chan[c].cls = "socket" /\ chan'[c].cls = "socket" /\ Write(c, "done")
    BY <1>0, <1>8 DEF SocketEof, ChannelAgrees, ChanState
  <2> QED
    BY <1>0, <2>1 DEF SocketStep, Write
<1>9. CASE SocketGarbage(c)
  BY <1>9, BecomeIsStep DEF SocketGarbage
<1>10. CASE SocketLost(c)
  BY <1>10, BecomeIsStep DEF SocketLost
<1> QED
  BY <1>1, <1>2, <1>3, <1>4, <1>5, <1>6, <1>7, <1>8, <1>9, <1>10 DEF ChannelStep

(* The frames of peers.                                                    *)
LEMMA PeerReceivedIsStep ==
    ASSUME Invariant, NEW p \in Peers, PeerReceived(p)
    PROVE  Step
<1> DEFINE m == Head(fromPeer[p])
           c == m.ch
<1>1. /\ m \in Reply /\ m = fromPeer[p][1] /\ 1 \in 1..Len(fromPeer[p])
      /\ view \in [Channels -> View]
  BY DEF PeerReceived, Invariant, Core, TypeOK, PeerTypeOK, RouterTypeOK
<1>2. /\ c \in endpoints[p]
      /\ m.cmd = "ready" => view[c] = "open"
      /\ m.cmd = "done" => view[c] \in {"open", "ready"}
  BY <1>1 DEF Invariant, Agreement, PeersAgree, PeerAgrees, BothEnds, SaysInOrder
<1>3. IF m.cmd = "close"
      THEN DropChannel(c, p) /\ Write(c, "closed")
      ELSE /\ Write(c, IF m.cmd = "data" THEN view[c] ELSE m.cmd)
           /\ UNCHANGED tables
  BY DEF PeerReceived
<1> HIDE DEF m
<1>4. c \in Channels /\ m.cmd \in {"ready", "data", "done", "close"}
  BY <1>1 DEF Reply
<1>5. view[c] \in {"open", "ready", "done"}
  <2>1. openChannels[c] = p /\ p # NoEndpoint
    BY <1>2, <1>4, RouterAssumption DEF Invariant, Agreement, TablesAgree, Endpoint
  <2> QED
    BY <1>4, <2>1 DEF Invariant, Agreement, ClientAgrees
<1> HIDE DEF c
<1>6. CASE m.cmd = "data"
  <2>1. view' = [view EXCEPT ![c] = view[c]] /\ UNCHANGED stray
    BY <1>3, <1>5, <1>6 DEF Write
  <2> QED
    BY <1>1, <2>1 DEF Step
<1>7. CASE m.cmd \in {"ready", "done"}
  <2>1. view' = [view EXCEPT ![c] = m.cmd] /\ UNCHANGED stray
    BY <1>3, <1>5, <1>7 DEF Write
  <2> QED
    BY <1>2, <1>4, <1>7, <2>1, AdvanceIsStep
<1>8. CASE m.cmd = "close"
  <2>1. view' = [view EXCEPT ![c] = "closed"] /\ UNCHANGED stray
    BY <1>3, <1>5, <1>8 DEF Write
  <2> QED
    BY <1>4, <1>5, <2>1, AdvanceIsStep
<1> QED
  BY <1>4, <1>6, <1>7, <1>8

(* Every step of a peer.                                                   *)
LEMMA PeerStepIsStep ==
    ASSUME Invariant, NEW p \in Peers, PeerStep(p)
    PROVE  Step
<1>0. {p} \in SUBSET Endpoint
  BY DEF Endpoint
<1>1. CASE PeerGone(p)
  BY <1>0, <1>1, CloseIsStep DEF PeerGone, ShutdownEndpoints
<1>2. CASE PeerInitReceived(p) \/ RemoteRead(p) \/ \E c \in Channels : RemoteSay(p, c)
  BY <1>2 DEF PeerInitReceived, RemoteRead, RemoteSay, routerVars, Step
<1>3. CASE PeerUp(p)
  <2>1. CASE UNCHANGED <<view, stray>>
    BY <2>1 DEF Step
  <2>2. CASE ShutdownEndpoints({p}) /\ UNCHANGED stray
    BY <1>0, <2>2, CloseIsStep DEF ShutdownEndpoints
  <2> QED
    BY <1>3, <2>1, <2>2 DEF PeerUp
<1>4. CASE PeerReceived(p)
  BY <1>4, PeerReceivedIsStep
<1> QED
  BY <1>1, <1>2, <1>3, <1>4 DEF PeerStep

(* do_close() of every endpoint.                                           *)
LEMMA CloseEndpointsIsStep ==
    ASSUME Invariant, CloseEndpoints
    PROVE  Step
<1>1. PICK S \in SUBSET Endpoint : CloseView(S, view) /\ UNCHANGED stray
  BY DEF CloseEndpoints, Endpoint
<1> QED
  BY <1>1, CloseIsStep

(* The steps of the client.                                                *)
LEMMA ClientStepIsStep ==
    ASSUME Invariant, ClientStep
    PROVE  Step
<1>1. ASSUME NEW c \in Channels, OpenRefused(c) PROVE Step
  BY <1>1, AdvanceIsStep DEF OpenRefused
<1>2. ASSUME NEW c \in Channels, NEW cls \in Classes, OpenLocal(c, cls) PROVE Step
  BY <1>2, AdvanceIsStep DEF OpenLocal
<1>3. ASSUME NEW c \in Channels, NEW p \in Peers, OpenPeer(c, p) PROVE Step
  BY <1>3, AdvanceIsStep DEF OpenPeer
<1>4. ASSUME NEW c \in Channels, NEW cmd \in FrameCommands, LocalFrame(c, cmd) PROVE Step
  <2>1. CASE UNCHANGED <<view, stray>>
    BY <2>1 DEF Step
  <2>2. CASE Become(c, RunCalls(chan[c], <<call(c, cmd)>>)) /\ UNCHANGED stray
    BY <2>2, BecomeIsStep
  <2> QED
    BY <1>4, <2>1, <2>2 DEF LocalFrame
<1>5. ASSUME NEW c \in Channels, NEW cmd \in FrameCommands, NEW p \in Peers,
             PeerFrame(c, p, cmd)
      PROVE  Step
  BY <1>5 DEF PeerFrame, Step
<1>6. ASSUME NEW G, Kill(G) PROVE Step
  <2>1. PICK S \in SUBSET Endpoint : CloseView(S, view) /\ UNCHANGED stray
    BY <1>6 DEF Kill, Endpoint
  <2> QED
    BY <2>1, CloseIsStep
<1>7. ASSUME NEW p \in Peers, KillHost(p) PROVE Step
  <2>1. CASE UNCHANGED <<view, stray>>
    BY <2>1 DEF Step
  <2>2. CASE ShutdownEndpoints({p}) /\ UNCHANGED stray
    BY <2>2, CloseIsStep DEF ShutdownEndpoints, Endpoint
  <2> QED
    BY <1>7, <2>1, <2>2 DEF KillHost
<1>8. CASE Eof
  BY <1>8, CloseEndpointsIsStep DEF Eof
<1>9. CASE ProtocolError
  BY <1>9, CloseEndpointsIsStep DEF ProtocolError, CloseRouter, Step
<1> QED
  BY <1>1, <1>2, <1>3, <1>4, <1>5, <1>6, <1>7, <1>8, <1>9 DEF ClientStep

(* Every step of the bridge.                                               *)
LEMMA NextIsStep ==
    ASSUME Invariant, Invariant', [Next]_vars
    PROVE  Step \/ \E c \in Channels : SocketStep(c)
<1>1. CASE ClientStep
  BY <1>1, ClientStepIsStep
<1>2. ASSUME NEW c \in Channels, ChannelStep(c) PROVE Step \/ \E d \in Channels : SocketStep(d)
  BY <1>2, ChannelStepIsStep
<1>3. ASSUME NEW p \in Peers, PeerStep(p) PROVE Step
  BY <1>3, PeerStepIsStep
<1>4. CASE LinkStep
  <2>1. CASE LinkLost
    BY <2>1, CloseEndpointsIsStep DEF LinkLost, CloseRouter, Step
  <2>2. CASE Exit \/ LinkAbort
    BY <2>2 DEF Exit, LinkAbort, Step
  <2> QED
    BY <1>4, <2>1, <2>2 DEF LinkStep
<1>5. CASE UNCHANGED vars
  BY <1>5 DEF vars, routerVars, Step
<1> QED
  BY <1>1, <1>2, <1>3, <1>4, <1>5 DEF Next

(* A bridge whose channels have no transport of their own implements the   *)
(* lifecycle: the messages of every channel come in the order of the       *)
(* protocol, each at most once and none after its "close", whatever the    *)
(* client, peers and the transport to the client do.                       *)
THEOREM LifecycleRefined ==
    ASSUME "socket" \notin Classes
    PROVE  Spec => LifecycleSpec
<1>1. Init => Lifecycle!Init
  BY DEF Init, RouterInit, Lifecycle!Init
<1>2. Invariant /\ Invariant' /\ [Next]_vars => [Lifecycle!Next]_<<view, stray>>
  <2> SUFFICES ASSUME Invariant, Invariant', [Next]_vars PROVE Step
    BY DEF Step
  <2>1. \A c \in Channels : ~SocketStep(c)
    BY DEF SocketStep, Invariant, Agreement, ChannelsAgree, ChannelAgrees
  <2> QED
    BY <2>1, NextIsStep
<1> QED
  BY <1>1, <1>2, InvariantInit, InvariantStep, PTL DEF Spec, LifecycleSpec, Lifecycle!Spec

(* What the client is told of a channel never goes back, and nothing is    *)
(* written after its "close", unless a "socket" channel serves it.         *)
InOrder(c) ==
    chan'[c].cls # "socket" => /\ Lifecycle!Rank(view'[c]) >= Lifecycle!Rank(view[c])
                               /\ c \in stray' => c \in stray

(* With "socket" channels in the bridge, all others still keep the order   *)
(* of the protocol: none is disturbed by what sockets do.                  *)
THEOREM OthersInOrder == Spec => [][\A c \in Channels : InOrder(c)]_vars
<1>1. Invariant /\ Invariant' /\ [Next]_vars => [\A c \in Channels : InOrder(c)]_vars
  <2> SUFFICES ASSUME Invariant, Invariant', [Next]_vars, NEW c \in Channels PROVE InOrder(c)
    OBVIOUS
  <2>0. view \in [Channels -> View] /\ view[c] \in View
    BY DEF Invariant, Core, TypeOK, RouterTypeOK
  <2>1. /\ Lifecycle!Rank("unused") = 0 /\ Lifecycle!Rank("open") = 1
        /\ Lifecycle!Rank("ready") = 2 /\ Lifecycle!Rank("done") = 3
        /\ Lifecycle!Rank("closed") = 4
    BY DEF Lifecycle!Rank
  <2>2. \A v \in View : Lifecycle!Rank(v) \in Nat /\ Lifecycle!Rank(v) =< 4
    BY <2>1 DEF View
  <2>3. CASE UNCHANGED <<view, stray>>
    BY <2>0, <2>2, <2>3 DEF InOrder
  <2>4. CASE Lifecycle!Next
    <3>1. ASSUME NEW d \in Channels, NEW v \in {"open", "ready", "done", "closed"},
                 Lifecycle!Advance(d, v)
          PROVE  InOrder(c)
      <4>1. /\ Lifecycle!Rank(v) > Lifecycle!Rank(view[d]) /\ view' = [view EXCEPT ![d] = v]
            /\ stray' = stray /\ v \in View /\ view[d] \in View
        BY <2>0, <3>1 DEF Lifecycle!Advance, View
      <4>2. CASE c = d
        <5>1. view'[c] = v /\ view[c] = view[d]
          BY <2>0, <4>1, <4>2
        <5>2. Lifecycle!Rank(view'[c]) = Lifecycle!Rank(v)
          BY <5>1
        <5>3. Lifecycle!Rank(view[c]) = Lifecycle!Rank(view[d])
          BY <5>1
        <5>4. Lifecycle!Rank(v) \in Nat /\ Lifecycle!Rank(view[d]) \in Nat
          BY <2>2, <4>1
        <5>5. Lifecycle!Rank(view'[c]) >= Lifecycle!Rank(view[c])
          BY <4>1, <5>2, <5>3, <5>4
        <5> QED
          BY <4>1, <5>5 DEF InOrder
      <4>3. CASE c # d
        <5>1. view'[c] = view[c]
          BY <2>0, <4>1, <4>3
        <5>2. Lifecycle!Rank(view'[c]) = Lifecycle!Rank(view[c])
          BY <5>1
        <5>3. Lifecycle!Rank(view[c]) \in Nat
          BY <2>0, <2>2
        <5>4. Lifecycle!Rank(view'[c]) >= Lifecycle!Rank(view[c])
          BY <5>2, <5>3
        <5> QED
          BY <4>1, <5>4 DEF InOrder
      <4> QED
        BY <4>2, <4>3
    <3>2. ASSUME NEW S \in SUBSET Channels, Lifecycle!CloseTogether(S) PROVE InOrder(c)
      <4>1. view'[c] \in {"closed", view[c]} /\ stray' = stray
        BY <3>2 DEF Lifecycle!CloseTogether
      <4> QED
        BY <2>0, <2>1, <2>2, <4>1 DEF InOrder
    <3> QED
      BY <2>4, <3>1, <3>2 DEF Lifecycle!Next
  <2>5. ASSUME NEW d \in Channels, SocketStep(d) PROVE InOrder(c)
    <3>1. CASE c = d
      BY <2>5, <3>1 DEF SocketStep, InOrder
    <3>2. CASE c # d
      BY <2>0, <2>2, <2>5, <3>2 DEF SocketStep, InOrder
    <3> QED
      BY <3>1, <3>2
  <2> QED
    BY <2>3, <2>4, <2>5, NextIsStep DEF Step
<1> QED
  BY <1>1, InvariantInit, InvariantStep, PTL DEF Spec
==============================================================================
