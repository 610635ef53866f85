------------------------------ MODULE MCPython ------------------------------
(***************************************************************************)
(* Instances for TLC of what hangs off the router of the bridge written in *)
(* Python: the streams of spawned processes, the superuser rule, the       *)
(* replacing of files and D-Bus channels.  The modules share no state, so  *)
(* that every behaviour is one of one module: `scenario' says of which,    *)
(* and of which instance.  Streams, the superuser rule over D-Bus and      *)
(* channels that are cancelled have their own variables, which the other   *)
(* scenarios leave as they are initially; those have theirs in v1.         *)
(***************************************************************************)
EXTENDS Superuser, FsReplace

CONSTANTS
    Scenarios,                                    \* the scenarios of a run
    Frames, PipeSize, IOV_MAX, TotalIn, TotalOut  \* of the streams

VARIABLES scenario, v1, st, proc, pipe, hasInput, consumed, avail, hasOutput, produced,
          clientDone, clientClosed

Is(x) == scenario = x

Unused == "unused"  \* in v1 when it is not needed

(* The streams.                                                            *)
Spawn == INSTANCE SpawnStream

-----------------------------------------------------------------------------
(* The superuser rule, driven over D-Bus (s), and by "init" at start-up.   *)
AtInit == INSTANCE Superuser WITH s <- v1, MaxGo <- 2, MaxAsks <- 0, MaxAnswers <- 0,
    MaxStops <- 1, AtStartup <- TRUE, Polkit <- FALSE

(* Two channels that replace a file and may be cancelled (f), and two      *)
(* beside another process that replaces the file.                          *)
Contended == INSTANCE FsReplace WITH f <- v1, Chans <- {"c1", "c2"}, Chunks <- 2, Others <- 1,
    Cancels <- FALSE, Shorts <- FALSE

(* The owner of a D-Bus name, and the watches of its objects: with objects *)
(* that go away, and without.                                              *)
Leaving == INSTANCE DBusChannel WITH d <- v1, w <- v1, MaxChanges <- 4,
    Ifaces <- {"i1", "i2"}, MaxEvents <- 2, MaxCalls <- 1, Removes <- TRUE, Fails <- TRUE
Staying == INSTANCE DBusChannel WITH d <- v1, w <- v1, MaxChanges <- 2,
    Ifaces <- {"i1", "i2"}, MaxEvents <- 2, MaxCalls <- 1, Removes <- FALSE, Fails <- TRUE
Locking == INSTANCE DBusChannel WITH d <- v1, w <- v1, MaxChanges <- 2,
    Ifaces <- {"i1"}, MaxEvents <- 2, MaxCalls <- 1, Removes <- FALSE, Fails <- TRUE

ASSUME InstanceAssumption ==
    /\ Spawn!StreamAssumption
    /\ SuperuserAssumption /\ AtInit!SuperuserAssumption
    /\ ReplaceAssumption /\ Contended!ReplaceAssumption
    /\ Leaving!OwnerAssumption /\ Leaving!WatchAssumption /\ Staying!WatchAssumption
    /\ Locking!WatchAssumption

-----------------------------------------------------------------------------
stream == <<st, proc, pipe, hasInput, consumed, avail, hasOutput, produced, clientDone, clientClosed>>
own == <<s, f, stream>>
slots == <<scenario, v1, own>>

(* In "reader" the process reads its input in the end, in "spawn" it need  *)
(* not.                                                                    *)
Streams == Is("spawn") \/ Is("reader")

Begins ==
    /\ scenario \in Scenarios
    /\ Init /\ ReplaceInit /\ Spawn!Init
    /\ \/ (Streams \/ Is("dbus") \/ Is("cancelled")) /\ v1 = Unused
       \/ Is("at_init") /\ AtInit!Init
       \/ Is("contended") /\ Contended!ReplaceInit
       \/ Is("owner") /\ Leaving!Init
       \/ Is("leaving") /\ Leaving!WatchInit
       \/ Is("staying") /\ Staying!WatchInit
       \/ Is("locking") /\ Locking!WatchInit

Step ==
    \/ Streams /\ Spawn!Next /\ UNCHANGED <<scenario, v1, s, f>>
    \/ Is("dbus") /\ Next /\ UNCHANGED <<scenario, v1, f, stream>>
    \/ Is("cancelled") /\ ReplaceNext /\ UNCHANGED <<scenario, v1, s, stream>>
    \/ Is("at_init") /\ AtInit!Next /\ UNCHANGED <<scenario, own>>
    \/ Is("contended") /\ Contended!ReplaceNext /\ UNCHANGED <<scenario, own>>
    \/ Is("owner") /\ Leaving!Next /\ UNCHANGED <<scenario, own>>
    \/ Is("leaving") /\ Leaving!WatchNext /\ UNCHANGED <<scenario, own>>
    \/ Is("staying") /\ Staying!WatchNext /\ UNCHANGED <<scenario, own>>
    \/ Is("locking") /\ Locking!WatchNext /\ UNCHANGED <<scenario, own>>

Python == Begins /\ [][Step]_slots

-----------------------------------------------------------------------------
(* transports.py with channels/stream.py: input is neither lost nor cut    *)
(* off, a channel that closes with its process has sent all of its output, *)
(* connection_lost() is called once, nothing is read after EOF or close(), *)
(* and pongs are honest, however process, client and event loop interleave.*)
(* superuser.py at start-up: SuperuserSafe, with the client of "init" told *)
(* at most once.  filesystem.py beside other processes: ReplaceSafe, so    *)
(* that the file is always whole.                                          *)
ChannelsSafe ==
    /\ Is("spawn") => /\ Spawn!TypeOK /\ Spawn!InputKept /\ Spawn!OutputKept
                      /\ Spawn!OutputComplete /\ Spawn!LostOnce /\ Spawn!ReaderStops /\ Spawn!PongsHonest
    /\ Is("at_init") => AtInit!SuperuserSafe
    /\ Is("contended") => Contended!ReplaceSafe

(* dbus.py: the client knows the owner once everything is read, although   *)
(* signals and answers cross on the bus, and is not told of it twice; a    *)
(* watching client converges to what the service has, gets replies after   *)
(* the changes they may refer to, and meta data first.                     *)
DBusChannelSafe ==
    /\ Is("owner") => Leaving!OwnerCurrent /\ Leaving!NoRepeatedOwner
    /\ Is("leaving") => Leaving!Converges /\ Leaving!ReplyAfterNotify
    /\ Is("staying") => Staying!MetaFirst

-----------------------------------------------------------------------------
(* The event loop calls what is ready and the thread pool goes on; clients *)
(* answer pings, the bus and services answer calls, a process that has     *)
(* exited is seen to have; the job of a thread may be slow but ends.       *)
Fair ==
    /\ WF_stream(Is("reader") /\ Spawn!ReadReady) /\ WF_stream(Is("reader") /\ Spawn!WriteReady)
    /\ WF_stream(Is("reader") /\ Spawn!Exited) /\ WF_stream(Is("reader") /\ Spawn!ConnectionLost)
    /\ WF_stream(Is("reader") /\ Spawn!ClientPong) /\ WF_stream(Is("reader") /\ Spawn!ProcRead)
    /\ WF_v1(Is("at_init") /\ AtInit!Poll) /\ WF_v1(Is("at_init") /\ AtInit!Run)
    /\ \A i \in {1, 2} : SF_v1(Is("at_init") /\ v1.proc[i] = "exited" /\ AtInit!StderrEnds(i))
    /\ \A c \in Chans :
         /\ WF_f(Is("cancelled") /\ JobStarts(c))
         /\ WF_f(Is("cancelled") /\ JobWrites(c))
         /\ WF_f(Is("cancelled") /\ JobSyncs(c))
         /\ WF_f(Is("cancelled") /\ Written(c))
         /\ WF_f(Is("cancelled") /\ (Rename(c) \/ Unlink(c) \/ Tell(c)))
         /\ SF_f(Is("cancelled") /\ Synced(c))
    /\ WF_v1(Is("owner") /\ Leaving!Receive) /\ WF_v1(Is("owner") /\ Leaving!Resume)
    /\ WF_v1(Is("owner") /\ Leaving!BusTellsOwner)
    /\ WF_v1(Is("owner") /\ (Leaving!BusStarts \/ Leaving!BusCannotStart))
    /\ WF_v1(Is("locking") /\ Locking!Holds) /\ WF_v1(Is("locking") /\ Locking!Dispatch)
    /\ WF_v1(Is("locking") /\ Locking!ServiceAnswers)

FairPython == Python /\ Fair

(* What this bridge begins comes to an end: a stream whose process reads   *)
(* its input closes after its process or its client (not after a process   *)
(* whose text ends in the middle of a character), answers the pings it put *)
(* off, and shuts down the input after "done"; go() ends when its peer is  *)
(* closed, and the client is told how it went; a file that was sent is     *)
(* replaced or the channel fails; opening a D-Bus channel ends, and the    *)
(* lock of its watches is free again.  (A scenario never changes, so that  *)
(* what is begun in one must be over in the same one.)                     *)
Begun(i) ==
    \/ i = 1 /\ Is("reader") /\ (Spawn!ProcessOver \/ Spawn!ClientClosed)
    \/ i = 2 /\ Is("reader") /\ Spawn!PingOwed
    \/ i = 3 /\ Is("reader") /\ Spawn!DoneSent
    \/ i \in 1..2 /\ Is("at_init") /\ AtInit!PeerClosed(i)
    \/ i = 3 /\ Is("at_init") /\ AtInit!GoEnded(1)
    \/ i \in 1..2 /\ Is("cancelled") /\ Ending(<<"c1", "c2">>[i])
    \/ i = 1 /\ Is("owner") /\ Leaving!Asking
    \/ i = 1 /\ Is("locking")
Finished(i) ==
    \/ i = 1 /\ Is("reader") /\ (Spawn!ChannelClosed \/ Spawn!CutOff)
    \/ i = 2 /\ Is("reader") /\ ~Spawn!PingOwed
    \/ i = 3 /\ Is("reader") /\ Spawn!InputShut
    \/ i \in 1..2 /\ Is("at_init") /\ AtInit!GoEnded(i)
    \/ i = 3 /\ Is("at_init") /\ AtInit!InitTold
    \/ i \in 1..2 /\ Is("cancelled") /\ Over(<<"c1", "c2">>[i])
    \/ i = 1 /\ Is("owner") /\ Leaving!Opened
    \/ i = 1 /\ Is("locking") /\ Locking!LockFree
PythonEnds == \A i \in 1..3 : Begun(i) ~> Finished(i)
=============================================================================
