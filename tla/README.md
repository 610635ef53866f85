# A TLA+ model of Cockpit

Cockpit is a web console for Linux servers.  A browser speaks HTTP and WebSocket
to `cockpit-tls` (TLS) and `cockpit-ws` (login, sessions, web service), which
speaks over a pipe to one bridge per session.  The bridge does the work: it spawns
processes, talks to D-Bus, reads and replaces files, opens sockets, and starts
further bridges with other privileges or, through `cockpit-ssh`, on other hosts.
Everything travels in *channels* multiplexed over one pipe.  There are two bridges
in the repository that implement the same protocol: one in C (`src/bridge`,
`src/common`) and one in Python (`src/cockpit`).

This directory models the control of both bridges, of the web server and service,
of the TLS proxy, and of the programs a login passes through.  Paths below are
relative to the repository.  Contents: 1 inventory, 2 how the modules are built,
3 the modules, 4 runs, bounds and fairness, 5 theorems, 6 disagreements between
code and documentation, 7 what is not modelled, 8 plan.

## 1. Inventory

### How the parts interact

    browser --TLS/TCP-- cockpit-tls --unix socket-- cockpit-ws --pipe-- cockpit-session -- bridge
                        (threads)                   (GLib loop)          (PAM)              |
                                                     login: cockpitauth.c               peers: sudo,
                                                     per session: cockpitwebservice.c   cockpit-ssh, ...

* `cockpit-tls` has a thread per connection, which copies bytes between two ring
  buffers, and asks systemd, through a factory process, for an instance of
  `cockpit-ws` per client certificate.
* `cockpit-ws` is one GLib main loop: every action is one dispatched source or
  signal handler, with all the handlers it calls synchronously.
* `cockpit-session` is sequential; what is hard about it is the order in which PAM,
  the user and signals get their turn.
* The C bridge is one GLib main loop (with a thread for listing directories), the
  Python bridge one asyncio loop (with a thread pool for files).  A frame is
  dispatched synchronously to a channel or a peer, which may answer, start
  something, or be frozen, in which case what comes for it is kept.

### Components, their state and what is hard about them

| Component | State | Hard behaviour | What makes it correct |
|---|---|---|---|
| Router, Python (`router.py`) | `open_channels`, `endpoints`, `no_endpoints`, execution queues | two tables and an event kept in step by five code paths; EOF | tables, event and client agree; exits after EOF, with nothing left |
| Channels, Python (`channel.py`) | `_close_args`, tasks, sequence numbers | tasks and callbacks in any order; close while tasks run | one `ready`, `done`, `close`, in this order; shut down once |
| Flow control (`channel.py`, `cockpitflow.c`, `cockpitchannel.c`) | sequence numbers, window | pings only at block boundaries; edges of a pressure signal | bounded backlog, no writer asleep for ever |
| Spawned streams (`transports.py`, `stream.py`) | fds, write queue, exit status | partial writes; exit, EOF and close in any order | no byte lost or cut off; ends once |
| Superuser (`superuser.py`, `polkit.py`; `cockpitrouter.c`) | peer, prompt, `Current` | stop while starting; prompts that outlive their start | one peer; `Current` is honest; calls return |
| D-Bus, Python (`dbus.py`) | owner, matches, watches, a lock | signals cross answers | the client converges to the service; order |
| Files (`filesystem.py`; `cockpitfs*.c`) | temporary file, tag, fd, inotify | two writers; threads and cancellation; batches beside events | no lost update, whole file, nothing left behind |
| Router and peers, C | rules, fences, frozen channels, peers | peers that fail, die, time out while channels wait; re-entrant thaw | nothing lost or out of order; fences hold |
| Transports, pipes, streams, C | queues, watches, frozen messages | the three ends of a process; re-entrant freezing; partial writes | close once, bytes conserved, in order |
| HTTP, WebSocket clients, packets, C | connection kept, handshake, queue | connection used again; close in every phase | own and complete response; nothing dropped |
| D-Bus, C (`cockpitdbusjson.c`, `cockpitdbuscache.c`, `cockpitdbusrules.c`) | calls, published objects, batches and barriers, rules | re-entrant barriers; introspection under way while things change | order of the bus; a watch is answered with all there is; calls answered once |
| Metrics and packages, C | last sample and layout; listing and checksums | instances come and go; reloads | samples decodable and right; a checksum stands for its files |
| WebSocket library | frame queue, ready state, close flags | urgent frames beside half-written ones; both ends close | frames whole, close is last and once |
| Web server, responses | buffer, request, queue, back pressure | limits, keep-alive, time-outs, failing writes | one answer for each request; reuse only after a whole response |
| Web service, credentials | sockets, channels, callers | browser and bridge close at once; logout | tables agree; bridge is told of every close |
| Login (`cockpitauth.c`) | sessions, conversations, timers, start-ups | answers reset sessions that are in use; timers race | references exact; every login answered |
| `cockpit-tls` | ring buffers, threads, certificate files, jobs | wrapped indices; half-closed sockets; jobs that end early | bytes whole and in order; everybody served; stops when idle |
| `cockpit-session`, login records | PAM handle, verdict, child | PAM's prompts in any order; failures at every call | bridge only in an open session; one verdict; told the truth |
| `cockpit-ssh` | known hosts, methods, queue, exit code | every question may stay unanswered; ends in any order | no secret to an unverified host; relay in order |
| `pam_ssh_add` | agent, pipes, password | prompts cut by reads; failures | one answer per prompt; no password or agent left |

`PROJECT.json` lists every component with its files, also those that are not
modelled, and the hazards line by line with the properties that cover them.

## 2. How the modules are built

A module models one component: its state as variables (usually one record with the
fields of the object, and a second one for the other side), `Init`, one action per
callback, and the properties.  A handler that calls others is one action: the
functions it calls are operators on the record, applied in the order of the code.
Definitions keep the names of the functions they stand for.  Clients, servers,
processes, PAM, the bus and the kernel are *outside*: they do anything that their
interface allows, within named bounds (`Max...`), and switches (`Faults`,
`Closes`, `Pipelines`, ...) say which of it an instance includes.

The Python bridge is a composition in earnest: `Bridge` extends `Channel` and
`Peer`, which extend `Router` and share its variables.

The other components meet only in messages.  Each is checked against the most
general other side, so that their compositions add no behaviour of a component;
and to check many of them in one run their instances are put side by side in a
*suite*:

* `MCServices`: `cockpit-ws`, `cockpit-tls`, `cockpit-session`, `cockpit-ssh`,
  `pam_ssh_add`;
* `MCCBridge`: the C bridge and the C library;
* `MCPython`: what hangs off the router of the Python bridge.

In a suite the variable `scenario` says which instance a behaviour belongs to; it
is chosen in the initial state from the constant `Scenarios` and never changes.
The slots `v1`, `v2`, ... hold the variables of that instance (`INSTANCE ... WITH`),
and `Unused` fills the others.  The components with a theorem about a property of
the run (`HostChecksum`, `SshLogin` and `Session` in `MCServices`, `Superuser` and
`FsReplace` in `MCPython`) are extended instead, with constants in the `.cfg`, so that
TLC checks the very definition that is proved; the other scenarios leave their
variables as they are initially, and further instances of such a component (`Unknown`,
`Torn`, `Fixed`) use the slots.  The reachable states of a suite are the disjoint
union of those of its scenarios.  A property of a suite is a conjunction of
`Is("x") => X!P`, and its comment says what the parts are; a part is a named
property of the component's module, with a comment of its own.  A liveness
property of a suite is a family of `Begun(i) ~> Over(i)`: since `scenario` is
constant, what was begun in one scenario must be over in the same one.  Some
scenarios check fewer parts than there are properties in the module, because the
part does not hold, or has no meaning, for that choice of the outside (section 6).
Where the code itself breaks a promise in a case that no choice of the outside
separates, the model has the behaviour and remembers it in a history field
(`Abandoned`, `crossed`, `Robbed`, `lost`, `left`, `cut`, ...); the property excepts the
states that field marks, and nothing else, and section 6 says what happens in them.

**Mutants.**  For each property of a passing run a module contains a variant of a
definition with a plausible mistake ("A mutant of ..."), under which TLC finds the
property violated; `PROJECT.json` says which.  They belong to no specification.

## 3. The modules

### Python bridge

| Module | Models | State and actions |
|---|---|---|
| `Router` | `router.py` | tables, event, execution queues, `shutdown_endpoint`, `communicate` |
| `Channel` | `channel.py` | a record per channel object, of class `plain`, `tasks`, `async` or `socket`; `RunCalls` is what a frame, or a whole queue on thaw, does; the run task of an `async` channel is `new` until its first step, and `dropped` if it is cancelled before |
| `Peer` | `peer.py`, kill of `remote.py` | start-up, `init` exchange, both pipes, the process at the other end |
| `Bridge` | composition | kill, EOF, protocol errors, loss of the transport; fairness; properties |
| `ChannelProtocol` | abstract | what `doc/protocol.md` promises a client about a channel |
| `FlowControl` | `channel.py` | `send_bytes`, `do_pong`, `do_resume_send`, `AsyncChannel.write`, a client |
| `SpawnStream` | `transports.py`, `stream.py` | transport, channel, process, client; bytes are counted, and text may fail to decode, or end inside a character |
| `Superuser` | `superuser.py`, `polkit.py`, `protocol.py` | `go`, `stop`, `answer`, prompts, authorize requests; the turns of asyncio |
| `FsReplace` | `filesystem.py` | jobs of threads, tag, rename, cancellation, descriptors that are used again |
| `DBusChannel` | `dbus.py` | owner of a name, with the reply read in one step and its coroutine resumed in another; watches, introspection, the lock |

In `Router`, `live` is the set of keys of `endpoints`: an endpoint without channels
is still a key.  `view` and `stray` record what the client was told and are read by
no guard that models code, except that a channel id is used once and the order in
which `run()` says `done`.  In `Peer`, `starting`, `init` and `up` are the phases
of `start()`: between `init_future` and its resumption other frames are handled.

In `FlowControl` a ping with sequence `s` sits between bytes `s` and `s+1`, so a
set of numbers is a faithful FIFO.

`Superuser` assumes what asyncio and systemd_ctypes do: between two turns the
selector first calls the D-Bus methods that came in and then returns readable
descriptors, whose callbacks run in the next turn together with tasks that can go
on.  `DBusChannel` assumes that a coroutine waiting for the bus is resumed once for
each message.  `FsReplace` has no `size` option.

### C bridge and library

| Module | Models |
|---|---|
| `BridgeRouter` | `cockpitrouter.c`, `cockpitpeer.c`: rules, fences, kill, peers that start, fail, die, time out |
| `BridgeSuperuser` | the privileged peer in the same files: start at `init` or by D-Bus, prompts, stop |
| `Transport` | `cockpittransport.c`, `cockpitpipetransport.c`: dispatch, freezing and thawing, closing; `cockpitframe.c`: two readers of frames |
| `Pipe` | `cockpitpipe.c`: queue, three descriptors, child, pressure |
| `Stream` | `cockpitstream.c`: the same for sockets that connect |
| `PipeChannel` | `cockpitchannel.c` with `cockpitpipechannel.c`: from `open` to `close`, characters, batches, flow control |
| `PacketChannel` | `cockpitpacketchannel.c` |
| `HttpStream`, `WebSocketStream`, `Connect` | `cockpithttpstream.c`, `cockpitwebsocketstream.c`, `cockpitconnect.c` |
| `FsFile`, `FsDir` | `cockpitfsread.c`, `cockpitfsreplace.c`; `cockpitfslist.c`, `cockpitfswatch.c` |
| `Metrics` | `cockpitmetrics.c`, `cockpitinternalmetrics.c`: layouts, interpolation, derivation, compression, and a client that decodes |
| `Packages`, `Resource` | `cockpitpackages.c`; choosing files, paths and policies in `cockpitwebresponse.c`, as operators checked against reference definitions |
| `DBusJson` | `cockpitdbusjson.c`: connections, owners, calls, published objects; `cockpitdbusrules.c`: the rules for signals |
| `DBusCache` | `cockpitdbuscache.c`, `cockpitpaths.c`: introspection, properties, managers, batches, barriers |
| `DBusVariant` | `parse_json`, `build_json` of `cockpitdbusjson.c`, as operators: round trip and ranges with scaled integers (`MaxByte`, `Max64`) |

### cockpit-ws and the way to a session

| Module | Models |
|---|---|
| `WebSocket` | `src/websocket`: both ends of a connection, each running this code or foreign |
| `WebServer` | `cockpitwebserver.c` with the choice of handlers in `cockpithandlers.c` |
| `WebResponse` | `cockpitwebresponse.c` (queue, framing, pressure, completion) with `cockpitchannelresponse.c`, and `cockpitchannelsocket.c` |
| `WebService` | `cockpitwebservice.c`, `cockpitcreds.c` |
| `HostChecksum` | the two tables of checksums in `cockpitwebservice.c`, with responses in any order |
| `Auth` | `cockpitauth.c`: logins, conversations, sessions, timers, `MaxStartups` |
| `TlsConnection`, `TlsServer` | `src/tls`: one connection's loop; threads, files, factory, idle time-out |
| `Session` | `src/session`: from authorization to cleaning up, and the records of logins |
| `SshLogin`, `SshRelay` | `cockpitsshrelay.c`, `ssh.c`: login with its questions; relay with its ends |
| `PamSshAdd` | `pam-ssh-add.c` |

Several modules hold two machines with variables of their own: a response and an
external socket in `WebResponse`, transport and frame readers in `Transport`,
session and records in `Session`, calls and rules in `DBusJson`, owner and watches
in `DBusChannel`.  They are separate scenarios of the suites.

## 4. Runs

| Run | Specification | Shows |
|---|---|---|
| `bridge_routing` | `Spec` of `Bridge`, 4 classes, symmetric channels | `RouterAgrees` (tables, what the client was told, queues held back, replies to peers, clean exit), `EventAgrees`, `ShutDownOnce` |
| `bridge_exit` | `FairSpec`, without sockets | the bridge implements `ChannelProtocol` (`LifecycleSpec`, a refinement); `BridgeEnds`: closing channels close, and so do cancelled ones whose task had begun; the bridge exits unless a task was cancelled before it began |
| `flow_window` | `FairSpec` of `FlowControl` | `NoStall`, `Backpressure`, `WriterResumes` |
| `web` | `Services` | `WebSocketSafe`, `WebServerSafe`, `ResponseSafe`, `ServiceSafe`, `AuthSafe`, `ServedByOwner`, `SessionStays` |
| `login` | `Services` | `TlsSafe`, `SessionSafe`, `RecordsSafe`, `SshLoginSafe`, `SshSafe` (the relay, unknown hosts, records that fail, `pam_ssh_add`), and steps (`SshSteps`) |
| `services_end` | `FairServices` | `WebEnds`, `LoginEnds`: liveness of both |
| `cbridge` | `CBridge` | `RoutingSafe`, `PipeSafe`, `TransportSafe`, `ChannelSafe`, and steps (`FenceHolds`) |
| `channels` | `CBridge` | `HttpSafe` (with web sockets and connecting), `FsSafe`, `MetricsSafe`, `PackagesSafe`, `CacheSafe`, `DBusSafe` |
| `cbridge_end` | `FairCBridge` | `CBridgeEnds` |
| `python` | `Python` | `ChannelsSafe`, `SuperuserSafe`, `ReplaceSafe`, `DBusChannelSafe` |
| `python_end` | `FairPython` | `PythonEnds` |
| `flow_close_then_pong` | `Spec` of `FlowControl` | violated: section 6 |

Run one with `tlc -config <run>.cfg <module>`; each takes at most a few minutes.
The runs reach from several thousand to more than two million states.

**Bounds** are in the `.cfg` files and, for the suites, in the `INSTANCE`s.  They
are guards on what the outside sends, never on what the code does with it.  The
smallest instance is chosen in which the relation that a property is about can go
wrong:

* two channels, sockets, writers, sessions, connections, fences or watches where a
  property relates one to another, three hosts where an entry can be taken over
  by a third; a peer is started twice and a name changes hands up to four times;
* queues that hold more than one element and limits of two or three, so that
  a limit is passed in the middle of an operation (a chunk of three blocks against
  a pressure of 4, blocks of 2 bytes against a pipe of 2 and a pressure of 3);
* ring buffers of 2 or 4 bytes with indices that wrap at 4 or 8, and more bytes
  than that; records larger than the room left;
* in `FlowControl` blocks of 2 bytes, a window of 3 (no multiple of the block),
  frames of up to 3 and 14 bytes in all; in `SpawnStream` a pipe of 2 bytes, frames
  of 0, 1 and 3, `IOV_MAX = 2`;
* in `Session` three messages of PAM, and times, processes and users enough for two logins
  of one user to cross with a failure between (what is checked of it is proved for every
  number, and so is what is checked of `SshLogin`);
* in `PamSshAdd` blocks of 3 characters, which cut prompts; in `WebServer` requests sent
  ahead, so that one read returns parts of several;
* in `Bridge` queues of 2 (an `open` with a frame behind it, a `close` with one
  before it; 1 in `bridge_exit`, where the size matters for liveness only) and 2 tasks
  (one that outlives `get_ready()`).

**Symmetry** is used in `bridge_routing` only, for channels, where invariants are checked.

**Deadlock** is not checked: programs that exit, channels that close and clients
that have sent all they may do stop.  That nothing stops too early is what the
`..._end` runs are for.

**Fairness.**  A main loop, an event loop or a thread runs what is due: sources
that are ready, callbacks of what has completed, time-outs.  A fair action is
always weaker than "the outside cooperates": nobody has to send, open, close or log
in.  What is assumed of the outside is said at `Fair` in each suite: that the bus
and systemd answer, that a started peer sends `init` or ends, that a fence is
closed, that a web client answers pings (the client library does, unconditionally),
that the client of a Python bridge reads what is still queued for it or goes away (a
closed transport first empties its queue, `transports.py:260`),
that the other end of a closing connection reads (the code has a time-out where it
need not), and in scenario `reader` that a process reads its input.  In two places
strong fairness is stated: an output that is due again and again gets through
although the socket is full at times, and the completion of a thread's job is
noticed although other callbacks come first.  In `MCCBridge` weak fairness of three
large actions is written as `[]<>~Due \/ []<><<Serve>>_slots` with `Due` their
enabling condition spelled out.

## 5. Theorems

Each is proved for every value of the constants that the named assumption allows.
The argument is always the same: an invariant that implies the property, holds
initially and is kept by every action, with a lemma per action.  What follows is
why the properties are not inductive themselves, and what had to be added.

**`FlowControl`**, from `FlowAssumption` (`0 < BLOCK_SIZE <= SEND_WINDOW`,
`MaxFrame > 0`; in the code 16 KiB and 2 MiB):

* `FlowTypeCorrect`, `FlowInvariant`: `Spec => []FlowInv`.
* `WriterNeverStalls`: a sleeping writer has a ping or pong under way that wakes it.
* `BacklogBounded`: the client's backlog is below the window plus one frame.

`NoStall` has to know that a ping of the *last block* is on its way, which follows
from `BlockPinged` (the block of the last byte was pinged, and the ping, its pong or
its acknowledgement is somewhere) and `WindowKept` (had it been acknowledged, the
writer would not sleep, because a block is no larger than the window).
`Backpressure` needs `InOrder`: the acknowledged number is at most what the client
has read.

**`BridgeProofs`**, for any sets of channels, peers, groups and classes and any bounds
(`RouterAssumption`, `ClassAssumption`):

* `BridgeTypeCorrect`: `Spec => []TypeOK`.
* `ChannelsShutDownOnce`: a channel object is an endpoint exactly until it is
  closing and out of tasks.
* `EventIsAccurate`: `no_endpoints` is set exactly while there is no endpoint.

The inductive invariant is `Core`, the conjunction of the three: one lemma for each
way in which the tables change, facts about `DoClose` and `RunCalls` (they never
take a closing channel back nor give it new tasks, which is why a second shutdown
is impossible), `OnceKept`, which combines both, and one lemma for each action.

In the second half of the module, under the same assumptions:

* `RouterAlwaysAgrees`: `Spec => []RouterAgrees`.
* `LifecycleRefined`: without channels of class `socket`, `Spec` implements
  `ChannelProtocol` for every channel; initial states map to initial states, and
  each action to a step of the abstract specification or a stutter.
* `OthersInOrder`: with sockets in the bridge, what the client is told of every
  other channel still only moves forward, and nothing follows its `close`.

The invariant is `Core` with `Agreement`: the two tables are inverse to each other
and agree with what the client was told (`TablesAgree`, `ClientAgrees`), only frozen
endpoints hold anything back and a peer is frozen exactly while it starts
(`HeldBack`), the end of the session agrees with both (`SessionAgrees`); and for each
endpoint, `ChannelAgrees` ties the state of a channel object to its endpoint and to
what the client was told of it, and `PeerAgrees` says what may be in a peer's queue
and in both of its pipes, channel by channel, given what the router and the process
at the other end know of that channel.  None of them is inductive alone: that a
peer's `close` is about a channel the router knows (`RepliesKnown`) depends on what
was sent to that peer, which depends on the order of its queue, which depends on the
tables; and the lifecycle is refined because only a socket is ever heard after
its `close` (`ChannelAgrees`).  Sockets are excluded from
`LifecycleRefined` for the reason given in section 6 (`bridge_exit`).

**`Superuser`**, from `SuperuserAssumption`, for any numbers of calls, prompts,
answers and stops, driven over D-Bus and at start-up:

* `SuperuserSafety`: `Spec => []SuperuserSafe`, that is `OnePeer`, `CurrentHonest`,
  `PromptKept`, and `superuser-init-done` at most once.

The properties speak about what a callback of asyncio leaves behind, so the invariant
`Good` speaks about the callbacks that are due: each finds what it was made for
(`ItemOK`: a resumed `go()` that will succeed has the rule's peer or none; a resumed
question has the prompt or none), and only some orders are possible (`PairOK`:
nothing that a descriptor caused comes before a new `go()`, no new `go()` before one
that will succeed).  These come from the turns of asyncio, and without them a
second peer or a prompt taken away from its question would be possible.

**`FsReplace`**, from `ReplaceAssumption`, for any finite set of channels, any number of
messages, and any number of replacements by other processes:

* `ReplaceSafety`: `ReplaceSpec => []ReplaceSafe`: `Tidy` and `CreateExclusive` always;
  `PathWhole` if no channel is cancelled and no write is cut short; `NoLostUpdate` and
  `TagTold` if no other process replaces the file.

The three conditions are those under which the code has the property (section 6).
The invariant `FilesGood` says who owns what: inodes are numbered by those who made them
(`Counted`), so that there is always a next one and it is nobody's; each temporary
name and each descriptor in use belongs to a channel that is not over (`Shared`),
which by counting gives a free descriptor to a channel without one; a channel's
descriptor is its file as long as it is not over, and between its last comparison
and its rename the event loop is its own (`OwnOK`), so that what it compared with is
still there (`TagOK`); and its file holds its messages up to the one a thread is
writing (`DataOK`).

**`TlsServer`**, from `TlsServerAssumption`, for any connections and instances:

* `TlsServerSafety`: `Spec => []ServerSafe`, that is `StopsIdle`, `TimerFollows`,
  `FileWhileConnected` and `DoneIsDone`.

The invariant counts: threads that run are at most `connection_count`, which is at
most the number of connections that `handle_accept()` has counted (`CountKept`; it
exceeds the number of threads for good once `pthread_create()` fails); it follows
the certificate (`CertificateKept`) and the factory's messages (`JobKept`) through
each phase of a connection.

**`Session`**, the process of a login, from `SessionAssumption`, for any kinds of
authorization, any number and any batches of messages from PAM, any number of rounds
of Kerberos, with failures and signals or without, and with any result of any call of PAM:

* `SessionSafety`: `SessionSpec => []SessionSafe`: the bridge runs only for a user who
  is authenticated and, in a session, whose account, credentials, session and shell
  are good (`BridgeInSession`); it is either the bridge or this program that says how the
  login went (`OneVerdict`), and which problem it names follows the result of PAM: one
  who is authenticated is told `authentication-failed` only if a later call says that the
  user is unknown or fails after the account was good, and `access-denied` comes before
  authentication only if `pam_authenticate()` denied permission (`ProblemTells`); the password answers one prompt, every other
  answer is the one that was given to that prompt, and both stay in order
  (`AnswersPaired`); no message is shown twice or out of order (`ShownOnce`); and a
  session that ended by itself leaves nothing (`Cleaned`).

`SessionInv` adds what the place in the program says of PAM (`Opened`: what is opened is
opened in one order and given up only at the end) and of the bridge (`Started`).
`AnswersPaired` and `ShownOnce` are about sequences that grow at the end, so they need that
every element is below what comes next: the messages still to be gone through are
numbered on from `Done`, all answers are for messages up to `Done` and for prompts
before the one that is out (`Paired`), and what was shown is below what is collected
or kept for the next call, which is below the messages to come (`Shown`).  That a
prompt's answer finds its own message is a lemma (`AnsweredPaired`); so are the
facts about rising sequences under append, concatenation and tail.

**`Session`**, the records of logins, from `UsersAssumption`, for any users, any set of
sessions and any time:

* `RecordsSafety`: `LogSpec => []RecordsSafe`: the number of failed logins a user is told,
  and the last of them, are those in the file since the login before, while others are
  appended (`FailsExact`); and for each failure up to the time of the last login there is a
  login that goes through the file with that failure between the time it read from
  `lastlog` and its own (`NoFailBetween`), however the sessions cross and although file
  operations fail: none falls between two logins.

A process takes the time in one step and writes in a later one, as the code does, so a
failure may be appended after the scan of the login that passes it; that login does not
see it, and `NoFailBetween` does not claim that it does (section 6).  `NoFailBetween` is
about the file as it is; the invariant (`NoneMissing`) says the same of every time, whether
there is a failure or not, and, because a session writes `lastlog` after it has read it,
with others writing in between, also of all times before the entry that a session has
read and not yet replaced.  `Counted` says what a scan has come to in the middle of the
file, as a cardinality.

**`SshLogin`**, from `SshLoginAssumption`, for any number of prompts and any of the
policies about unknown hosts:

* `SshLoginSafety`: `SshSpec => []SshLoginSafe`: nothing secret goes to a server whose key
  is not the known one or accepted (`VerifiedFirst`), no connection is made to a host
  that is neither known nor allowed (`KnownFirst`), the password answers at most one
  question (`PasswordOnce`), at most one method is conclusive (`OneFinal`), a login without a
  problem is one the server agreed to (`Agreed`), no temporary file stays (`NoFileLeft`).
* `SshLoginSteps`: in every step, the password is asked for only if it never was and
  there is none, and after a conclusive result the server is given nothing more.

The invariant follows the table of results: a method is still to be tried, under
way, or has a result; the login is final exactly if one result is conclusive, and
then none is under way (`Tried`).  `PasswordOnce` holds because keyboard-interactive and
password are never both to be tried, and once one has had the password neither is
left (`Password`).

**`HostChecksum`**, for any hosts and checksums (`ChecksumAssumption`):

* `ChecksumSafety`: a link with a checksum is only served by a host that said this
  checksum last.
* `LinksSafety`: as long as no packages change, every link has a host, and this
  machine serves its own packages.

The first is inductive with the type invariant, because an entry is removed in the
step in which its host says another checksum.  The second needs that a host which
has said anything has said the checksum of its present packages
(`Steady`), so that an entry is only ever replaced and never removed.

**Only model-checked:** all liveness, which is out of the prover's reach, and the
suites' other properties.  `DBusCache` and `DBusVariant` use recursive operators,
`SpawnStream` sums up its queue and `WebService` folds over a table; what such a definition
computes for every input needs induction over data, which is out of reach, too.
Proofs about the other components (section 8) are possible and not written.
The properties of `Superuser` and `FsReplace` that are left to TLC alone are those of
`python_end`: that each `go()` and each channel comes to its end.

## 6. Where code and documentation disagree

`flow_close_then_pong` is a run that TLC refutes: a `pong` that is handled after a
`close`, before the cancelled writer has run, completes a cancelled future.  The
exception leaves `data_received()` and the frame stays at the front of the buffer.

Other disagreements were met while modelling.  They are not runs; where one would
break a property of a passing run, the instance excludes the case at fault by a
named switch or by the choice of its outside, or the property excepts the states of a
history field, and not more:

| Excluded by | The code | Where |
|---|---|---|
| `bridge_exit` without `socket` | EOF does not reach a socket channel that is still connecting; an error closes it but not its transport | `channel.py:425`, `:159` |
| `Abandoned` in `BridgeEnds` | a run task that is cancelled before its first step never enters the `try` of `run_wrapper()`: its channel is not closed, and `communicate()` waits for ever | `channel.py:514`, `:571` |
| `reader`: no empty frames, the process reads | an empty block at the end of the queue is never popped; `close` waits for the queue before SIGTERM | `transports.py:189`, `:260` |
| `SpawnStream.InputKept` short of a broken pipe | writing to a closed input drops unread output and the exit status | `transports.py:247` |
| `garbled` in `SpawnStream` (`CutOff`) | text that does not decode closes the channel but not its transport, and what comes later is still sent; if it ends inside a character there is neither `done` nor `close` | `channel.py:225`, `:430`, `:458` |
| `crossed` in `DBusChannel` | a signal that is handled between the reply to GetNameOwner and the coroutine that waits for it leaves the client with the older owner | `dbus.py:186` |
| `failed` in `DBusChannel.NoRepeatedOwner` | the `null` after a failed start is neither compared nor noted, against the comment at `dbus.py:180` | `dbus.py:212` |
| `dbus`: `GoHonest` not claimed | `go()` uses `self.peer` after `stop()` cleared it; a polkit prompt outlives `pkexec`; a second `authorize` for a cookie raises | `superuser.py:187`, `:137`, `protocol.py:262` |
| `Shorts <- FALSE`; `contended` without cancels, `cancelled` without others | short writes count as full; tag compared and renamed in two steps; a thread writes to a descriptor that was closed | `filesystem.py:182`, `:206`, `:216` |
| nothing: no property of `FsFile` claims it | a change by another program between the last comparison and the rename is overwritten | `cockpitfsreplace.c:156` |
| `Robbed` in `FsFile` | a writer that is out of descriptors unlinks `path.1`, which may be that of another writer at work | `cockpitfsreplace.c:267`, `:212` |
| `Aborts <- FALSE` | an orderly close by the client during the body keeps the connection, and the next request gets the rest | `cockpithttpstream.c:918` |
| `Kinds <- {"length", "chunked"}` | a response without length never ends; a HEAD response is waited for | `cockpithttpstream.c:648`, `:245` |
| `Kinds` without terminals; `PipeCloses` without `again` | reaping a child closes a terminal that is not read; after EAGAIN the source is gone | `cockpitpipe.c:482`, `:633` |
| `SocketCloses`, `Sockets`: end of input not counted | an end is read again after throttling | `cockpitstream.c:919` |
| `Polite <- TRUE`, `Empty <- FALSE` (`courteous`) | queued packets dropped when the peer ends first; an empty packet taken for the end | `cockpitpacketchannel.c:147`, `:205` |
| `overtaken` in `BridgeSuperuser` | a second Stop while one waits for the peer to end takes its place, and the first is never replied to | `cockpitrouter.c:1353` |
| the outside of `BridgeSuperuser`: after an `init` with a problem a peer says nothing more | frames it would send are handled while it is closing | `cockpitpeer.c:303` |
| `ref` of `Metrics` divides by seconds | a rate is per second, `doc/protocol.md:1211` says per millisecond | `cockpitmetrics.c:428` |
| `wild` in `Metrics.TicksWhileOpen` | a `derive` that is not supported closes the channel, whose sampler still writes to buffers that were never made and ticks on | `cockpitmetrics.c:179`, `:282`, `cockpitinternalmetrics.c:372` |
| packages named by their place in `SafeChecksum` | a package whose manifest has no `name` keeps its checksum when its directory is renamed, against the comment at `cockpitpackages.c:72` | `cockpitpackages.c:608` |
| `Ending` without `close` | after `close` pongs are not heard and a throttled pipe stays | `cockpitchannel.c:797` |
| `Overlap <- FALSE` (`alone`) | a watch is answered before properties that a later batch asked for | `cockpitdbuscache.c:1703` |
| `MetaFirst` excepts interfaces with nothing in them | a batch that ends while GetAll is under way makes a `notify` name an interface, empty, before its `meta`, against `doc/protocol.md:587` and `:610` | `cockpitdbuscache.c:722`, `:1710` |
| nothing: no property claims it | a PropertiesChanged that is waiting overtakes batches that began for signals before it | `cockpitdbuscache.c:195`, `:1225` |
| `Reconnects <- FALSE`, `Rivals` only in `competing` | closing the first channel of a group while connecting leaves the others waiting; a key of a rival is removed | `cockpitdbusjson.c:2772`, `:2525` |
| `SomeRules` without exchanged members and arguments | rules whose hashes collide are merged | `cockpitdbusrules.c:68` |
| `PlainKeys`, values within the signed range in `Ints` | byte keys and large unsigned numbers are not read back | `cockpitdbusjson.c:712`, `:829` |
| `SameNumber` excepts strings with junk and extra members | a string that is not base64 is taken for bytes up to the junk, against `doc/protocol.md:669`; members of a variant besides `t` and `v` are ignored | `cockpitdbusjson.c:266`, `:341` |
| `cut` in `DBusJson.QuietWhenClosed` | calls whose methods are still being looked up are answered with an error after `close`, against `doc/protocol.md:225` | `cockpitdbusjson.c:3113`, `:1284` |
| `unasked` in `DBusJson.ReadyFirst` | `owner` is sent as null before any `ready` | `cockpitdbusjson.c:2702` |
| `Unsettled` only of channels that follow a name | a channel without a name stays open when the bus is gone, against `doc/protocol.md:432` | `cockpitdbusjson.c:2714` |
| `Upgrades <- FALSE` for `LinksFound` | the entry of another host with the same checksum is removed | `cockpitwebservice.c:1469` |
| `lost` in `WebServer.AnsweredInOrder`; `Pipelines <- FALSE` in `answers` and `slow` | a request that is read together with the one before it is dropped | `cockpitwebserver.c:954`, `:1241` |
| `StrayChunk` in `ReusedWhenWhole` | the answer to a HEAD that is chunked ends in a last chunk, on a connection that is used again | `cockpitwebresponse.c:618`, `:1176`, `:122` |
| `Honest <- TRUE` (`response`) | a size hint becomes the Content-Length unchecked | `cockpitchannelresponse.c:422` |
| `MaxInits` at most 1 | a second `init` overwrites a timer | `cockpitwebservice.c:637` |
| `left` in `WebService` (`NoneLeftBehind`, `OpenedOnce`) | channels stay in the bridge when a connection drops, when one is opened after the service's close frame, and when a `close` of the bridge for an earlier channel with the same id comes late (a channel is closed once either end has said so, `doc/protocol.md:225`, and its id free) | `cockpitwebservice.c:1151`, `:898`, `:724` |
| clients close only channels of their own | a `close` for a channel of another socket is relayed all the same, and taken out of only one of the two tables | `cockpitwebservice.c:341` |
| `TakenUpAgain` in `UsedSessionStays` | a login that goes on with the conversation of one that succeeded resets the session in use | `cockpitauth.c:1492`, `:1513` |
| `CreateFails <- FALSE` | a thread that cannot be created stays counted | `server.c:163` |
| `MaxRecord <- 1` (`calm`), no TLS | pending bytes multiplied with POLLIN; an end of the session drops buffered bytes | `connection.c:666`, `:373` |
| `Signals <- FALSE` (`relay`, `torn`) | SIGTERM does not reach the child; the relay ends without a reply, and its dispose asserts that `ssh_data` is gone | `session-utils.c:549`, `cockpitsshrelay.c:1538` |
| `crashed` in `SshRelay.SentOnce` | stdin ends before the bridge spoke: there is no problem to reply with, and an assertion fails | `cockpitsshrelay.c:1223` |
| `pending` in `SshRelay.FramesOnly` | what is queued for stdout when the relay ends is lost | `cockpitsshrelay.c:1584`, `:1677` |
| `ProblemTells` names the results | PAM_USER_UNKNOWN of any call is told as `authentication-failed`, PAM_PERM_DENIED of any as `access-denied` | `session.c:386` |
| `how = "killed"` in `Session` | a hidden prompt in a Kerberos login reads the password through a NULL pointer | `session.c:162`, `:569`, `:660` |
| `NoFailBetween` is about times | a failure appended after the scan with a time before, or in the second of, the login is told to nobody | `session-utils.c:330`, `:421`, `:445` |
| `cut` and `deaf` in `PamSshAdd` (`OneAnswer`, `OpenOver`) | a prompt that the end of a block cuts is never recognised, and one after a failed read never read: ssh-add waits, and the login with it | `pam-ssh-add.c:208`, `:558` |
| no property of `PamSshAdd` claims it | the agent stays when its variables or its pid cannot be read, or `kill()` fails | `pam-ssh-add.c:874`, `:984` |

## 7. Not modelled

Parsing and formatting (JSON, HTTP headers, cookies, configuration, certificates,
utmp fields), command lines and start-up of the programs, samplers of the kernel's
numbers and PCP, the HTTP, metrics and packages channels of the Python bridge (the
C ones are modelled, the life cycle of the Python ones is class `async` of
`Channel`), password handling of `remote.py`, beiboot, the remapping of descriptors
in `session-utils.c`, the D-Bus objects the C bridge exports itself, the client
library (only what the bridges see of it) and the pages in `pkg/`; tests and mocks
are no part of the program.  Inside the modelled
components, what a module leaves out is in its first comment and in the component's
note in `PROJECT.json`.

Compositions of processes are modelled only for the Python bridge with its peers,
for both ends of a WebSocket, and for a channel with its response.

## 8. Plan

1. Proofs about further components, in their own modules: `RefsCount` of `Auth`,
   `InOrder` of `TlsConnection`, `ClosedOnce` and `SentInOrder` of `Stream`, `PamSshAdd`.
   `TablesAgree` of `WebService` needs its folds rewritten as sets first.
2. A composition of `WebService` with a bridge that follows `ChannelProtocol`, so that
   closing is followed from the browser to the channel.
3. `SpawnStream` with `pty`; the stdio transport of the router as an instance of it.
