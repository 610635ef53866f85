-------------------------------- MODULE FsDir --------------------------------
(***************************************************************************)
(* Channels of the C bridge that watch a file or directory and list one    *)
(* (src/src/bridge/cockpitfswatch.c, cockpitfslist.c).  A directory is     *)
(* listed in batches that a thread reads and the main loop sends on;       *)
(* changes come from a monitor as events that the main loop turns into     *)
(* messages with the tag a file has by then.                               *)
(*                                                                         *)
(* A file is a number that grows with every change, 0 when there is none;  *)
(* the number is its tag.                                                  *)
(***************************************************************************)
EXTENDS Integers, FiniteSets, SequencesExt

CONSTANTS
    Names,    \* names in the directory
    Kinds,    \* kinds of channels: "watch", "list" and "list-watch"
    Batch,    \* files that are read at once, 10 in the code
    Changes,  \* bound on changes to the directory
    Faults,   \* calls may fail
    Closes    \* the client may close

(* What an instance has to satisfy.                                       *)
FsDirAssumption == Batch \in Nat \ {0} /\ Kinds \subseteq {"watch", "list", "list-watch"}

VARIABLES
    dir,      \* the files
    changes,  \* how many changes there were
    events,   \* changes the monitor knows of and has not told
    op,       \* the operation of the enumerator: what the thread does or did
    scan,     \* names the enumerator has passed, and those it must return
    c,        \* the channel
    view      \* what the client was told: files it knows, tags of its events

vars == <<dir, changes, events, op, scan, c, view>>

Files == {n \in Names : dir[n] # 0}
Watching == c.monitor /\ ~c.disposed

Init ==
    /\ dir \in [Names -> {0, 1}]
    /\ changes = 1
    /\ events = <<>>
    /\ op = [at |-> "none", files |-> {}, error |-> ""]
    /\ scan = [seen |-> {}, must |-> {}]
    /\ \E k \in Kinds :
          c = [kind |-> k, at |-> "new", monitor |-> FALSE, ready |-> FALSE, done |-> FALSE,
               problem |-> "", late |-> 0, disposed |-> FALSE]
    /\ view = [files |-> {}, listed |-> {}, tags |-> [n \in Names |-> -1]]

(***************************************************************************)
(* The channel                                                             *)
(***************************************************************************)
\* A message is sent whether the channel is closed or not; its client takes
\* it only if it is not.
Sent(t) == IF t.at = "closed" THEN [t EXCEPT !.late = 1] ELSE t

\* The first close is the one that is sent.
ClosedWith(t, problem) == IF t.at = "closed" THEN t ELSE [t EXCEPT !.at = "closed", !.problem = problem]

\* cockpit_fswatch_prepare()
PrepareWatch ==
    /\ c.at = "new" /\ c.kind = "watch"
    /\ \/ c' = [c EXCEPT !.at = "open", !.monitor = TRUE, !.ready = TRUE]
       \/ Faults /\ \E problem \in {"protocol-error", "internal-error"} : c' = ClosedWith(c, problem)
    /\ UNCHANGED <<dir, changes, events, op, scan, view>>

\* cockpit_fslist_prepare(): the monitor first, then the listing.
PrepareList ==
    /\ c.at = "new" /\ c.kind # "watch"
    /\ \/ /\ c' = [c EXCEPT !.at = "open", !.monitor = c.kind = "list-watch"]
          /\ op' = [op EXCEPT !.at = "opening"]
       \/ /\ Faults
          /\ \E problem \in {"protocol-error", "internal-error"} : c' = ClosedWith(c, problem)
          /\ UNCHANGED op
    /\ UNCHANGED <<dir, changes, events, scan, view>>

\* The client closes, or sends a message, which none of these channels takes.
ClientCloses ==
    /\ Closes /\ c.at = "open"
    /\ \E problem \in {"", "protocol-error"} : c' = ClosedWith(c, problem)
    /\ UNCHANGED <<dir, changes, events, op, scan, view>>

\* cockpit_fslist_dispose(), cockpit_fswatch_dispose(): an operation has a
\* reference to the channel, so that it comes to an end before.
Dispose ==
    /\ c.at = "closed" /\ ~c.disposed /\ op.at = "none"
    /\ c' = [c EXCEPT !.disposed = TRUE]
    /\ events' = <<>>
    /\ UNCHANGED <<dir, changes, op, scan, view>>

(***************************************************************************)
(* Listing                                                                 *)
(***************************************************************************)
\* The thread opens the directory; what is there now it must return, unless it
\* is removed before.
ThreadOpens ==
    /\ op.at = "opening"
    /\ \/ op' = [op EXCEPT !.at = "opened"] /\ scan' = [seen |-> {}, must |-> Files]
       \/ /\ Faults /\ UNCHANGED scan
          /\ \E problem \in {"access-denied", "not-found", "internal-error"} :
                op' = [op EXCEPT !.at = "opened", !.error = problem]
    /\ UNCHANGED <<dir, changes, events, c, view>>

\* on_enumerator_ready()
OnEnumeratorReady ==
    /\ op.at = "opened"
    /\ IF op.error = "" THEN op' = [op EXCEPT !.at = "reading"] /\ UNCHANGED c
       ELSE op' = [op EXCEPT !.at = "none"] /\ c' = ClosedWith(c, op.error)
    /\ UNCHANGED <<dir, changes, events, scan, view>>

\* The thread reads a batch; a name that came or went meanwhile it may meet or
\* not.
ThreadReads ==
    /\ op.at = "reading"
    /\ \/ \E b \in SUBSET (Files \ scan.seen) :
             /\ Cardinality(b) \in 1..Batch
             /\ op' = [op EXCEPT !.at = "read", !.files = b]
             /\ scan' = [scan EXCEPT !.seen = @ \cup b]
       \/ scan.must \subseteq scan.seen /\ op' = [op EXCEPT !.at = "read", !.files = {}] /\ UNCHANGED scan
       \/ Faults /\ op' = [op EXCEPT !.at = "read", !.error = "internal-error"] /\ UNCHANGED scan
    /\ UNCHANGED <<dir, changes, events, c, view>>

\* No more files: "ready", and without a monitor "done" and the end.
ListEnd(t) ==
    LET u == Sent([t EXCEPT !.ready = TRUE])
    IN IF t.monitor THEN u ELSE ClosedWith(Sent([u EXCEPT !.done = TRUE]), "")

\* on_files_listed(): a message for every file, and the next batch.
OnFilesListed ==
    /\ op.at = "read"
    /\ CASE op.error # "" ->
              op' = [op EXCEPT !.at = "none"] /\ c' = ClosedWith(c, op.error) /\ UNCHANGED view
         [] op.error = "" /\ op.files = {} ->
              op' = [op EXCEPT !.at = "none"] /\ c' = ListEnd(c) /\ UNCHANGED view
         [] OTHER ->
              /\ op' = [op EXCEPT !.at = "reading", !.files = {}]
              /\ c' = Sent(c)
              /\ view' = IF c.at = "closed" THEN view
                         ELSE [view EXCEPT !.files = @ \cup op.files, !.listed = @ \cup op.files]
    /\ UNCHANGED <<dir, changes, events, scan>>

(***************************************************************************)
(* Watching                                                                *)
(***************************************************************************)
\* A file is created, changed or removed, and the monitor told.
Change(n) ==
    /\ changes <= Changes
    /\ changes' = changes + 1
    /\ \E v \in {0, changes + 1} :
          /\ v # dir[n]
          /\ dir' = [dir EXCEPT ![n] = v]
          /\ scan' = IF v = 0 THEN [scan EXCEPT !.must = @ \ {n}] ELSE scan
          /\ events' = IF ~Watching THEN events
                       ELSE Append(events, [name |-> n, tag |-> v,
                              event |-> IF v = 0 THEN "deleted" ELSE IF dir[n] = 0 THEN "created" ELSE "changed"])
    /\ UNCHANGED <<op, c, view>>

\* cockpit_get_file_tag() of the file as it is when the event is told.
EventTag(e) == dir[e.name]

\* cockpit_fswatch_emit_event(), and what its client makes of it.
EmitEvent(e) ==
    [view EXCEPT !.files = CASE e.event = "created" -> @ \cup {e.name}
                             [] e.event = "deleted" -> @ \ {e.name}
                             [] OTHER -> @,
                 !.tags[e.name] = EventTag(e)]

\* on_changed()
OnChanged ==
    /\ Watching /\ events # <<>>
    /\ events' = Tail(events)
    /\ c' = Sent(c)
    /\ view' = IF c.at = "closed" THEN view ELSE EmitEvent(Head(events))
    /\ UNCHANGED <<dir, changes, op, scan>>

Bridge ==
    \/ PrepareWatch \/ PrepareList \/ ThreadOpens \/ OnEnumeratorReady
    \/ ThreadReads \/ OnFilesListed \/ OnChanged \/ Dispose

Next == Bridge \/ ClientCloses \/ \E n \in Names : Change(n)

Spec == Init /\ [][Next]_vars
(***************************************************************************)
(* Properties                                                              *)
(***************************************************************************)
Quiet == c.at = "open" /\ c.ready /\ events = <<>>

\* The state has its type; an operation belongs to a channel that was not
\* disposed of, and "done" is sent by a listing that does not watch, and after
\* "ready".
TypeOK ==
    /\ c.at \in {"new", "open", "closed"} /\ op.at \in {"none", "opening", "opened", "reading", "read"}
    /\ view.files \subseteq Names
    /\ c.disposed => op.at = "none"
    /\ c.done => c.ready /\ c.kind = "list"

\* Once it is ready and nothing is under way the client knows of every file:
\* none falls between the listing and the watch.
NoneMissed == Quiet /\ c.kind = "list-watch" => Files \subseteq view.files

\* When no event for a file is under way, the tag its client was told last is
\* the one it has.
LastTagTrue ==
    c.at = "open" => \A n \in Names :
       (view.tags[n] # -1 /\ \A i \in DOMAIN events : events[i].name # n) => view.tags[n] = dir[n]

\* "ready" comes after every file that was there all the time.
ReadyLast == c.ready /\ c.kind # "watch" /\ c.problem = "" /\ c.late = 0 /\ c.at = "open" => scan.must \subseteq view.listed

\* A listing without a watch ends, and one with a watch gets ready: <> Listed.
Listed == c.at = "closed" \/ (c.kind # "list" /\ c.ready)

\* A channel that is closed is disposed of in the end: Closed ~> Disposed.
Closed == c.at = "closed"
Disposed == c.disposed

=============================================================================
