----------------------------- MODULE FsReplace ------------------------------
(***************************************************************************)
(* fsreplace1 of the Python bridge (FsReplaceChannel of                    *)
(* cockpit/channels/filesystem.py): channels that replace or delete one    *)
(* file.  Everything happens in the thread of the event loop, except for   *)
(* the writes and the sync, which are jobs of a thread pool, and for the   *)
(* other processes, which replace the file whenever they like.             *)
(***************************************************************************)
EXTENDS Integers, Sequences, FiniteSetsExt, FiniteSetTheorems, WellFoundedInduction, TLAPS

CONSTANTS
    Chans,   \* the channels
    Chunks,  \* the largest number of messages with contents
    Others,  \* how often other processes replace the file
    Cancels, \* may the client close a channel before its end
    Shorts   \* may the disk fill up within a write

(* What an instance has to satisfy.                                       *)
ReplaceAssumption ==
    /\ IsFiniteSet(Chans) /\ Chunks \in Nat \ {0} /\ Others \in Nat
    /\ Cancels \in BOOLEAN /\ Shorts \in BOOLEAN

Inodes == 1..Cardinality(Chans) + Others + 1
Fds == 1..Cardinality(Chans)
ANY == -1  \* no tag given; the tag of a file is its inode, and 0 stands for "-"

VARIABLE f  \* a record with the fields
    \* path     the inode of the file, or 0; next: the next new inode
    \* data     what each inode holds, pairs of a channel and the number of a message, 0 for a
    \*          message that is not there in full
    \* fds      the inode behind each file descriptor, or 0; tmp: inodes with a temporary name
    \* busy     the channel in whose calls the event loop is, a set
    \* others   how often other processes have replaced the file
    \* ch       of each channel: at, where run() is; tag, as asked for; fd and ino, its temporary
    \*          file; n: messages written; job: its job in the thread pool; bad: the job failed;
    \*          over: the inode it replaced; told: the tag it returned; end: how it ended

ReplaceInit ==
    f = [path |-> 1, next |-> 2, data |-> [i \in Inodes |-> <<>>], fds |-> [d \in Fds |-> 0], tmp |-> {},
         busy |-> {}, others |-> 0,
         ch |-> [c \in Chans |-> [at |-> "new", tag |-> ANY, fd |-> 0, ino |-> 0, n |-> 0, job |-> "none",
                                  bad |-> FALSE, over |-> 0, told |-> ANY, end |-> ""]]]

Loop == f.busy = {}
At(c, where) == f.ch[c].at = where

\* The end of run(), with the finally of set_contents().
Ends(s, c, how) ==
    [s EXCEPT !.fds = IF s.ch[c].fd = 0 THEN @ ELSE [@ EXCEPT ![s.ch[c].fd] = 0],
              !.tmp = @ \ {s.ch[c].ino},
              !.busy = {}, !.ch[c].at = "over", !.ch[c].end = how]

\* run() up to the first read(): the client knows the file, or expects none, or does not care.
Open(c) ==
    /\ Loop /\ At(c, "new")
    /\ \E tag \in {ANY, 0, f.path} : f' = [f EXCEPT !.ch[c].at = "read", !.ch[c].tag = tag]

\* The first message: set_contents() up to its first await.
Begin(c) ==
    /\ Loop /\ At(c, "read") /\ f.ch[c].ino = 0
    /\ LET fd == Min({d \in Fds : f.fds[d] = 0})
       IN  f' = [f EXCEPT !.next = @ + 1, !.fds[fd] = f.next, !.tmp = @ \cup {f.next},
                          !.ch[c].fd = fd, !.ch[c].ino = f.next, !.ch[c].at = "write", !.ch[c].job = "queued"]

\* mkstemp() fails.
BeginFails(c) ==
    /\ Loop /\ At(c, "read") /\ f.ch[c].ino = 0
    /\ f' = Ends(f, c, "failed")

\* A further message.
More(c) ==
    /\ Loop /\ At(c, "read") /\ f.ch[c].ino # 0 /\ f.ch[c].n < Chunks
    /\ f' = [f EXCEPT !.ch[c].at = "write", !.ch[c].job = "queued"]

\* A thread of the pool takes the job: from here on it cannot be cancelled.
JobStarts(c) == f.ch[c].job = "queued" /\ f' = [f EXCEPT !.ch[c].job = "running"]

\* os.write in the thread, to whatever the file descriptor is by now: the whole message, the
\* part for which there was space, or an error.
JobWrites(c) ==
    /\ f.ch[c].job = "running" /\ f.ch[c].at # "sync"
    /\ LET i == f.fds[f.ch[c].fd]
           Put(what) == [f EXCEPT !.ch[c].job = "done", !.ch[c].bad = FALSE, !.data[i] = Append(@, what)]
           failed == [f EXCEPT !.ch[c].job = "done", !.ch[c].bad = TRUE]
       IN  \/ i # 0 /\ f' = Put(<<c, f.ch[c].n + 1>>)
           \/ i # 0 /\ Shorts /\ f' = Put(<<c, 0>>)
           \/ f' = failed

\* set_contents() after the write.  The number that os.write returns is not looked at.
Written(c) ==
    /\ Loop /\ At(c, "write") /\ f.ch[c].job = "done"
    /\ f' = IF f.ch[c].bad THEN Ends(f, c, "failed")
            ELSE [f EXCEPT !.ch[c].at = "read", !.ch[c].n = @ + 1, !.ch[c].job = "none"]

\* "done" from the client, after contents.
Done(c) ==
    /\ Loop /\ At(c, "read") /\ f.ch[c].ino # 0
    /\ f' = [f EXCEPT !.ch[c].at = "sync", !.ch[c].job = "queued"]

JobSyncs(c) ==
    /\ f.ch[c].job = "running" /\ At(c, "sync")
    /\ \E bad \in BOOLEAN : f' = [f EXCEPT !.ch[c].job = "done", !.ch[c].bad = bad]

\* A mutant of Check: the tag is not compared.
CheckAny(c) ==
    IF f.path = 0 THEN Ends(f, c, "not-found") ELSE [f EXCEPT !.ch[c].at = "rename", !.busy = {c}]

\* The file must exist with the given tag.
Check(c) ==
    CASE f.path = 0 -> Ends(f, c, "not-found")
      [] f.path # 0 /\ f.path # f.ch[c].tag -> Ends(f, c, "change-conflict")
      [] OTHER -> [f EXCEPT !.ch[c].at = "rename", !.busy = {c}]

\* The file must not exist: link() fails if it does.
Link(c) ==
    IF f.path # 0 THEN Ends(f, c, "change-conflict")
    ELSE [f EXCEPT !.ch[c].at = "tell", !.ch[c].over = 0, !.path = f.ch[c].ino, !.busy = {c}]

\* After fdatasync: the case distinction by the tag, up to its first system call that matters.
Synced(c) ==
    /\ Loop /\ At(c, "sync") /\ f.ch[c].job = "done"
    /\ f' = CASE f.ch[c].bad -> Ends(f, c, "failed")
              [] ~f.ch[c].bad /\ f.ch[c].tag = ANY -> [f EXCEPT !.ch[c].at = "rename", !.busy = {c}]
              [] ~f.ch[c].bad /\ f.ch[c].tag = 0 -> Link(c)
              [] OTHER -> Check(c)

\* rename(), after fchmod() and fchown()
Rename(c) ==
    /\ At(c, "rename")
    /\ f' = [f EXCEPT !.ch[c].at = "tell", !.ch[c].over = f.path, !.path = f.ch[c].ino, !.busy = {c},
                      !.tmp = @ \ {f.ch[c].ino}]

\* "done" without contents: delete(), which compares and then unlinks.
Delete(c) ==
    /\ Loop /\ At(c, "read") /\ f.ch[c].ino = 0
    /\ f' = IF f.ch[c].tag \notin {ANY, f.path} THEN Ends(f, c, "change-conflict")
            ELSE [f EXCEPT !.ch[c].at = "unlink", !.busy = {c}]
Unlink(c) ==
    /\ At(c, "unlink")
    /\ f' = Ends([f EXCEPT !.ch[c].over = f.path, !.path = 0, !.ch[c].told = 0], c, "ok")

\* tag_from_path() at the end of set_contents()
Tell(c) ==
    /\ At(c, "tell")
    /\ f' = Ends([f EXCEPT !.ch[c].told = f.path], c, "ok")

\* The client closes the channel: do_close() cancels the task, which waits for a message or for
\* a job.  A job that no thread has taken is cancelled, too; of the others only a write matters.
Cancel(c) ==
    /\ Cancels /\ Loop /\ f.ch[c].at \in {"read", "write", "sync"}
    /\ f' = [Ends(f, c, "cancelled") EXCEPT !.ch[c].job = IF @ = "running" /\ At(c, "write") THEN @ ELSE "none"]

\* Another process puts a new file in the place of this one.
OtherReplaces ==
    /\ f.others < Others
    /\ f' = [f EXCEPT !.others = @ + 1, !.path = f.next, !.next = @ + 1]

ReplaceNext ==
    \/ OtherReplaces
    \/ \E c \in Chans :
          \/ Open(c) \/ Begin(c) \/ BeginFails(c) \/ More(c) \/ Written(c) \/ Done(c) \/ Synced(c) \/ Rename(c)
          \/ Delete(c) \/ Unlink(c) \/ Tell(c) \/ Cancel(c)
          \/ JobStarts(c) \/ JobWrites(c) \/ JobSyncs(c)

ReplaceSpec == ReplaceInit /\ [][ReplaceNext]_f

(***************************************************************************)
(* Properties.                                                             *)
(***************************************************************************)
Whole(c) == [k \in 1..f.ch[c].n |-> <<c, k>>]

\* Whoever reads the file finds what was there before, or all that one channel was sent and
\* nothing else, never a part of it: also while other channels write, fail or are cancelled.
PathWhole == \A c \in Chans : f.path # 0 /\ f.path = f.ch[c].ino => f.data[f.path] = Whole(c)

\* However a channel ends, its temporary file and its file descriptor do not outlive it.
Tidy ==
    /\ f.tmp \subseteq {f.ch[c].ino : c \in {b \in Chans : f.ch[b].at # "over"}}
    /\ \A d \in Fds : f.fds[d] # 0 => \E c \in Chans : f.ch[c].at # "over" /\ f.ch[c].fd = d

\* A channel with a tag replaces the file that the tag stands for: two clients that have read
\* the same version cannot both succeed.
NoLostUpdate == \A c \in Chans : f.ch[c].end = "ok" /\ f.ch[c].tag # ANY => f.ch[c].over = f.ch[c].tag

\* The tag "-" protects from other processes, too: what they have created is not replaced.
CreateExclusive ==
    \A c \in Chans : f.ch[c].end = "ok" /\ f.ch[c].tag = 0 /\ f.ch[c].ino # 0 => f.ch[c].over = 0

\* The tag that is returned stands for the new contents.
TagTold == \A c \in Chans : f.ch[c].end = "ok" => f.ch[c].told = f.ch[c].ino

\* A channel that has received "done" comes to an end, and one whose job failed:
\* Ending(c) ~> Over(c).
Ending(c) == f.ch[c].at \in {"sync", "rename", "unlink", "tell"}
Over(c) == f.ch[c].at = "over"

\* What the runs check.  A file is whole unless a channel was cancelled, whose write may still
\* run, or the disk was full within a write; the tags are those of the files as long as no
\* other process replaces them.
ReplaceSafe ==
    /\ Tidy /\ CreateExclusive
    /\ ~Cancels /\ ~Shorts => PathWhole
    /\ Others = 0 => NoLostUpdate /\ TagTold

(***************************************************************************)
(* The invariant that this follows from, of a state r.                     *)
(***************************************************************************)
Where == {"new", "read", "write", "sync", "rename", "unlink", "tell", "over"}
Steps == {"rename", "unlink", "tell"}  \* where run() is between two system calls
How == {"", "ok", "failed", "cancelled", "not-found", "change-conflict"}
Message == Chans \X Nat

RunState ==
    [at : Where, tag : Inodes \cup {0, ANY}, fd : Fds \cup {0}, ino : Inodes \cup {0}, n : Nat,
     job : {"none", "queued", "running", "done"}, bad : BOOLEAN, over : Inodes \cup {0},
     told : Inodes \cup {0, ANY}, end : How]
FileState ==
    [path : Inodes \cup {0}, next : Nat, data : [Inodes -> Seq(Message)],
     fds : [Fds -> Inodes \cup {0}], tmp : SUBSET Inodes, busy : SUBSET Chans, others : Nat,
     ch : [Chans -> RunState]]

\* The channels that have made a temporary file, and the number of inodes that there are.
Made(r) == {c \in Chans : r.ch[c].ino # 0}
Counted(r) == r.others <= Others /\ r.next = 2 + r.others + Cardinality(Made(r))

Shared(r) ==
    /\ r.path < r.next
    /\ \A c, d \in Chans : r.ch[c].ino = r.ch[d].ino /\ r.ch[c].ino # 0 => c = d
    /\ \A i \in Inodes : i >= r.next => r.data[i] = <<>>
    /\ \A i \in r.tmp : \E c \in Chans : r.ch[c].at # "over" /\ r.ch[c].ino = i
    /\ \A d \in Fds : r.fds[d] # 0 => \E c \in Chans : r.ch[c].at # "over" /\ r.ch[c].fd = d

\* A channel and its temporary file.
OwnOK(r, c) ==
    LET h == r.ch[c]
    IN  /\ h.ino = 0 <=> h.fd = 0
        /\ h.ino = 0 => h.at \in {"new", "read", "unlink", "over"} /\ h.n = 0 /\ h.job = "none"
        /\ h.ino # 0 => h.at \notin {"new", "unlink"} /\ h.ino < r.next
        /\ h.at # "over" /\ h.fd # 0 => r.fds[h.fd] = h.ino
        /\ h.at \in Steps => r.busy = {c}
        /\ h.end = "ok" => h.at = "over"
        /\ r.path = h.ino /\ h.ino # 0 => h.at = "tell" \/ h.end = "ok"

\* A channel and its tag.
TagOK(r, c) ==
    LET h == r.ch[c]
        replaced == h.at = "tell" \/ h.end = "ok"
    IN  /\ h.at = "rename" => h.tag # 0
        /\ replaced /\ h.tag = 0 /\ h.ino # 0 => h.over = 0
        /\ Others = 0 =>
             /\ h.at \in {"rename", "unlink"} /\ h.tag # ANY => r.path = h.tag
             /\ replaced /\ h.tag # ANY => h.over = h.tag
             /\ h.at = "tell" => r.path = h.ino
             /\ h.end = "ok" => h.told = h.ino

\* A channel and what it has written: n messages, and one more when a job has just ended.
Holds(r, i, c, n) == Len(r.data[i]) = n /\ \A k \in 1..n : r.data[i][k] = <<c, k>>
Stored(h) == IF h.at = "write" /\ h.job = "done" /\ ~h.bad THEN h.n + 1 ELSE h.n
DataOK(r, c) ==
    LET h == r.ch[c]
    IN  /\ h.job \in {"queued", "running"} => h.at \in {"write", "sync"}
        /\ h.ino # 0 /\ (h.at # "over" \/ h.end = "ok") => Holds(r, h.ino, c, Stored(h))

FilesGood(r) ==
    /\ r \in FileState /\ Counted(r) /\ Shared(r)
    /\ \A c \in Chans : OwnOK(r, c) /\ TagOK(r, c) /\ (~Cancels /\ ~Shorts => DataOK(r, c))

-----------------------------------------------------------------------------
\* A set of numbers that is not empty has a least element.
LEMMA MinExists ==
    ASSUME NEW S \in SUBSET Nat, S # {}
    PROVE  Min(S) \in S
<1> DEFINE R == OpToRel(<, Nat)
<1>1. IsWellFoundedOn(R, Nat)
  BY NatLessThanWellFounded
<1>2. \A a, b \in Nat : <<a, b>> \in R <=> a < b
  BY DEF OpToRel
<1> HIDE DEF R
<1>3. PICK x \in S : \A y \in S : ~ (<<y, x>> \in R)
  BY <1>1, WFMin
<1>4. ASSUME NEW y \in S PROVE x <= y
  <2>1. x \in Nat /\ y \in Nat /\ ~ (y < x)
    BY <1>2, <1>3
  <2> QED
    BY <2>1
<1> QED
  BY <1>4 DEF Min

\* The channels with a temporary file are counted.
LEMMA MadeCount ==
    ASSUME ReplaceAssumption, NEW r
    PROVE  /\ IsFiniteSet(Made(r)) /\ Cardinality(Made(r)) \in Nat /\ Cardinality(Chans) \in Nat
           /\ Cardinality(Made(r)) <= Cardinality(Chans)
           /\ \A c \in Chans \ Made(r) : Cardinality(Made(r)) < Cardinality(Chans)
<1>1. IsFiniteSet(Chans) /\ Made(r) \in SUBSET Chans
  BY DEF ReplaceAssumption, Made
<1>2. /\ IsFiniteSet(Made(r)) /\ Cardinality(Made(r)) <= Cardinality(Chans)
      /\ Cardinality(Chans) = Cardinality(Made(r)) => Chans = Made(r)
  BY <1>1, FS_Subset
<1>3. Cardinality(Made(r)) \in Nat /\ Cardinality(Chans) \in Nat
  BY <1>1, <1>2, FS_CardinalityType
<1>4. ASSUME NEW c \in Chans \ Made(r) PROVE Cardinality(Made(r)) < Cardinality(Chans)
  BY <1>2, <1>3, <1>4
<1> QED
  BY <1>1, <1>2, <1>3, <1>4

\* There is an inode for the next file.
LEMMA NextInode ==
    ASSUME ReplaceAssumption, NEW r, FilesGood(r), Chans \ Made(r) # {} \/ r.others < Others
    PROVE  r.next \in Inodes
<1>1. /\ Cardinality(Made(r)) \in Nat /\ Cardinality(Chans) \in Nat
      /\ Cardinality(Made(r)) <= Cardinality(Chans)
      /\ \A c \in Chans \ Made(r) : Cardinality(Made(r)) < Cardinality(Chans)
  BY MadeCount
<1>2. r.others \in Nat /\ Others \in Nat /\ r.others <= Others /\ r.next = 2 + r.others + Cardinality(Made(r))
  BY DEF FilesGood, FileState, Counted, ReplaceAssumption
<1> QED
  BY <1>1, <1>2 DEF Inodes

\* There is a file descriptor for a channel that has none: the others hold at most one each.
LEMMA FreeFd ==
    ASSUME ReplaceAssumption, NEW r, FilesGood(r), NEW c \in Chans, r.ch[c].ino = 0
    PROVE  LET fd == Min({d \in Fds : r.fds[d] = 0}) IN fd \in Fds /\ r.fds[fd] = 0
<1> DEFINE S == {d \in Fds : r.fds[d] = 0}
<1>1. S # {}
  <2> SUFFICES ASSUME S = {} PROVE FALSE
    OBVIOUS
  <2> DEFINE g == [d \in Fds |-> CHOOSE b \in Chans : r.ch[b].at # "over" /\ r.ch[b].fd = d]
  <2>1. ASSUME NEW d \in Fds PROVE g[d] \in Chans \ {c} /\ r.ch[g[d]].fd = d
    <3>1. \E b \in Chans : r.ch[b].at # "over" /\ r.ch[b].fd = d
      BY DEF FilesGood, Shared
    <3>2. g[d] \in Chans /\ r.ch[g[d]].fd = d
      BY <3>1
    <3>3. d # 0 /\ r.ch[c].fd = 0
      BY DEF Fds, FilesGood, OwnOK
    <3> QED
      BY <3>2, <3>3
  <2> HIDE DEF g
  <2>2. g \in [Fds -> Chans \ {c}]
    BY <2>1 DEF g
  <2>3. g \in Injection(Fds, Chans \ {c})
    BY <2>1, <2>2 DEF Injection, IsInjective
  <2>4. IsFiniteSet(Chans) /\ Cardinality(Chans) \in Nat
    BY FS_CardinalityType DEF ReplaceAssumption
  <2>5. IsFiniteSet(Chans \ {c}) /\ Cardinality(Chans \ {c}) = Cardinality(Chans) - 1
    BY <2>4, FS_RemoveElement
  <2>6. Cardinality(Fds) <= Cardinality(Chans) - 1
    BY <2>3, <2>5, FS_Injection
  <2>7. Cardinality(Fds) = Cardinality(Chans)
    BY <2>4, FS_Interval DEF Fds
  <2> QED
    BY <2>4, <2>6, <2>7
<1>2. S \in SUBSET Nat
  BY DEF Fds
<1>3. Min(S) \in S
  BY <1>1, <1>2, MinExists
<1> QED
  BY <1>3

-----------------------------------------------------------------------------
\* What a step of the channel c leaves as it is for the others: x is r after the step.
Alone(r, x, c) ==
    /\ r.busy \in {{}, {c}} \/ (x.busy = r.busy /\ x.path = r.path)
    /\ \A d \in Chans \ {c} :
         /\ x.ch[d] = r.ch[d]
         /\ r.ch[d].at # "over" /\ r.ch[d].fd # 0 => x.fds[r.ch[d].fd] = r.fds[r.ch[d].fd]
         /\ x.path = r.path \/ x.path # r.ch[d].ino \/ r.ch[d].ino = 0
         /\ ~Cancels /\ ~Shorts /\ r.ch[d].ino # 0 => x.data[r.ch[d].ino] = r.data[r.ch[d].ino]

\* A step of c keeps what concerns another channel d.
LEMMA OthersKept ==
    ASSUME NEW r, FilesGood(r), NEW x \in FileState, NEW c \in Chans, Alone(r, x, c), r.next <= x.next,
           NEW d \in Chans \ {c}
    PROVE  OwnOK(x, d) /\ TagOK(x, d) /\ (~Cancels /\ ~Shorts => DataOK(x, d))
<1>1. x.ch[d] = r.ch[d] /\ r.ch[d] \in RunState /\ r.next \in Nat /\ x.next \in Nat
  BY DEF FilesGood, FileState, Alone
<1>2. r.ch[d].at \in Steps => x.busy = r.busy /\ x.path = r.path
  BY DEF FilesGood, OwnOK, Alone
<1>3. OwnOK(x, d)
  <2>1. r.ch[d].ino # 0 => r.ch[d].ino < x.next
    <3>1. r.ch[d].ino # 0 => r.ch[d].ino < r.next
      BY DEF FilesGood, OwnOK
    <3>2. r.ch[d].ino \in Int
      BY <1>1 DEF RunState, Inodes
    <3> QED
      BY <1>1, <3>1, <3>2
  <2>2. OwnOK(r, d)
    BY DEF FilesGood
  <2>3. x.path = r.ch[d].ino /\ r.ch[d].ino # 0 => r.path = r.ch[d].ino
    BY DEF Alone
  <2>4. r.ch[d].at # "over" /\ r.ch[d].fd # 0 => x.fds[r.ch[d].fd] = r.fds[r.ch[d].fd]
    BY DEF Alone
  <2> QED
    BY <1>1, <1>2, <2>1, <2>2, <2>3, <2>4 DEF OwnOK
<1>4. TagOK(x, d)
  BY <1>1, <1>2 DEF FilesGood, TagOK, Steps
<1>5. ASSUME ~Cancels, ~Shorts PROVE DataOK(x, d)
  <2>1. DataOK(r, d)
    BY <1>5 DEF FilesGood
  <2>2. r.ch[d].ino # 0 => x.data[r.ch[d].ino] = r.data[r.ch[d].ino]
    BY <1>5 DEF Alone
  <2>3. Stored(x.ch[d]) = Stored(r.ch[d])
    BY <1>1
  <2> QED
    BY <1>1, <2>1, <2>2, <2>3 DEF DataOK, Holds
<1> QED
  BY <1>3, <1>4, <1>5

\* A step of c that makes no file keeps what is shared.
Tidies(r, x, c) ==
    /\ x.next = r.next /\ x.others = r.others
    /\ x.ch[c].ino = r.ch[c].ino /\ x.ch[c].fd = r.ch[c].fd
    /\ x.path \in {r.path, 0, r.ch[c].ino}
    /\ \A i \in Inodes : i >= r.next => x.data[i] = r.data[i]
    /\ x.tmp \subseteq r.tmp /\ \A d \in Fds : x.fds[d] \in {0, r.fds[d]}
    /\ x.ch[c].at = "over" => r.ch[c].at = "over" \/ (x.tmp \subseteq r.tmp \ {r.ch[c].ino}
                                                       /\ (r.ch[c].fd # 0 => x.fds[r.ch[c].fd] = 0))
    /\ r.ch[c].at = "over" => x.ch[c].at = "over"

\* Tidies is enough for the parts that are not about one channel.
LEMMA SharedKept ==
    ASSUME ReplaceAssumption, NEW r, FilesGood(r), NEW x \in FileState, NEW c \in Chans, Tidies(r, x, c),
           \A d \in Chans \ {c} : x.ch[d] = r.ch[d]
    PROVE  Counted(x) /\ Shared(x)
<1>1. \A d \in Chans : x.ch[d].ino = r.ch[d].ino /\ x.ch[d].fd = r.ch[d].fd
  BY DEF Tidies
<1>2. Made(x) = Made(r)
  BY <1>1 DEF Made
<1>3. Counted(x)
  BY <1>2 DEF FilesGood, Counted, Tidies
<1>4. x.path < x.next
  <2>1. Cardinality(Made(r)) \in Nat
    BY MadeCount
  <2>2. r.next > 0
    BY <2>1 DEF FilesGood, Counted, FileState
  <2>3. r.path < r.next /\ (r.ch[c].ino # 0 => r.ch[c].ino < r.next)
    BY DEF FilesGood, Shared, OwnOK
  <2> QED
    BY <2>2, <2>3 DEF Tidies
<1>5. \A a, b \in Chans : x.ch[a].ino = x.ch[b].ino /\ x.ch[a].ino # 0 => a = b
  BY <1>1 DEF FilesGood, Shared
<1>6. \A i \in Inodes : i >= x.next => x.data[i] = <<>>
  BY DEF FilesGood, Shared, Tidies
<1>7. ASSUME NEW i \in x.tmp PROVE \E b \in Chans : x.ch[b].at # "over" /\ x.ch[b].ino = i
  <2>1. i \in r.tmp
    BY DEF Tidies
  <2>2. PICK b \in Chans : r.ch[b].at # "over" /\ r.ch[b].ino = i
    BY <2>1 DEF FilesGood, Shared
  <2> QED
    BY <1>1, <2>2 DEF Tidies
<1>8. ASSUME NEW d \in Fds, x.fds[d] # 0 PROVE \E b \in Chans : x.ch[b].at # "over" /\ x.ch[b].fd = d
  <2>1. r.fds[d] # 0
    BY <1>8 DEF Tidies
  <2>2. PICK b \in Chans : r.ch[b].at # "over" /\ r.ch[b].fd = d
    BY <2>1 DEF FilesGood, Shared
  <2>3. d # 0
    BY DEF Fds
  <2> QED
    BY <1>1, <1>8, <2>2, <2>3 DEF Tidies
<1> QED
  BY <1>3, <1>4, <1>5, <1>6, <1>7, <1>8 DEF Shared

\* So a step is judged by what it does to its own channel.
LEMMA StepGood ==
    ASSUME ReplaceAssumption, NEW r, FilesGood(r), NEW x \in FileState, NEW c \in Chans, Tidies(r, x, c),
           Alone(r, x, c), OwnOK(x, c), TagOK(x, c), ~Cancels /\ ~Shorts => DataOK(x, c)
    PROVE  FilesGood(x)
<1>1. Counted(x) /\ Shared(x)
  BY SharedKept DEF Alone
<1>2. r.next <= x.next
  BY DEF Tidies, FilesGood, FileState
<1>3. ASSUME NEW d \in Chans PROVE OwnOK(x, d) /\ TagOK(x, d) /\ (~Cancels /\ ~Shorts => DataOK(x, d))
  BY <1>2, OthersKept
<1> QED
  BY <1>1, <1>3 DEF FilesGood

-----------------------------------------------------------------------------
\* A channel ends: y is r with the last changes of its run().
LEMMA EndsGood ==
    ASSUME ReplaceAssumption, NEW r, FilesGood(r), NEW c \in Chans, r.ch[c].at # "over",
           r.busy \in {{}, {c}}, NEW how \in How, NEW y \in FileState,
           y.next = r.next, y.data = r.data, y.fds = r.fds, y.tmp = r.tmp, y.others = r.others,
           \A d \in Chans \ {c} : y.ch[d] = r.ch[d],
           y.ch[c].fd = r.ch[c].fd, y.ch[c].ino = r.ch[c].ino, y.ch[c].n = r.ch[c].n,
           y.ch[c].tag = r.ch[c].tag, y.ch[c].job = r.ch[c].job, y.path \in {r.path, 0},
           ~Cancels /\ ~Shorts => r.ch[c].job \notin {"queued", "running"},
           how # "ok" => r.ch[c].at # "tell" /\ y.path = r.path,
           how = "ok" => /\ r.ch[c].at \in Steps
                         /\ r.ch[c].tag = 0 /\ r.ch[c].ino # 0 => y.ch[c].over = 0
                         /\ Others = 0 => /\ y.ch[c].told = r.ch[c].ino
                                          /\ r.ch[c].tag # ANY => y.ch[c].over = r.ch[c].tag
    PROVE  FilesGood(Ends(y, c, how))
<1> DEFINE h == y.ch[c]
           w == IF h.fd = 0 THEN y.fds ELSE [y.fds EXCEPT ![h.fd] = 0]
           t == y.tmp \ {h.ino}
           g == [h EXCEPT !.at = "over", !.end = how]
           k == [y.ch EXCEPT ![c] = g]
           x == [y EXCEPT !.fds = w, !.tmp = t, !.busy = {}, !.ch = k]
<1>1. Ends(y, c, how) = x
  BY ZenonT(60) DEF Ends, FileState, RunState
<1>2. r \in FileState /\ h \in RunState /\ r.ch[c] \in RunState
  BY DEF FilesGood, FileState
<1>3. /\ w \in [Fds -> Inodes \cup {0}] /\ t \in SUBSET Inodes /\ (h.fd # 0 => w[h.fd] = 0)
      /\ \A d \in Fds : w[d] \in {0, y.fds[d]} /\ (d # h.fd => w[d] = y.fds[d])
  <2>1. y.fds \in [Fds -> Inodes \cup {0}] /\ y.tmp \in SUBSET Inodes
    BY DEF FileState
  <2>2. h.fd \in Fds \cup {0} /\ 0 \notin Fds
    BY <1>2 DEF RunState, Fds
  <2> QED
    BY <2>1, <2>2
<1>4. t \subseteq r.tmp \ {r.ch[c].ino}
  OBVIOUS
<1>11. /\ g \in RunState /\ g.at = "over" /\ g.end = how
       /\ g.tag = h.tag /\ g.fd = h.fd /\ g.ino = h.ino /\ g.n = h.n
       /\ g.job = h.job /\ g.over = h.over /\ g.told = h.told
  BY <1>2 DEF RunState, Where
<1>12. k \in [Chans -> RunState] /\ k[c] = g /\ \A d \in Chans \ {c} : k[d] = y.ch[d]
  BY <1>11 DEF FileState
<1> HIDE DEF w, t, g, k
<1>5. /\ x \in FileState /\ x.path = y.path /\ x.next = y.next /\ x.data = y.data /\ x.fds = w
      /\ x.tmp = t /\ x.busy = {} /\ x.others = y.others
      /\ x.ch[c].at = "over" /\ x.ch[c].end = how
      /\ x.ch[c].tag = h.tag /\ x.ch[c].fd = h.fd /\ x.ch[c].ino = h.ino /\ x.ch[c].n = h.n
      /\ x.ch[c].job = h.job /\ x.ch[c].over = h.over /\ x.ch[c].told = h.told
      /\ \A d \in Chans \ {c} : x.ch[d] = y.ch[d]
  BY <1>3, <1>11, <1>12 DEF FileState
<1> HIDE DEF x
<1>6. Tidies(r, x, c)
  BY <1>3, <1>4, <1>5 DEF Tidies
<1>7. Alone(r, x, c)
  <2>1. ASSUME NEW d \in Chans \ {c}, r.ch[d].at # "over", r.ch[d].fd # 0
        PROVE  x.fds[r.ch[d].fd] = r.fds[r.ch[d].fd]
    <3>1. r.ch[d].fd \in Fds
      BY <1>2, <2>1 DEF FileState, RunState
    <3>2. r.fds[r.ch[d].fd] = r.ch[d].ino /\ r.ch[d].ino # 0
      BY <2>1 DEF FilesGood, OwnOK
    <3>3. r.ch[c].fd # 0 => r.fds[r.ch[c].fd] = r.ch[c].ino
      BY DEF FilesGood, OwnOK
    <3>4. r.ch[d].ino # r.ch[c].ino
      BY <3>2 DEF FilesGood, Shared
    <3>5. r.ch[d].fd # r.ch[c].fd
      BY <2>1, <3>2, <3>3, <3>4
    <3> QED
      BY <1>3, <1>5, <3>1, <3>5
  <2>2. ASSUME NEW d \in Chans \ {c} PROVE x.path = r.path \/ x.path # r.ch[d].ino \/ r.ch[d].ino = 0
    BY <1>5
  <2> QED
    BY <1>5, <2>1, <2>2 DEF Alone
<1>8. OwnOK(x, c)
  <2>1. OwnOK(r, c)
    BY DEF FilesGood
  <2>2. x.path = r.ch[c].ino /\ r.ch[c].ino # 0 => how = "ok"
    <3> SUFFICES ASSUME x.path = r.ch[c].ino, r.ch[c].ino # 0, how # "ok" PROVE FALSE
      OBVIOUS
    <3>1. r.path = r.ch[c].ino
      BY <1>5
    <3> QED
      BY <2>1, <3>1 DEF OwnOK
  <2>3. "over" \notin Steps
    BY DEF Steps
  <2> QED
    BY <1>5, <2>1, <2>2, <2>3 DEF OwnOK
<1>9. TagOK(x, c)
  BY <1>5 DEF TagOK
<1>10. ASSUME ~Cancels, ~Shorts PROVE DataOK(x, c)
  <2>1. DataOK(r, c)
    BY <1>10 DEF FilesGood
  <2>2. how = "ok" => Stored(r.ch[c]) = r.ch[c].n
    BY DEF Stored, Steps
  <2>3. Stored(x.ch[c]) = r.ch[c].n
    BY <1>5 DEF Stored
  <2>4. x.ch[c].job \notin {"queued", "running"}
    BY <1>5, <1>10
  <2>5. ASSUME r.ch[c].ino # 0, how = "ok" PROVE Holds(x, r.ch[c].ino, c, r.ch[c].n)
    <3>1. Holds(r, r.ch[c].ino, c, r.ch[c].n)
      BY <2>1, <2>2, <2>5 DEF DataOK
    <3>2. x.data = r.data
      BY <1>5
    <3> QED
      BY <3>1, <3>2 DEF Holds
  <2>6. x.ch[c].ino = r.ch[c].ino /\ x.ch[c].at = "over" /\ x.ch[c].end = how
    BY <1>5
  <2> QED
    BY <2>3, <2>4, <2>5, <2>6 DEF DataOK
<1> QED
  BY <1>1, <1>5, <1>6, <1>7, <1>8, <1>9, <1>10, StepGood

\* A step that changes nothing but the state of a run(), h before and g after it, and that
\* neither ends it nor has to do with the end of its set_contents().
Quiet(r, c, g, b) ==
    LET h == r.ch[c]
    IN  /\ g \in RunState /\ b \in SUBSET Chans /\ (b = r.busy \/ r.busy = {})
        /\ g.ino = h.ino /\ g.fd = h.fd /\ g.end = h.end /\ g.over = h.over /\ g.told = h.told
        /\ g.at = "over" <=> h.at = "over"
        /\ g.at = "tell" <=> h.at = "tell"
        /\ h.at \in {"tell", "over"} => g.tag = h.tag
        /\ h.ino = 0 => g.at \in {"new", "read", "unlink", "over"} /\ g.n = 0 /\ g.job = "none"
        /\ h.ino # 0 => g.at \notin {"new", "unlink"}
        /\ g.at \in Steps => b = {c}
        /\ g.at = "rename" => g.tag # 0
        /\ Others = 0 /\ g.at \in {"rename", "unlink"} /\ g.tag # ANY => r.path = g.tag
        /\ ~Cancels /\ ~Shorts => /\ g.job \in {"queued", "running"} => g.at \in {"write", "sync"}
                                  /\ Stored(g) = Stored(h)

\* Such a step keeps the invariant.
LEMMA QuietGood ==
    ASSUME ReplaceAssumption, NEW r, FilesGood(r), NEW c \in Chans, NEW g, NEW b, Quiet(r, c, g, b)
    PROVE  FilesGood([r EXCEPT !.ch = [r.ch EXCEPT ![c] = g], !.busy = b])
<1> DEFINE k == [r.ch EXCEPT ![c] = g]
           x == [r EXCEPT !.ch = k, !.busy = b]
<1>1. r \in FileState /\ r.ch[c] \in RunState /\ g \in RunState /\ b \in SUBSET Chans
  BY DEF FilesGood, FileState, Quiet
<1>2. k \in [Chans -> RunState] /\ k[c] = g /\ \A d \in Chans \ {c} : k[d] = r.ch[d]
  BY <1>1 DEF FileState
<1> HIDE DEF k
<1>3. /\ x \in FileState /\ x.path = r.path /\ x.next = r.next /\ x.data = r.data /\ x.fds = r.fds
      /\ x.tmp = r.tmp /\ x.busy = b /\ x.others = r.others /\ x.ch = k
  BY <1>1, <1>2 DEF FileState
<1>4. [r EXCEPT !.ch = [r.ch EXCEPT ![c] = g], !.busy = b] = x
  BY DEF k
<1> HIDE DEF x
<1>5. Tidies(r, x, c)
  BY <1>2, <1>3 DEF Tidies, Quiet
<1>6. Alone(r, x, c)
  BY <1>2, <1>3 DEF Alone, Quiet
<1>7. OwnOK(x, c)
  <2>1. OwnOK(r, c)
    BY DEF FilesGood
  <2> QED
    BY <1>2, <1>3, <2>1 DEF OwnOK, Quiet
<1>8. TagOK(x, c)
  <2>1. TagOK(r, c) /\ OwnOK(r, c)
    BY DEF FilesGood
  <2>2. g.end = "ok" => g.at = "over" /\ r.ch[c].end = "ok" /\ g.tag = r.ch[c].tag
    BY <2>1 DEF OwnOK, Quiet
  <2>3. g.at = "tell" => r.ch[c].at = "tell" /\ g.tag = r.ch[c].tag
    BY DEF Quiet
  <2>4. g.over = r.ch[c].over /\ g.told = r.ch[c].told /\ g.ino = r.ch[c].ino
        /\ (g.at = "rename" => g.tag # 0)
        /\ (Others = 0 /\ g.at \in {"rename", "unlink"} /\ g.tag # ANY => r.path = g.tag)
    BY DEF Quiet
  <2> QED
    BY <1>2, <1>3, <2>1, <2>2, <2>3, <2>4 DEF TagOK
<1>9. ASSUME ~Cancels, ~Shorts PROVE DataOK(x, c)
  <2>1. DataOK(r, c)
    BY <1>9 DEF FilesGood
  <2> QED
    BY <1>2, <1>3, <1>9, <2>1, ZenonT(60) DEF DataOK, Holds, Quiet
<1> QED
  BY <1>3, <1>4, <1>5, <1>6, <1>7, <1>8, <1>9, StepGood

\* The steps of that kind.
LEMMA OpenGood == ASSUME ReplaceAssumption, FilesGood(f), NEW c \in Chans, Open(c) PROVE FilesGood(f')
<1>1. PICK tag \in {ANY, 0, f.path} : f' = [f EXCEPT !.ch[c].at = "read", !.ch[c].tag = tag]
  BY DEF Open
<1> DEFINE h == f.ch[c]
           g == [h EXCEPT !.at = "read", !.tag = tag]
<1>2. f \in FileState /\ h \in RunState /\ OwnOK(f, c) /\ h.at = "new" /\ f.busy = {} /\ tag \in Inodes \cup {0, ANY}
  BY DEF FilesGood, FileState, Open, At, Loop
<1>3. /\ g \in RunState /\ g.at = "read" /\ g.ino = h.ino /\ g.fd = h.fd /\ g.end = h.end /\ g.over = h.over
      /\ g.told = h.told /\ g.n = h.n /\ g.job = h.job
  BY <1>2 DEF RunState, Where
<1>4. f' = [f EXCEPT !.ch = [f.ch EXCEPT ![c] = g], !.busy = f.busy]
  BY <1>1, <1>2 DEF FileState, RunState
<1> HIDE DEF g
<1>5. h.ino = 0 /\ h.n = 0 /\ h.job = "none"
  BY <1>2 DEF OwnOK
<1>6. Stored(g) = Stored(h)
  BY <1>2, <1>3 DEF Stored
<1>7. Quiet(f, c, g, f.busy)
  BY <1>2, <1>3, <1>5, <1>6 DEF Quiet, Steps, FileState
<1> QED
  BY <1>4, <1>7, QuietGood

\* The next message, or "done": a job is queued.
LEMMA AsksJobGood ==
    ASSUME ReplaceAssumption, FilesGood(f), NEW c \in Chans, More(c) \/ Done(c)
    PROVE  FilesGood(f')
<1> DEFINE h == f.ch[c]
           at == IF More(c) THEN "write" ELSE "sync"
           g == [h EXCEPT !.at = at, !.job = "queued"]
<1>1. at \in {"write", "sync"} /\ f' = [f EXCEPT !.ch[c].at = at, !.ch[c].job = "queued"]
  BY DEF More, Done
<1> HIDE DEF at
<1>2. f \in FileState /\ h \in RunState /\ h.at = "read" /\ f.busy = {} /\ h.ino # 0
  BY DEF FilesGood, FileState, More, Done, At, Loop
<1>3. /\ g \in RunState /\ g.at = at /\ g.ino = h.ino /\ g.fd = h.fd /\ g.end = h.end /\ g.over = h.over
      /\ g.told = h.told /\ g.n = h.n /\ g.job = "queued" /\ g.tag = h.tag
  BY <1>1, <1>2 DEF RunState, Where
<1>4. f' = [f EXCEPT !.ch = [f.ch EXCEPT ![c] = g], !.busy = f.busy]
  BY <1>1, <1>2 DEF FileState, RunState
<1> HIDE DEF g
<1>5. Stored(g) = Stored(h)
  BY <1>1, <1>2, <1>3 DEF Stored
<1>6. Quiet(f, c, g, f.busy)
  BY <1>1, <1>2, <1>3, <1>5 DEF Quiet, Steps, FileState
<1> QED
  BY <1>4, <1>6, QuietGood

\* A job is taken, or ends without having written.
LEMMA JobGood ==
    ASSUME ReplaceAssumption, NEW r, FilesGood(r), NEW c \in Chans, r.ch[c].job \in {"queued", "running"},
           NEW job \in {"running", "done"}, NEW bad \in BOOLEAN, NEW x,
           job = "done" /\ ~Cancels => bad \/ r.ch[c].at = "sync",
           x = [r EXCEPT !.ch = [r.ch EXCEPT ![c] = [r.ch[c] EXCEPT !.job = job, !.bad = bad]], !.busy = r.busy]
    PROVE  FilesGood(x)
<1> DEFINE h == r.ch[c]
           g == [h EXCEPT !.job = job, !.bad = bad]
<1>1. r \in FileState /\ h \in RunState /\ OwnOK(r, c) /\ TagOK(r, c) /\ (~Cancels /\ ~Shorts => DataOK(r, c))
  BY DEF FilesGood, FileState
<1>2. /\ g \in RunState /\ g.at = h.at /\ g.ino = h.ino /\ g.fd = h.fd /\ g.end = h.end /\ g.over = h.over
      /\ g.told = h.told /\ g.n = h.n /\ g.job = job /\ g.tag = h.tag /\ g.bad = bad
  BY <1>1 DEF RunState
<1>3. x = [r EXCEPT !.ch = [r.ch EXCEPT ![c] = g], !.busy = r.busy]
  OBVIOUS
<1> HIDE DEF g
<1>4. h.ino # 0
  BY <1>1 DEF OwnOK
<1>5. ~Cancels => Stored(g) = Stored(h)
  BY <1>2 DEF Stored
<1>6. Quiet(r, c, g, r.busy)
  <2>1. r.busy \in SUBSET Chans
    BY <1>1 DEF FileState
  <2>2. g.at \notin {"new", "unlink"} /\ (g.at \in Steps => r.busy = {c})
    BY <1>1, <1>2, <1>4 DEF OwnOK
  <2>3. (g.at = "rename" => g.tag # 0)
        /\ (Others = 0 /\ g.at \in {"rename", "unlink"} /\ g.tag # ANY => r.path = g.tag)
    BY <1>1, <1>2 DEF TagOK
  <2>4. ~Cancels /\ ~Shorts => h.at \in {"write", "sync"}
    BY <1>1 DEF DataOK
  <2> QED
    BY <1>2, <1>4, <1>5, <2>1, <2>2, <2>3, <2>4 DEF Quiet
<1>7. FilesGood([r EXCEPT !.ch = [r.ch EXCEPT ![c] = g], !.busy = r.busy])
  BY <1>6, QuietGood
<1> QED
  BY <1>3, <1>7

\* A thread takes the job.
LEMMA JobStartsGood == ASSUME ReplaceAssumption, FilesGood(f), NEW c \in Chans, JobStarts(c) PROVE FilesGood(f')
<1> DEFINE h == f.ch[c]
<1>1. f \in FileState /\ h \in RunState /\ h.job = "queued" /\ f' = [f EXCEPT !.ch[c].job = "running"]
  BY DEF FilesGood, FileState, JobStarts
<1>2. h.bad \in BOOLEAN
  BY <1>1 DEF RunState
<1>3. f' = [f EXCEPT !.ch = [f.ch EXCEPT ![c] = [f.ch[c] EXCEPT !.job = "running", !.bad = h.bad]], !.busy = f.busy]
  BY <1>1 DEF FileState, RunState
<1> QED
  BY <1>1, <1>2, <1>3, JobGood

\* The sync ends.
LEMMA JobSyncsGood == ASSUME ReplaceAssumption, FilesGood(f), NEW c \in Chans, JobSyncs(c) PROVE FilesGood(f')
<1> DEFINE h == f.ch[c]
<1>1. f \in FileState /\ h \in RunState /\ h.job = "running" /\ h.at = "sync"
  BY DEF FilesGood, FileState, JobSyncs, At
<1>2. PICK bad \in BOOLEAN : f' = [f EXCEPT !.ch[c].job = "done", !.ch[c].bad = bad]
  BY DEF JobSyncs
<1>3. f' = [f EXCEPT !.ch = [f.ch EXCEPT ![c] = [f.ch[c] EXCEPT !.job = "done", !.bad = bad]], !.busy = f.busy]
  BY <1>1, <1>2 DEF FileState, RunState
<1> QED
  BY <1>1, <1>3, JobGood

\* A job writes: unless its channel was cancelled, to that channel's file.
LEMMA JobWritesGood == ASSUME ReplaceAssumption, FilesGood(f), NEW c \in Chans, JobWrites(c) PROVE FilesGood(f')
<1> DEFINE h == f.ch[c]
           i == f.fds[h.fd]
<1>1. /\ f \in FileState /\ h \in RunState /\ h.job = "running" /\ h.at # "sync" /\ OwnOK(f, c) /\ TagOK(f, c)
      /\ ~Cancels /\ ~Shorts => DataOK(f, c)
  BY DEF FilesGood, FileState, JobWrites
<1>2. h.ino # 0 /\ h.fd \in Fds /\ i \in Inodes \cup {0}
  <2>1. h.ino # 0 /\ h.fd # 0
    BY <1>1 DEF OwnOK
  <2> QED
    BY <1>1, <2>1 DEF FileState, RunState
<1>3. \/ f' = [f EXCEPT !.ch[c].job = "done", !.ch[c].bad = TRUE]
      \/ \E what : /\ i # 0 /\ what \in {<<c, h.n + 1>>, <<c, 0>>} /\ (~Shorts => what = <<c, h.n + 1>>)
                   /\ f' = [f EXCEPT !.ch[c].job = "done", !.ch[c].bad = FALSE, !.data[i] = Append(@, what)]
  BY DEF JobWrites
<1>4. CASE f' = [f EXCEPT !.ch[c].job = "done", !.ch[c].bad = TRUE]
  <2>1. f' = [f EXCEPT !.ch = [f.ch EXCEPT ![c] = [f.ch[c] EXCEPT !.job = "done", !.bad = TRUE]], !.busy = f.busy]
    BY <1>1, <1>4 DEF FileState, RunState
  <2> QED
    BY <1>1, <2>1, JobGood
<1>5. ASSUME NEW what, i # 0, what \in {<<c, h.n + 1>>, <<c, 0>>}, ~Shorts => what = <<c, h.n + 1>>,
             f' = [f EXCEPT !.ch[c].job = "done", !.ch[c].bad = FALSE, !.data[i] = Append(@, what)]
      PROVE  FilesGood(f')
  <2> DEFINE q == f.data[i]
             w == Append(q, what)
             g == [h EXCEPT !.job = "done", !.bad = FALSE]
             k == [f.ch EXCEPT ![c] = g]
             e == [f.data EXCEPT ![i] = w]
             x == [f EXCEPT !.ch = k, !.data = e]
  <2>1. i \in Inodes /\ h.n \in Nat
    BY <1>1, <1>2, <1>5 DEF RunState
  <2>2. q \in Seq(Message) /\ what \in Message
    BY <1>1, <1>5, <2>1 DEF FileState, Message
  <2>3. w \in Seq(Message) /\ Len(w) = Len(q) + 1 /\ w[Len(q) + 1] = what /\ Len(q) \in Nat
        /\ \A j \in 1..Len(q) : w[j] = q[j]
    <3> HIDE DEF q
    <3> QED
      BY <2>2
  <2>4. f' = x
    BY <1>1, <1>5 DEF FileState, RunState
  <2> HIDE DEF w
  <2>5. /\ g \in RunState /\ g.at = h.at /\ g.ino = h.ino /\ g.fd = h.fd /\ g.end = h.end /\ g.over = h.over
        /\ g.told = h.told /\ g.n = h.n /\ g.job = "done" /\ g.tag = h.tag /\ g.bad = FALSE
    BY <1>1 DEF RunState
  <2> HIDE DEF g
  <2>6. k \in [Chans -> RunState] /\ k[c] = g /\ \A d \in Chans \ {c} : k[d] = f.ch[d]
    BY <1>1, <2>5 DEF FileState
  <2>7. e \in [Inodes -> Seq(Message)] /\ e[i] = w /\ \A j \in Inodes \ {i} : e[j] = f.data[j]
    BY <1>1, <2>1, <2>3 DEF FileState
  <2> HIDE DEF k, e
  <2>8. /\ x \in FileState /\ x.path = f.path /\ x.next = f.next /\ x.data = e /\ x.fds = f.fds
        /\ x.tmp = f.tmp /\ x.busy = f.busy /\ x.others = f.others /\ x.ch = k
    BY <1>1, <2>6, <2>7 DEF FileState
  <2> HIDE DEF x
  <2>9. i < f.next
    <3>1. PICK b \in Chans : f.ch[b].at # "over" /\ f.ch[b].fd = h.fd
      BY <1>2, <1>5 DEF FilesGood, Shared
    <3>2. h.fd # 0
      BY <1>2 DEF Fds
    <3>3. i = f.ch[b].ino
      BY <3>1, <3>2 DEF FilesGood, OwnOK
    <3> QED
      BY <1>5, <3>3 DEF FilesGood, OwnOK
  <2>10. ~Cancels /\ ~Shorts => i = h.ino /\ h.at = "write"
    <3>1. ~Cancels /\ ~Shorts => h.at = "write"
      BY <1>1 DEF DataOK
    <3>2. h.fd # 0
      BY <1>2 DEF Fds
    <3> QED
      BY <1>1, <3>1, <3>2 DEF OwnOK
  <2>11. Tidies(f, x, c)
    <3>1. \A j \in Inodes : j >= f.next => x.data[j] = f.data[j]
      <4>1. f.next \in Nat /\ \A j \in Inodes : j \in Nat
        BY <1>1 DEF FileState, Inodes
      <4> QED
        BY <2>1, <2>7, <2>8, <2>9, <4>1
    <3> QED
      BY <2>5, <2>6, <2>8, <3>1 DEF Tidies
  <2>12. Alone(f, x, c)
    <3>1. ASSUME NEW d \in Chans \ {c}, ~Cancels, ~Shorts, f.ch[d].ino # 0
          PROVE  x.data[f.ch[d].ino] = f.data[f.ch[d].ino]
      <4>1. f.ch[d].ino # h.ino
        BY <3>1 DEF FilesGood, Shared
      <4>2. f.ch[d].ino \in Inodes
        BY <1>1, <3>1 DEF FileState, RunState
      <4> QED
        BY <2>7, <2>8, <2>10, <3>1, <4>1, <4>2
    <3> QED
      BY <2>6, <2>8, <3>1 DEF Alone
  <2>13. OwnOK(x, c)
    BY <1>1, <1>2, <2>5, <2>6, <2>8 DEF OwnOK
  <2>14. TagOK(x, c)
    BY <1>1, <2>5, <2>6, <2>8 DEF TagOK
  <2>15. ASSUME ~Cancels, ~Shorts PROVE DataOK(x, c)
    <3>1. i = h.ino /\ h.at = "write" /\ what = <<c, h.n + 1>>
      BY <1>5, <2>10, <2>15
    <3>2. Stored(h) = h.n /\ Stored(g) = h.n + 1
      BY <1>1, <2>5, <3>1 DEF Stored
    <3>3. Holds(f, i, c, h.n)
      BY <1>1, <1>2, <2>15, <3>1, <3>2 DEF DataOK
    <3>4. Len(w) = h.n + 1 /\ \A j \in 1..h.n + 1 : w[j] = <<c, j>>
      <4>1. Len(q) = h.n /\ \A j \in 1..h.n : q[j] = <<c, j>>
        BY <3>3 DEF Holds
      <4>2. \A j \in 1..h.n + 1 : j = h.n + 1 \/ j \in 1..h.n
        BY <2>1
      <4> QED
        BY <2>3, <3>1, <4>1, <4>2
    <3>5. Holds(x, i, c, h.n + 1)
      BY <2>7, <2>8, <3>4 DEF Holds
    <3> QED
      BY <2>5, <2>6, <2>8, <3>1, <3>2, <3>5 DEF DataOK
  <2> QED
    BY <2>4, <2>8, <2>11, <2>12, <2>13, <2>14, <2>15, StepGood
<1> QED
  BY <1>3, <1>4, <1>5

\* set_contents() after a write.
LEMMA WrittenGood == ASSUME ReplaceAssumption, FilesGood(f), NEW c \in Chans, Written(c) PROVE FilesGood(f')
<1> DEFINE h == f.ch[c]
           n == h.n + 1
           g == [h EXCEPT !.at = "read", !.n = n, !.job = "none"]
<1>1. f \in FileState /\ h \in RunState /\ OwnOK(f, c) /\ f.busy = {} /\ h.at = "write" /\ h.job = "done"
  BY DEF FilesGood, FileState, Written, At, Loop
<1>2. h.n \in Nat /\ n \in Nat
  BY <1>1 DEF RunState
<1>3. CASE h.bad
  <2>1. FilesGood(Ends(f, c, "failed"))
    BY <1>1, EndsGood DEF How
  <2> QED
    BY <1>3, <2>1 DEF Written
<1>4. CASE ~h.bad
  <2>1. f' = [f EXCEPT !.ch[c].at = "read", !.ch[c].n = @ + 1, !.ch[c].job = "none"]
    BY <1>4 DEF Written
  <2>2. f' = [f EXCEPT !.ch = [f.ch EXCEPT ![c] = g], !.busy = f.busy]
    BY <1>1, <2>1 DEF FileState, RunState
  <2>3. n = h.n + 1
    OBVIOUS
  <2> HIDE DEF n
  <2>4. /\ g \in RunState /\ g.at = "read" /\ g.ino = h.ino /\ g.fd = h.fd /\ g.end = h.end /\ g.over = h.over
        /\ g.told = h.told /\ g.n = n /\ g.job = "none" /\ g.tag = h.tag
    BY <1>1, <1>2 DEF RunState, Where
  <2> HIDE DEF g
  <2>5. Stored(g) = Stored(h)
    BY <1>1, <1>4, <2>3, <2>4 DEF Stored
  <2>6. h.ino # 0
    BY <1>1 DEF OwnOK
  <2>7. Quiet(f, c, g, f.busy)
    BY <1>1, <2>4, <2>5, <2>6 DEF Quiet, Steps, FileState
  <2> QED
    BY <2>2, <2>7, QuietGood
<1> QED
  BY <1>3, <1>4

\* run() gets to its rename().
LEMMA ToRenameGood ==
    ASSUME ReplaceAssumption, FilesGood(f), NEW c \in Chans, f.busy = {}, f.ch[c].at = "sync",
           f.ch[c].job = "done", f.ch[c].tag # 0, Others = 0 /\ f.ch[c].tag # ANY => f.path = f.ch[c].tag
    PROVE  FilesGood([f EXCEPT !.ch[c].at = "rename", !.busy = {c}])
<1> DEFINE h == f.ch[c]
           g == [h EXCEPT !.at = "rename"]
<1>1. f \in FileState /\ h \in RunState /\ OwnOK(f, c)
  BY DEF FilesGood, FileState
<1>2. /\ g \in RunState /\ g.at = "rename" /\ g.ino = h.ino /\ g.fd = h.fd /\ g.end = h.end /\ g.over = h.over
      /\ g.told = h.told /\ g.n = h.n /\ g.job = "done" /\ g.tag = h.tag
  BY <1>1 DEF RunState, Where
<1>3. [f EXCEPT !.ch[c].at = "rename", !.busy = {c}] = [f EXCEPT !.ch = [f.ch EXCEPT ![c] = g], !.busy = {c}]
  BY <1>1 DEF FileState, RunState
<1> HIDE DEF g
<1>4. Stored(g) = Stored(h)
  BY <1>1, <1>2 DEF Stored
<1>5. h.ino # 0
  BY <1>1 DEF OwnOK
<1>6. Quiet(f, c, g, {c})
  BY <1>1, <1>2, <1>4, <1>5 DEF Quiet
<1> QED
  BY <1>3, <1>6, QuietGood

\* The file gets its name, by link() or rename().
LEMMA NamedGood ==
    ASSUME ReplaceAssumption, FilesGood(f), NEW c \in Chans, f.busy \in {{}, {c}},
           f.ch[c].at \in {"sync", "rename"},
           ~Cancels /\ ~Shorts => f.ch[c].job \notin {"queued", "running"},
           NEW over \in Inodes \cup {0}, f.ch[c].tag = 0 => over = 0,
           Others = 0 /\ f.ch[c].tag # ANY => over = f.ch[c].tag,
           NEW tmp \in SUBSET f.tmp
    PROVE  FilesGood([f EXCEPT !.ch = [f.ch EXCEPT ![c] = [f.ch[c] EXCEPT !.at = "tell", !.over = over]],
                          !.path = f.ch[c].ino, !.busy = {c}, !.tmp = tmp])
<1> DEFINE h == f.ch[c]
           g == [h EXCEPT !.at = "tell", !.over = over]
           k == [f.ch EXCEPT ![c] = g]
           x == [f EXCEPT !.ch = k, !.path = h.ino, !.busy = {c}, !.tmp = tmp]
<1>1. f \in FileState /\ h \in RunState /\ OwnOK(f, c) /\ TagOK(f, c) /\ (~Cancels /\ ~Shorts => DataOK(f, c))
  BY DEF FilesGood, FileState
<1>2. /\ g \in RunState /\ g.at = "tell" /\ g.ino = h.ino /\ g.fd = h.fd /\ g.end = h.end /\ g.over = over
      /\ g.told = h.told /\ g.n = h.n /\ g.job = h.job /\ g.tag = h.tag
  BY <1>1 DEF RunState, Where
<1> HIDE DEF g
<1>3. k \in [Chans -> RunState] /\ k[c] = g /\ \A d \in Chans \ {c} : k[d] = f.ch[d]
  BY <1>1, <1>2 DEF FileState
<1> HIDE DEF k
<1>4. h.ino # 0 /\ h.ino \in Inodes
  BY <1>1 DEF OwnOK, RunState
<1>5. /\ x \in FileState /\ x.path = h.ino /\ x.next = f.next /\ x.data = f.data /\ x.fds = f.fds
      /\ x.tmp = tmp /\ x.busy = {c} /\ x.others = f.others /\ x.ch = k
  BY <1>1, <1>3, <1>4 DEF FileState
<1> HIDE DEF x
<1>6. Tidies(f, x, c)
  BY <1>2, <1>3, <1>5 DEF Tidies
<1>7. \A d \in Chans \ {c} : f.ch[d].ino # h.ino
  BY <1>4 DEF FilesGood, Shared
<1>8. Alone(f, x, c)
  BY <1>3, <1>5, <1>7 DEF Alone
<1>9. OwnOK(x, c)
  BY <1>1, <1>2, <1>3, <1>4, <1>5 DEF OwnOK
<1>10. TagOK(x, c)
  <2>1. h.end # "ok"
    BY <1>1 DEF OwnOK
  <2> QED
    BY <1>2, <1>3, <1>5, <2>1 DEF TagOK
<1>11. ASSUME ~Cancels, ~Shorts PROVE DataOK(x, c)
  <2>1. Stored(h) = h.n /\ Stored(g) = h.n
    BY <1>2 DEF Stored
  <2> QED
    BY <1>1, <1>2, <1>3, <1>5, <1>11, <2>1, ZenonT(60) DEF DataOK, Holds
<1>12. FilesGood(x)
  BY <1>5, <1>6, <1>8, <1>9, <1>10, <1>11, StepGood
<1> QED
  BY <1>12 DEF x, k, g

\* The case distinction by the tag.
LEMMA SyncedGood == ASSUME ReplaceAssumption, FilesGood(f), NEW c \in Chans, Synced(c) PROVE FilesGood(f')
<1> DEFINE h == f.ch[c]
<1>1. f \in FileState /\ h \in RunState /\ f.busy = {} /\ h.at = "sync" /\ h.job = "done"
  BY DEF FilesGood, FileState, Synced, At, Loop
<1>2. \A how \in {"failed", "not-found", "change-conflict"} : FilesGood(Ends(f, c, how))
  BY <1>1, EndsGood DEF How
<1>3. ANY # 0
  BY DEF ANY
<1>4. CASE h.bad
  BY <1>2, <1>4 DEF Synced
<1>5. CASE ~h.bad /\ h.tag = ANY
  <2>1. FilesGood([f EXCEPT !.ch[c].at = "rename", !.busy = {c}])
    BY <1>1, <1>3, <1>5, ToRenameGood
  <2>2. f' = [f EXCEPT !.ch[c].at = "rename", !.busy = {c}]
    <3> HIDE DEF h
    <3>1. ~f.ch[c].bad /\ f.ch[c].tag = ANY /\ ~(f.ch[c].tag = 0)
      BY <1>3, <1>5 DEF h
    <3> QED
      BY <3>1 DEF Synced
  <2> QED
    BY <2>1, <2>2
<1>6. CASE ~h.bad /\ h.tag = 0
  <2>1. f' = Link(c)
    BY <1>3, <1>6 DEF Synced
  <2>2. CASE f.path # 0
    BY <1>2, <2>1, <2>2 DEF Link
  <2>3. CASE f.path = 0
    <3>1. Link(c) = [f EXCEPT !.ch = [f.ch EXCEPT ![c] = [f.ch[c] EXCEPT !.at = "tell", !.over = 0]],
                              !.path = f.ch[c].ino, !.busy = {c}, !.tmp = f.tmp]
      BY <1>1, <2>3, ZenonT(60) DEF Link, FileState, RunState
    <3>2. FilesGood([f EXCEPT !.ch = [f.ch EXCEPT ![c] = [f.ch[c] EXCEPT !.at = "tell", !.over = 0]],
                         !.path = f.ch[c].ino, !.busy = {c}, !.tmp = f.tmp])
      BY <1>1, <1>6, NamedGood
    <3> QED
      BY <2>1, <3>1, <3>2
  <2> QED
    BY <2>2, <2>3
<1>7. CASE ~h.bad /\ h.tag \notin {ANY, 0}
  <2>1. f' = Check(c)
    BY <1>7 DEF Synced
  <2>2. CASE f.path = h.tag /\ f.path # 0
    <3>1. FilesGood([f EXCEPT !.ch[c].at = "rename", !.busy = {c}])
      BY <1>1, <1>7, <2>2, ToRenameGood
    <3> QED
      BY <2>1, <2>2, <3>1 DEF Check
  <2>3. CASE f.path = 0
    BY <1>2, <2>1, <2>3 DEF Check
  <2>4. CASE f.path # 0 /\ f.path # h.tag
    BY <1>2, <2>1, <2>4 DEF Check
  <2> QED
    BY <2>2, <2>3, <2>4
<1> QED
  BY <1>4, <1>5, <1>6, <1>7

\* The rename() under a tag that was compared, or under none.
LEMMA RenameGood == ASSUME ReplaceAssumption, FilesGood(f), NEW c \in Chans, Rename(c) PROVE FilesGood(f')
<1> DEFINE h == f.ch[c]
<1>1. /\ f \in FileState /\ h \in RunState /\ h.at = "rename" /\ OwnOK(f, c) /\ TagOK(f, c)
      /\ ~Cancels /\ ~Shorts => DataOK(f, c)
  BY DEF FilesGood, FileState, Rename, At
<1>2. f.busy = {c} /\ h.tag # 0 /\ (Others = 0 /\ h.tag # ANY => f.path = h.tag)
  BY <1>1 DEF OwnOK, TagOK, Steps
<1>3. f.path \in Inodes \cup {0} /\ f.tmp \ {h.ino} \in SUBSET f.tmp
  BY <1>1 DEF FileState
<1>4. f' = [f EXCEPT !.ch = [f.ch EXCEPT ![c] = [f.ch[c] EXCEPT !.at = "tell", !.over = f.path]],
                     !.path = f.ch[c].ino, !.busy = {c}, !.tmp = f.tmp \ {h.ino}]
  BY <1>1, ZenonT(60) DEF Rename, FileState, RunState
<1>5. ~Cancels /\ ~Shorts => h.job \notin {"queued", "running"}
  BY <1>1 DEF DataOK
<1>6. FilesGood([f EXCEPT !.ch = [f.ch EXCEPT ![c] = [f.ch[c] EXCEPT !.at = "tell", !.over = f.path]],
                     !.path = f.ch[c].ino, !.busy = {c}, !.tmp = f.tmp \ {h.ino}])
  BY <1>1, <1>2, <1>3, <1>5, NamedGood
<1> QED
  BY <1>4, <1>6

\* delete(): the tag is compared.
LEMMA DeleteGood == ASSUME ReplaceAssumption, FilesGood(f), NEW c \in Chans, Delete(c) PROVE FilesGood(f')
<1> DEFINE h == f.ch[c]
           g == [h EXCEPT !.at = "unlink"]
<1>1. f \in FileState /\ h \in RunState /\ OwnOK(f, c) /\ f.busy = {} /\ h.at = "read" /\ h.ino = 0
  BY DEF FilesGood, FileState, Delete, At, Loop
<1>2. h.n = 0 /\ h.job = "none"
  BY <1>1 DEF OwnOK
<1>3. CASE h.tag \notin {ANY, f.path}
  <2>1. FilesGood(Ends(f, c, "change-conflict"))
    BY <1>1, <1>2, EndsGood DEF How
  <2> QED
    BY <1>3, <2>1 DEF Delete
<1>4. CASE h.tag \in {ANY, f.path}
  <2>1. f' = [f EXCEPT !.ch[c].at = "unlink", !.busy = {c}]
    BY <1>4 DEF Delete
  <2>2. f' = [f EXCEPT !.ch = [f.ch EXCEPT ![c] = g], !.busy = {c}]
    BY <1>1, <2>1 DEF FileState, RunState
  <2>3. /\ g \in RunState /\ g.at = "unlink" /\ g.ino = h.ino /\ g.fd = h.fd /\ g.end = h.end /\ g.over = h.over
        /\ g.told = h.told /\ g.n = h.n /\ g.job = h.job /\ g.tag = h.tag
    BY <1>1 DEF RunState, Where
  <2> HIDE DEF g
  <2>4. Stored(g) = Stored(h)
    BY <1>1, <2>3 DEF Stored
  <2>5. Quiet(f, c, g, {c})
    BY <1>1, <1>2, <1>4, <2>3, <2>4 DEF Quiet
  <2> QED
    BY <2>2, <2>5, QuietGood
<1> QED
  BY <1>3, <1>4

\* A channel succeeds.
LEMMA OkGood ==
    ASSUME ReplaceAssumption, FilesGood(f), NEW c \in Chans, f.ch[c].at \in Steps,
           ~Cancels /\ ~Shorts => f.ch[c].job \notin {"queued", "running"},
           NEW path \in {f.path, 0}, NEW over \in Inodes \cup {0}, NEW told \in Inodes \cup {0},
           f.ch[c].tag = 0 /\ f.ch[c].ino # 0 => over = 0,
           Others = 0 => told = f.ch[c].ino /\ (f.ch[c].tag # ANY => over = f.ch[c].tag)
    PROVE  FilesGood(Ends([f EXCEPT !.ch = [f.ch EXCEPT ![c] = [f.ch[c] EXCEPT !.over = over, !.told = told]],
                               !.path = path], c, "ok"))
<1> DEFINE h == f.ch[c]
           g == [h EXCEPT !.over = over, !.told = told]
           k == [f.ch EXCEPT ![c] = g]
           y == [f EXCEPT !.ch = k, !.path = path]
<1>1. f \in FileState /\ h \in RunState /\ OwnOK(f, c)
  BY DEF FilesGood, FileState
<1>2. /\ g \in RunState /\ g.at = h.at /\ g.ino = h.ino /\ g.fd = h.fd /\ g.end = h.end /\ g.over = over
      /\ g.told = told /\ g.n = h.n /\ g.job = h.job /\ g.tag = h.tag
  BY <1>1 DEF RunState
<1> HIDE DEF g
<1>3. k \in [Chans -> RunState] /\ k[c] = g /\ \A d \in Chans \ {c} : k[d] = f.ch[d]
  BY <1>1, <1>2 DEF FileState
<1> HIDE DEF k
<1>4. path \in Inodes \cup {0}
  BY <1>1 DEF FileState
<1>5. /\ y \in FileState /\ y.path = path /\ y.next = f.next /\ y.data = f.data /\ y.fds = f.fds
      /\ y.tmp = f.tmp /\ y.busy = f.busy /\ y.others = f.others /\ y.ch = k
  BY <1>1, <1>3, <1>4 DEF FileState
<1> HIDE DEF y
<1>6. h.at # "over" /\ f.busy = {c}
  BY <1>1 DEF OwnOK, Steps
<1>7. /\ \A d \in Chans \ {c} : y.ch[d] = f.ch[d]
      /\ y.ch[c].fd = h.fd /\ y.ch[c].ino = h.ino /\ y.ch[c].n = h.n /\ y.ch[c].tag = h.tag
      /\ y.ch[c].job = h.job /\ y.ch[c].over = over /\ y.ch[c].told = told /\ y.path \in {f.path, 0}
  BY <1>2, <1>3, <1>5
<1>8. "ok" \in How
  BY DEF How
<1>9. FilesGood(Ends(y, c, "ok"))
  BY <1>5, <1>6, <1>7, <1>8, EndsGood
<1> QED
  BY <1>9 DEF y, k, g

\* unlink() of the file that the tag stands for, unless another process came between.
LEMMA UnlinkGood == ASSUME ReplaceAssumption, FilesGood(f), NEW c \in Chans, Unlink(c) PROVE FilesGood(f')
<1> DEFINE h == f.ch[c]
<1>1. f \in FileState /\ h \in RunState /\ h.at = "unlink" /\ OwnOK(f, c) /\ TagOK(f, c)
  BY DEF FilesGood, FileState, Unlink, At
<1>2. h.ino = 0 /\ h.job = "none" /\ h.at \in Steps
  BY <1>1 DEF OwnOK, Steps
<1>3. Others = 0 /\ h.tag # ANY => f.path = h.tag
  BY <1>1 DEF TagOK
<1>4. f.path \in Inodes \cup {0}
  BY <1>1 DEF FileState
<1>5. f' = Ends([f EXCEPT !.ch[c].over = f.path, !.path = 0, !.ch[c].told = 0], c, "ok")
  BY DEF Unlink
<1>6. [f EXCEPT !.ch[c].over = f.path, !.path = 0, !.ch[c].told = 0]
        = [f EXCEPT !.ch = [f.ch EXCEPT ![c] = [f.ch[c] EXCEPT !.over = f.path, !.told = 0]], !.path = 0]
  BY <1>1 DEF FileState, RunState
<1>7. FilesGood(Ends([f EXCEPT !.ch = [f.ch EXCEPT ![c] = [f.ch[c] EXCEPT !.over = f.path, !.told = 0]],
                          !.path = 0], c, "ok"))
  BY <1>2, <1>3, <1>4, OkGood, ZenonT(60)
<1> QED
  BY <1>5, <1>6, <1>7

\* The tag of the file that is there by now is returned.
LEMMA TellGood == ASSUME ReplaceAssumption, FilesGood(f), NEW c \in Chans, Tell(c) PROVE FilesGood(f')
<1> DEFINE h == f.ch[c]
<1>1. /\ f \in FileState /\ h \in RunState /\ h.at = "tell" /\ OwnOK(f, c) /\ TagOK(f, c)
      /\ ~Cancels /\ ~Shorts => DataOK(f, c)
  BY DEF FilesGood, FileState, Tell, At
<1>2. h.at \in Steps /\ (~Cancels /\ ~Shorts => h.job \notin {"queued", "running"})
  BY <1>1 DEF DataOK, Steps
<1>3. /\ h.tag = 0 /\ h.ino # 0 => h.over = 0
      /\ Others = 0 => f.path = h.ino /\ (h.tag # ANY => h.over = h.tag)
  BY <1>1 DEF TagOK
<1>4. f.path \in Inodes \cup {0} /\ h.over \in Inodes \cup {0}
  BY <1>1 DEF FileState, RunState
<1>5. f' = Ends([f EXCEPT !.ch[c].told = f.path], c, "ok")
  BY DEF Tell
<1>6. [f EXCEPT !.ch[c].told = f.path]
        = [f EXCEPT !.ch = [f.ch EXCEPT ![c] = [f.ch[c] EXCEPT !.over = h.over, !.told = f.path]],
                    !.path = f.path]
  BY <1>1 DEF FileState, RunState
<1>7. FilesGood(Ends([f EXCEPT !.ch = [f.ch EXCEPT ![c] = [f.ch[c] EXCEPT !.over = h.over, !.told = f.path]],
                          !.path = f.path], c, "ok"))
  BY <1>2, <1>3, <1>4, OkGood
<1> QED
  BY <1>5, <1>6, <1>7

\* mkstemp() fails.
LEMMA BeginFailsGood == ASSUME ReplaceAssumption, FilesGood(f), NEW c \in Chans, BeginFails(c) PROVE FilesGood(f')
<1>1. /\ f \in FileState /\ f.ch[c].at = "read" /\ f.ch[c].ino = 0 /\ OwnOK(f, c) /\ f.busy = {}
      /\ f' = Ends(f, c, "failed")
  BY DEF FilesGood, BeginFails, At, Loop
<1>2. f.ch[c].job = "none"
  BY <1>1 DEF OwnOK
<1>3. FilesGood(Ends(f, c, "failed"))
  BY <1>1, <1>2, EndsGood DEF How
<1> QED
  BY <1>1, <1>3

\* The channel is closed; a write that a thread has taken goes on.
LEMMA CancelGood == ASSUME ReplaceAssumption, FilesGood(f), NEW c \in Chans, Cancel(c) PROVE FilesGood(f')
<1> DEFINE e == Ends(f, c, "cancelled")
           h == f.ch[c]
           j == IF e.ch[c].job = "running" /\ h.at = "write" THEN e.ch[c].job ELSE "none"
           g == [e.ch[c] EXCEPT !.job = j]
<1>1. Cancels /\ f \in FileState /\ h \in RunState /\ OwnOK(f, c) /\ f.busy = {} /\ h.at \in {"read", "write", "sync"}
  BY DEF FilesGood, FileState, Cancel, Loop
<1>2. FilesGood(e)
  BY <1>1, EndsGood DEF How
<1>3. f' = [e EXCEPT !.ch[c].job = j]
  BY DEF Cancel, At
<1>4. e.ch[c].at = "over" /\ e.ch[c].ino = h.ino /\ e.ch[c].job = h.job /\ e.busy = {}
  BY <1>1 DEF Ends, FileState, RunState
<1> HIDE DEF e
<1>5. e \in FileState /\ e.ch[c] \in RunState /\ OwnOK(e, c)
  BY <1>2 DEF FilesGood, FileState
<1>6. j \in {"none", "running"} /\ (h.ino = 0 => j = "none")
  BY <1>1, <1>4 DEF OwnOK
<1> HIDE DEF j
<1>7. f' = [e EXCEPT !.ch = [e.ch EXCEPT ![c] = g], !.busy = e.busy]
  BY <1>3, <1>5 DEF FileState, RunState
<1>8. /\ g \in RunState /\ g.at = "over" /\ g.ino = e.ch[c].ino /\ g.fd = e.ch[c].fd /\ g.end = e.ch[c].end
      /\ g.over = e.ch[c].over /\ g.told = e.ch[c].told /\ g.n = e.ch[c].n /\ g.job = j
      /\ g.tag = e.ch[c].tag
  BY <1>4, <1>5, <1>6 DEF RunState
<1> HIDE DEF g
<1>9. Quiet(e, c, g, e.busy)
  <2>1. e.ch[c].ino = 0 => g.n = 0 /\ g.job = "none"
    BY <1>4, <1>5, <1>6, <1>8 DEF OwnOK
  <2> QED
    BY <1>1, <1>4, <1>5, <1>8, <2>1 DEF Quiet, Steps, FileState
<1> QED
  BY <1>2, <1>7, <1>9, QuietGood

\* mkstemp() gives a new inode, and the lowest file descriptor that is free.
LEMMA BeginGood == ASSUME ReplaceAssumption, FilesGood(f), NEW c \in Chans, Begin(c) PROVE FilesGood(f')
<1> DEFINE h == f.ch[c]
           fd == Min({d \in Fds : f.fds[d] = 0})
           i == f.next
           n == i + 1
           g == [h EXCEPT !.fd = fd, !.ino = i, !.at = "write", !.job = "queued"]
           k == [f.ch EXCEPT ![c] = g]
           w == [f.fds EXCEPT ![fd] = i]
           t == f.tmp \cup {i}
           x == [path |-> f.path, next |-> n, data |-> f.data, fds |-> w, tmp |-> t,
                 busy |-> f.busy, others |-> f.others, ch |-> k]
<1>1. f \in FileState /\ h \in RunState /\ OwnOK(f, c) /\ f.busy = {} /\ h.at = "read" /\ h.ino = 0
  BY DEF FilesGood, FileState, Begin, At, Loop
<1>2. h.n = 0 /\ h.end # "ok" /\ h.fd = 0
  BY <1>1 DEF OwnOK
<1>3. i \in Inodes /\ i \in Nat /\ i # 0
  <2>1. c \in Chans \ Made(f)
    BY <1>1 DEF Made
  <2> QED
    BY <2>1, NextInode DEF Inodes
<1>4. fd \in Fds /\ f.fds[fd] = 0
  BY <1>1, FreeFd
<1>5. f' = x
  <2>1. f' = [f EXCEPT !.next = @ + 1, !.fds[fd] = f.next, !.tmp = @ \cup {f.next},
                       !.ch[c].fd = fd, !.ch[c].ino = f.next, !.ch[c].at = "write", !.ch[c].job = "queued"]
    BY DEF Begin
  <2> HIDE DEF fd
  <2>2. f \in FileState
    BY <1>1
  <2>3. /\ f'.path = f.path /\ f'.next = n /\ f'.data = f.data /\ f'.fds = w /\ f'.tmp = t
        /\ f'.busy = f.busy /\ f'.others = f.others
    BY <2>1, <2>2 DEF FileState
  <2>4. f'.ch = k
    BY <1>1, <2>1, SMTT(30) DEF FileState, RunState
  <2>5. f' = [path |-> f'.path, next |-> f'.next, data |-> f'.data, fds |-> f'.fds, tmp |-> f'.tmp,
              busy |-> f'.busy, others |-> f'.others, ch |-> f'.ch]
    BY <2>1, <2>2 DEF FileState
  <2> QED
    <3> HIDE DEF n, w, t, k
    <3> QED
      BY <2>3, <2>4, <2>5
<1>6. n \in Nat /\ n = i + 1 /\ t \in SUBSET Inodes /\ fd # 0
  <2> HIDE DEF fd
  <2> QED
    BY <1>1, <1>3, <1>4 DEF FileState, Fds
<1> HIDE DEF fd, n, t
<1>7. /\ g \in RunState /\ g.at = "write" /\ g.ino = i /\ g.fd = fd /\ g.end = h.end /\ g.over = h.over
      /\ g.told = h.told /\ g.n = 0 /\ g.job = "queued" /\ g.tag = h.tag
  BY <1>1, <1>2, <1>3, <1>4 DEF RunState, Where
<1> HIDE DEF g
<1>8. k \in [Chans -> RunState] /\ k[c] = g /\ \A d \in Chans \ {c} : k[d] = f.ch[d]
  BY <1>1, <1>7 DEF FileState
<1>9. w \in [Fds -> Inodes \cup {0}] /\ w[fd] = i /\ \A d \in Fds \ {fd} : w[d] = f.fds[d]
  BY <1>1, <1>3, <1>4 DEF FileState
<1> HIDE DEF k, w
<1>10. /\ x \in FileState /\ x.path = f.path /\ x.next = n /\ x.data = f.data /\ x.fds = w
       /\ x.tmp = t /\ x.busy = {} /\ x.others = f.others /\ x.ch = k
  BY <1>1, <1>6, <1>8, <1>9 DEF FileState
<1> HIDE DEF x
<1>11. \A d \in Chans : /\ f.ch[d].ino # 0 => f.ch[d].ino < i /\ f.ch[d].ino \in Nat
                        /\ f.ch[d].ino # i
  <2>1. \A d \in Chans : f.ch[d].ino \in Nat
    BY <1>1 DEF FileState, RunState, Inodes
  <2>2. \A d \in Chans : f.ch[d].ino # 0 => f.ch[d].ino < i
    BY DEF FilesGood, OwnOK
  <2> QED
    BY <1>3, <2>1, <2>2
<1>12. Counted(x)
  <2>1. Made(x) = Made(f) \cup {c} /\ c \notin Made(f)
    <3>1. c \in Made(x) /\ c \notin Made(f)
      BY <1>1, <1>3, <1>7, <1>8, <1>10 DEF Made
    <3>2. \A d \in Chans \ {c} : d \in Made(x) <=> d \in Made(f)
      BY <1>8, <1>10 DEF Made
    <3>3. Made(x) \subseteq Chans /\ Made(f) \subseteq Chans
      BY DEF Made
    <3> QED
      BY <3>1, <3>2, <3>3
  <2>2. IsFiniteSet(Made(f)) /\ Cardinality(Made(f)) \in Nat
    BY MadeCount
  <2>3. Cardinality(Made(x)) = Cardinality(Made(f)) + 1
    BY <2>1, <2>2, FS_AddElement
  <2>4. f.others <= Others /\ i = 2 + f.others + Cardinality(Made(f)) /\ f.others \in Nat
    BY <1>1 DEF FilesGood, Counted, FileState
  <2> QED
    BY <1>6, <1>10, <2>2, <2>3, <2>4 DEF Counted
<1>13. Shared(x)
  <2>1. x.path < x.next
    <3>1. f.path < i /\ f.path \in Nat
      BY <1>1 DEF FilesGood, Shared, FileState, Inodes
    <3> QED
      BY <1>3, <1>6, <1>10, <3>1
  <2>2. \A a, b \in Chans : x.ch[a].ino = x.ch[b].ino /\ x.ch[a].ino # 0 => a = b
    <3>1. \A a, b \in Chans \ {c} : f.ch[a].ino = f.ch[b].ino /\ f.ch[a].ino # 0 => a = b
      BY DEF FilesGood, Shared
    <3> QED
      BY <1>7, <1>8, <1>10, <1>11, <3>1
  <2>3. \A j \in Inodes : j >= x.next => x.data[j] = <<>>
    <3>1. \A j \in Inodes : j >= n => j >= i
      BY <1>3, <1>6 DEF Inodes
    <3> QED
      BY <1>10, <3>1 DEF FilesGood, Shared
  <2>4. ASSUME NEW j \in x.tmp PROVE \E b \in Chans : x.ch[b].at # "over" /\ x.ch[b].ino = j
    <3>1. CASE j = i
      BY <1>7, <1>8, <1>10, <3>1
    <3>2. CASE j # i
      <4>1. j \in f.tmp
        BY <1>10, <2>4, <3>2 DEF t
      <4>2. PICK b \in Chans : f.ch[b].at # "over" /\ f.ch[b].ino = j
        BY <4>1 DEF FilesGood, Shared
      <4>3. b # c
        <5>1. j # 0
          BY <1>1, <4>1 DEF FileState, Inodes
        <5> QED
          BY <1>1, <4>2, <5>1
      <4> QED
        BY <1>8, <1>10, <4>2, <4>3
    <3> QED
      BY <3>1, <3>2
  <2>5. ASSUME NEW d \in Fds, x.fds[d] # 0 PROVE \E b \in Chans : x.ch[b].at # "over" /\ x.ch[b].fd = d
    <3>1. CASE d = fd
      BY <1>7, <1>8, <1>10, <3>1
    <3>2. CASE d # fd
      <4>1. f.fds[d] # 0
        BY <1>9, <1>10, <2>5, <3>2
      <4>2. PICK b \in Chans : f.ch[b].at # "over" /\ f.ch[b].fd = d
        BY <4>1 DEF FilesGood, Shared
      <4>3. b # c
        BY <1>2, <4>2 DEF Fds
      <4> QED
        BY <1>8, <1>10, <4>2, <4>3
    <3> QED
      BY <3>1, <3>2
  <2> QED
    BY <2>1, <2>2, <2>3, <2>4, <2>5 DEF Shared
<1>14. Alone(f, x, c)
  <2>1. ASSUME NEW d \in Chans \ {c}, f.ch[d].at # "over", f.ch[d].fd # 0
        PROVE  x.fds[f.ch[d].fd] = f.fds[f.ch[d].fd]
    <3>1. f.ch[d].fd \in Fds
      BY <1>1, <2>1 DEF FileState, RunState
    <3>2. f.fds[f.ch[d].fd] # 0
      BY <2>1 DEF FilesGood, OwnOK
    <3> QED
      BY <1>4, <1>9, <1>10, <3>1, <3>2
  <2> QED
    BY <1>1, <1>8, <1>10, <2>1 DEF Alone
<1>15. OwnOK(x, c)
  <2>1. f.path # i
    BY <1>1, <1>3 DEF FilesGood, Shared, FileState, Inodes
  <2>2. i < n
    BY <1>3, <1>6
  <2> QED
    BY <1>2, <1>3, <1>6, <1>7, <1>8, <1>9, <1>10, <2>1, <2>2 DEF OwnOK, Steps
<1>16. TagOK(x, c)
  BY <1>2, <1>7, <1>8, <1>10 DEF TagOK
<1>17. DataOK(x, c)
  <2>1. f.data[i] = <<>>
    BY <1>3 DEF FilesGood, Shared
  <2>2. Holds(x, i, c, 0)
    BY <1>10, <2>1 DEF Holds
  <2>3. Stored(g) = 0
    BY <1>7 DEF Stored
  <2> QED
    BY <1>7, <1>8, <1>10, <2>2, <2>3 DEF DataOK
<1>18. f.next <= x.next
  BY <1>3, <1>6, <1>10
<1>19. ASSUME NEW d \in Chans PROVE OwnOK(x, d) /\ TagOK(x, d) /\ (~Cancels /\ ~Shorts => DataOK(x, d))
  BY <1>10, <1>14, <1>15, <1>16, <1>17, <1>18, OthersKept
<1> QED
  BY <1>5, <1>10, <1>12, <1>13, <1>19 DEF FilesGood

\* Another process replaces the file by one that is no channel's.
LEMMA OtherReplacesGood == ASSUME ReplaceAssumption, FilesGood(f), OtherReplaces PROVE FilesGood(f')
<1> DEFINE i == f.next
           n == i + 1
           m == f.others + 1
           x == [f EXCEPT !.others = m, !.path = i, !.next = n]
<1>1. f \in FileState /\ f.others < Others /\ f' = x /\ Others \in Nat /\ f.others \in Nat
  BY DEF FilesGood, FileState, OtherReplaces, ReplaceAssumption
<1>2. i \in Inodes /\ i \in Nat
  BY <1>1, NextInode DEF Inodes
<1>3. n \in Nat /\ m \in Nat /\ n = i + 1 /\ m = f.others + 1
  BY <1>1, <1>2
<1> HIDE DEF n, m
<1>4. /\ x \in FileState /\ x.path = i /\ x.next = n /\ x.data = f.data /\ x.fds = f.fds
      /\ x.tmp = f.tmp /\ x.busy = f.busy /\ x.others = m /\ x.ch = f.ch
  BY <1>1, <1>2, <1>3 DEF FileState
<1> HIDE DEF x
<1>5. Counted(x)
  <2>1. Made(x) = Made(f) /\ Cardinality(Made(f)) \in Nat
    BY <1>4, MadeCount DEF Made
  <2>2. i = 2 + f.others + Cardinality(Made(f))
    BY DEF FilesGood, Counted
  <2> QED
    BY <1>1, <1>3, <1>4, <2>1, <2>2 DEF Counted
<1>6. Shared(x)
  <2>1. \A j \in Inodes : j >= n => j >= i
    BY <1>2, <1>3 DEF Inodes
  <2>2. i < n
    BY <1>2, <1>3
  <2> QED
    BY <1>4, <2>1, <2>2 DEF FilesGood, Shared
<1>7. Others # 0
  BY <1>1
<1>8. ASSUME NEW c \in Chans PROVE OwnOK(x, c) /\ TagOK(x, c) /\ (~Cancels /\ ~Shorts => DataOK(x, c))
  <2>1. OwnOK(f, c) /\ TagOK(f, c) /\ (~Cancels /\ ~Shorts => DataOK(f, c))
    BY DEF FilesGood
  <2>2. f.ch[c].ino \in Nat
    BY <1>1 DEF FileState, RunState, Inodes
  <2>3. f.ch[c].ino # 0 => f.ch[c].ino < i
    BY <2>1 DEF OwnOK
  <2>4. f.ch[c].ino # 0 => f.ch[c].ino < n /\ f.ch[c].ino # i
    BY <1>2, <1>3, <2>2, <2>3
  <2>5. OwnOK(x, c)
    BY <1>4, <2>1, <2>4 DEF OwnOK
  <2>6. TagOK(x, c)
    BY <1>4, <1>7, <2>1 DEF TagOK
  <2>7. ~Cancels /\ ~Shorts => DataOK(x, c)
    BY <1>4, <2>1 DEF DataOK, Holds
  <2> QED
    BY <2>5, <2>6, <2>7
<1> QED
  BY <1>1, <1>4, <1>5, <1>6, <1>8 DEF FilesGood

-----------------------------------------------------------------------------
\* The first state: an old file, and channels that have not begun.
LEMMA FirstGood == ASSUME ReplaceAssumption, ReplaceInit PROVE FilesGood(f)
<1> DEFINE h == [at |-> "new", tag |-> ANY, fd |-> 0, ino |-> 0, n |-> 0, job |-> "none",
                 bad |-> FALSE, over |-> 0, told |-> ANY, end |-> ""]
           k == [c \in Chans |-> h]
           e == [i \in Inodes |-> <<>>]
           w == [d \in Fds |-> 0]
<1>1. /\ h \in RunState /\ h.at = "new" /\ h.tag = ANY /\ h.fd = 0 /\ h.ino = 0 /\ h.n = 0 /\ h.job = "none"
      /\ h.over = 0 /\ h.told = ANY /\ h.end = ""
  BY DEF RunState, Where, How
<1>2. f = [path |-> 1, next |-> 2, data |-> e, fds |-> w, tmp |-> {}, busy |-> {}, others |-> 0, ch |-> k]
  BY DEF ReplaceInit
<1> HIDE DEF h
<1>3. k \in [Chans -> RunState] /\ \A c \in Chans : k[c] = h
  BY <1>1
<1>4. e \in [Inodes -> Seq(Message)] /\ \A i \in Inodes : e[i] = <<>>
  OBVIOUS
<1>5. w \in [Fds -> Inodes \cup {0}] /\ \A d \in Fds : w[d] = 0
  OBVIOUS
<1>6. Cardinality(Chans) \in Nat /\ Others \in Nat /\ 1 \in Inodes
  <2>1. Cardinality(Chans) \in Nat /\ Others \in Nat
    BY MadeCount DEF ReplaceAssumption
  <2> QED
    BY <2>1 DEF Inodes
<1> HIDE DEF k, e, w
<1>7. /\ f \in FileState /\ f.path = 1 /\ f.next = 2 /\ f.data = e /\ f.fds = w /\ f.tmp = {}
      /\ f.busy = {} /\ f.others = 0 /\ f.ch = k
  BY <1>2, <1>3, <1>4, <1>5, <1>6 DEF FileState
<1>8. Counted(f)
  <2>1. Made(f) = {}
    BY <1>1, <1>3, <1>7 DEF Made
  <2>2. Cardinality(Made(f)) = 0
    BY <2>1, FS_EmptySet
  <2> QED
    BY <1>6, <1>7, <2>2 DEF Counted
<1>9. Shared(f)
  <2>1. \A c \in Chans : f.ch[c].ino = 0
    BY <1>1, <1>3, <1>7
  <2>2. \A i \in Inodes : f.data[i] = <<>>
    BY <1>4, <1>7
  <2>3. \A d \in Fds : f.fds[d] = 0
    BY <1>5, <1>7
  <2>4. f.path < f.next
    BY <1>7
  <2> QED
    BY <1>7, <2>1, <2>2, <2>3, <2>4 DEF Shared
<1>10. ASSUME NEW c \in Chans PROVE OwnOK(f, c) /\ TagOK(f, c) /\ DataOK(f, c)
  <2>1. f.ch[c] = h
    BY <1>3, <1>7
  <2>2. OwnOK(f, c)
    BY <1>1, <2>1 DEF OwnOK, Steps
  <2>3. TagOK(f, c)
    BY <1>1, <2>1 DEF TagOK
  <2>4. DataOK(f, c)
    BY <1>1, <2>1 DEF DataOK
  <2> QED
    BY <2>2, <2>3, <2>4
<1> QED
  BY <1>7, <1>8, <1>9, <1>10 DEF FilesGood

\* The invariant is inductive.
LEMMA EveryStepGood == ASSUME ReplaceAssumption, FilesGood(f), [ReplaceNext]_f PROVE FilesGood(f')
<1>1. CASE UNCHANGED f
  BY <1>1
<1>2. CASE OtherReplaces
  BY <1>2, OtherReplacesGood
<1>3. ASSUME NEW c \in Chans,
             \/ Open(c) \/ Begin(c) \/ BeginFails(c) \/ More(c) \/ Written(c) \/ Done(c) \/ Synced(c) \/ Rename(c)
             \/ Delete(c) \/ Unlink(c) \/ Tell(c) \/ Cancel(c)
             \/ JobStarts(c) \/ JobWrites(c) \/ JobSyncs(c)
      PROVE  FilesGood(f')
  BY <1>3, OpenGood, BeginGood, BeginFailsGood, AsksJobGood, WrittenGood, SyncedGood, RenameGood,
     DeleteGood, UnlinkGood, TellGood, CancelGood, JobStartsGood, JobWritesGood, JobSyncsGood
<1> QED
  BY <1>1, <1>2, <1>3 DEF ReplaceNext

\* It is enough for what the runs check.
LEMMA GoodIsSafe == ASSUME ReplaceAssumption, FilesGood(f) PROVE ReplaceSafe
<1>1. f \in FileState
  BY DEF FilesGood
<1>2. Tidy
  <2>1. f.tmp \subseteq {f.ch[c].ino : c \in {b \in Chans : f.ch[b].at # "over"}}
    BY DEF FilesGood, Shared
  <2>2. \A d \in Fds : f.fds[d] # 0 => \E c \in Chans : f.ch[c].at # "over" /\ f.ch[c].fd = d
    BY DEF FilesGood, Shared
  <2> QED
    BY <2>1, <2>2 DEF Tidy
<1>3. CreateExclusive
  BY DEF FilesGood, TagOK, CreateExclusive
<1>4. ASSUME ~Cancels, ~Shorts PROVE PathWhole
  <2> SUFFICES ASSUME NEW c \in Chans, f.path # 0, f.path = f.ch[c].ino PROVE f.data[f.path] = Whole(c)
    BY DEF PathWhole
  <2>1. OwnOK(f, c) /\ DataOK(f, c)
    BY <1>4 DEF FilesGood
  <2>2. f.ch[c].at = "tell" \/ (f.ch[c].end = "ok" /\ f.ch[c].at = "over")
    BY <2>1 DEF OwnOK
  <2>3. Stored(f.ch[c]) = f.ch[c].n
    BY <2>2 DEF Stored
  <2>4. Holds(f, f.path, c, f.ch[c].n)
    BY <2>1, <2>2, <2>3 DEF DataOK
  <2>5. f.data[f.path] \in Seq(Message)
    BY <1>1 DEF FileState
  <2> DEFINE s == f.data[f.path]
             n == f.ch[c].n
  <2>6. Len(s) = n /\ (\A k \in 1..n : s[k] = <<c, k>>) /\ s \in Seq(Message)
    BY <2>4, <2>5 DEF Holds
  <2>7. Whole(c) = [k \in 1..n |-> <<c, k>>]
    BY DEF Whole
  <2> HIDE DEF s, n
  <2>8. s = [k \in 1..n |-> s[k]]
    BY <2>6
  <2>9. s = [k \in 1..n |-> <<c, k>>]
    BY <2>6, <2>8
  <2> QED
    BY <2>7, <2>9 DEF s
<1>5. ASSUME Others = 0 PROVE NoLostUpdate /\ TagTold
  BY <1>5 DEF FilesGood, TagOK, NoLostUpdate, TagTold
<1> QED
  BY <1>2, <1>3, <1>4, <1>5 DEF ReplaceSafe

\* For any number of channels, messages and other processes: the temporary files and file
\* descriptors are released, "-" never replaces a file, without cancelled channels and full
\* disks the file is always whole, and without other processes no update is lost and the tag
\* that is returned is the one of the new contents.
THEOREM ReplaceSafety == ASSUME ReplaceAssumption PROVE ReplaceSpec => []ReplaceSafe
<1>1. ReplaceInit => FilesGood(f)
  BY FirstGood
<1>2. FilesGood(f) /\ [ReplaceNext]_f => FilesGood(f)'
  BY EveryStepGood
<1>3. FilesGood(f) => ReplaceSafe
  BY GoodIsSafe
<1> QED
  BY <1>1, <1>2, <1>3, PTL DEF ReplaceSpec

=============================================================================
