-------------------------------- MODULE FsFile --------------------------------
(***************************************************************************)
(* Channels of the C bridge that replace and read a file                   *)
(* (src/src/bridge/cockpitfsreplace.c, cockpitfsread.c).  Writers put      *)
(* their content into temporary files beside the file and rename them over *)
(* it, provided that the file still has the tag they expect; a reader      *)
(* reads the file it opened in pieces and says whether it changed          *)
(* meanwhile.  Other programs change the file too.                         *)
(*                                                                         *)
(* An inode is the sequence of the texts it had, so that its tag, which    *)
(* the code makes of inode and mtime, is the inode and the number of that  *)
(* text.  0 stands for a name that does not exist, as "-" does.            *)
(***************************************************************************)
EXTENDS Integers, FiniteSets, SequencesExt, FiniteSetsExt

CONSTANTS
    Writers,   \* fsreplace1 channels
    Temps,     \* number of temporary names that are tried, 9999 in the code
    Messages,  \* bound on the content messages of a writer
    Outside,   \* bound on the changes other programs make
    MaxRead,   \* max_read_size, in messages
    FdLimit,   \* the bridge may be out of descriptors
    Reading    \* there is a reader

(* What an instance has to satisfy.                                       *)
FsFileAssumption == Temps \in Nat \ {0} 

VARIABLES
    ino,   \* the inodes
    path,  \* the inode of the file
    tmp,   \* those of the temporary names
    w,     \* the writers
    r,     \* the reader
    made   \* changes by other programs

vars == <<ino, path, tmp, w, r, made>>

NONE == <<"none">>
Text(i) == Last(ino[i])

\* The inode of files with temporary names that were there before.
Leftover == 2

\* file_tag_from_stat()
Tag(i) == IF i = 0 THEN <<0, 0>> ELSE <<i, Len(ino[i])>>

Init ==
    /\ \E there \in {0, 1} : path = there
    /\ ino = << << << <<"old", 0>> >> >>, << << >> >> >>
    /\ \E left \in 0..Temps : tmp = [n \in 1..Temps |-> IF n <= left THEN Leftover ELSE 0]
    /\ w = [c \in Writers |-> [at |-> "new", tag |-> NONE, tmp |-> 0, mine |-> FALSE, got |-> FALSE,
                               sent |-> <<>>, problem |-> "", told |-> NONE, robs |-> FALSE]]
    /\ r = [at |-> "new", ino |-> 0, start |-> NONE, got |-> <<>>, pipe |-> FALSE,
            problem |-> "", told |-> NONE]
    /\ made = 0

\* The main loop runs one handler at a time; only other programs come between
\* the steps of one.
Free == \A c \in Writers : w[c].at # "check"

\* cockpit_fsreplace_close(): with a problem the temporary file is removed, by
\* its name.
CloseWith(c, ws, ts, problem) ==
    /\ w' = [ws EXCEPT ![c].at = "closed", ![c].problem = problem]
    /\ tmp' = IF problem # "" /\ ws[c].tmp # 0 THEN [ts EXCEPT ![ws[c].tmp] = 0] ELSE ts

\* The client finds out the tag of the file, or does without.
Learn(c) ==
    /\ w[c].at = "new" /\ Free
    /\ \E t \in {NONE, Tag(path)} : w' = [w EXCEPT ![c].at = "opened", ![c].tag = t]
    /\ UNCHANGED <<ino, path, tmp, r, made>>

Expected(c) == w[c].tag = NONE \/ w[c].tag = Tag(path)

\* Names are tried in turn with O_EXCL.
FirstFree == {n \in 1..Temps : tmp[n] = 0 /\ \A k \in 1..(n - 1) : tmp[k] # 0}

\* cockpit_fsreplace_prepare(): the first temporary name that is not taken.
Prepare(c) ==
    /\ w[c].at = "opened" /\ Free /\ Expected(c)
    /\ \E n \in FirstFree :
          /\ ino' = Append(ino, << <<>> >>)
          /\ tmp' = [tmp EXCEPT ![n] = Len(ino) + 1]
          /\ w' = [w EXCEPT ![c].at = "open", ![c].tmp = n, ![c].mine = TRUE]
    /\ UNCHANGED <<path, r, made>>

PrepareConflict(c) ==
    /\ w[c].at = "opened" /\ Free /\ ~Expected(c)
    /\ CloseWith(c, w, tmp, "change-conflict")
    /\ UNCHANGED <<ino, path, r, made>>

\* No name is free, or the file cannot be made: without descriptors that is
\* found out before it is known whether the name is taken, and the file that
\* has the first name is removed, whoever made it (robs).
PrepareFails(c) ==
    /\ w[c].at = "opened" /\ Free /\ Expected(c)
    /\ \/ FirstFree = {} /\ CloseWith(c, w, tmp, "internal-error")
       \/ \E n \in FirstFree : CloseWith(c, [w EXCEPT ![c].tmp = n], tmp, "access-denied")
       \/ /\ FdLimit
          /\ CloseWith(c, [w EXCEPT ![c].tmp = 1, ![c].robs = tmp[1] # 0], tmp, "internal-error")
    /\ UNCHANGED <<ino, path, r, made>>

\* cockpit_fsreplace_recv(): all of a message is written, or a part of it.
Recv(c) ==
    /\ w[c].at = "open" /\ Free /\ Len(w[c].sent) < Messages
    /\ LET n == Len(w[c].sent) + 1
           i == tmp[w[c].tmp]
           ws == [w EXCEPT ![c].got = TRUE, ![c].sent = Append(@, <<c, n>>)]
       IN \/ /\ w' = ws /\ UNCHANGED tmp
             /\ ino' = IF i = 0 THEN ino ELSE [ino EXCEPT ![i] = Append(@, Last(@) \o <<<<c, n>>>>)]
          \/ CloseWith(c, ws, tmp, "internal-error") /\ UNCHANGED ino
    /\ UNCHANGED <<path, r, made>>

\* An empty message is content too.
RecvEmpty(c) ==
    /\ w[c].at = "open" /\ Free /\ ~w[c].got
    /\ w' = [w EXCEPT ![c].got = TRUE]
    /\ UNCHANGED <<ino, path, tmp, r, made>>

\* A mutant of DoneCheck: the tag is compared only when the channel is opened.
DoneUnchecked(c) == w' = [w EXCEPT ![c].at = "check"] /\ UNCHANGED tmp

\* cockpit_fsreplace_control(): the tag once more.
DoneCheck(c) ==
    IF Expected(c) THEN w' = [w EXCEPT ![c].at = "check"] /\ UNCHANGED tmp
    ELSE CloseWith(c, w, tmp, "out-of-date")

\* "done": the content is on disk, or that failed.
Done(c) ==
    /\ w[c].at = "open" /\ Free
    /\ DoneCheck(c) \/ CloseWith(c, w, tmp, "internal-error")
    /\ UNCHANGED <<ino, path, r, made>>

\* The rest of cockpit_fsreplace_control(): without content the file goes, and
\* with it the temporary one takes its name.
Commit(c) ==
    LET i == tmp[w[c].tmp]
        told == IF w[c].got THEN Tag(i) ELSE Tag(0)
        ws == [w EXCEPT ![c].told = told]
    IN /\ IF w[c].got /\ i = 0 THEN UNCHANGED path ELSE path' = IF w[c].got THEN i ELSE 0
       /\ IF w[c].got /\ i = 0 THEN CloseWith(c, w, tmp, "internal-error")
          ELSE CloseWith(c, ws, [tmp EXCEPT ![w[c].tmp] = 0], "")
       /\ UNCHANGED ino

\* unlink() or rename() is refused; the temporary file is then gone if there
\* was no content.
CommitFails(c) ==
    /\ CloseWith(c, w, IF w[c].got THEN tmp ELSE [tmp EXCEPT ![w[c].tmp] = 0], "access-denied")
    /\ UNCHANGED <<ino, path>>

Finish(c) ==
    /\ w[c].at = "check"
    /\ Commit(c) \/ CommitFails(c)
    /\ UNCHANGED <<r, made>>

\* The client or the transport closes.
ClientCloses(c) ==
    /\ w[c].at = "open" /\ Free
    /\ \E problem \in {"", "disconnected"} : CloseWith(c, w, tmp, problem)
    /\ UNCHANGED <<ino, path, r, made>>

(***************************************************************************)
(* Reading                                                                 *)
(***************************************************************************)
Closed(t, problem, told) == [t EXCEPT !.at = "closed", !.problem = problem, !.told = told]

\* cockpit_fsread_prepare()
ReadPrepare ==
    /\ Reading /\ r.at = "new" /\ Free
    /\ r' = IF path = 0 THEN Closed(r, "", Tag(0))
            ELSE IF Len(Text(path)) > MaxRead THEN Closed(r, "too-large", NONE)
            ELSE [r EXCEPT !.at = "open", !.ino = path, !.start = Tag(path), !.pipe = TRUE]
    /\ UNCHANGED <<ino, path, tmp, w, made>>

ReadRefused ==
    /\ Reading /\ r.at = "new" /\ Free /\ path # 0
    /\ \E problem \in {"access-denied", "internal-error"} : r' = Closed(r, problem, NONE)
    /\ UNCHANGED <<ino, path, tmp, w, made>>

\* on_pipe_read() of a piece; it is read where the last one ended.
ReadPiece ==
    /\ r.at = "open" /\ Free /\ Len(r.got) < Len(Text(r.ino))
    /\ r' = [r EXCEPT !.got = Append(@, Text(r.ino)[Len(@) + 1])]
    /\ UNCHANGED <<ino, path, tmp, w, made>>

\* The end of on_pipe_read(): the tag of the open file is compared.
ReadVerdict ==
    IF Tag(r.ino) = r.start THEN Closed(r, "", Tag(r.ino)) ELSE Closed(r, "change-conflict", NONE)

ReadEnds ==
    /\ r.at = "open" /\ Free /\ Len(r.got) >= Len(Text(r.ino))
    /\ r' = ReadVerdict
    /\ UNCHANGED <<ino, path, tmp, w, made>>

\* cockpit_fsread_close(): "open" is never set, so that the pipe is not closed
\* first.
ReaderCloses ==
    /\ r.at = "open" /\ Free
    /\ \E problem \in {"closed", "disconnected", "protocol-error"} : r' = Closed(r, problem, NONE)
    /\ UNCHANGED <<ino, path, tmp, w, made>>

\* cockpit_fsread_dispose(): the pipe goes with the last reference.
ReadDispose ==
    /\ r.at = "closed" /\ r.pipe
    /\ r' = [r EXCEPT !.pipe = FALSE]
    /\ UNCHANGED <<ino, path, tmp, w, made>>

(***************************************************************************)
(* Other programs                                                          *)
(***************************************************************************)
OutsideText == <<"x", made>>

OutsideChanges ==
    /\ made < Outside
    /\ made' = made + 1
    /\ \/ path # 0 /\ path' = 0 /\ UNCHANGED ino
       \/ path # 0 /\ UNCHANGED path
          /\ \E t \in {<<OutsideText>>, Append(Text(path), OutsideText)} : ino' = [ino EXCEPT ![path] = Append(@, t)]
       \/ path' = Len(ino) + 1 /\ ino' = Append(ino, << <<OutsideText>> >>)
    /\ UNCHANGED <<tmp, w, r>>

Next ==
    \/ \E c \in Writers :
          \/ Learn(c) \/ Prepare(c) \/ PrepareConflict(c) \/ PrepareFails(c)
          \/ Recv(c) \/ RecvEmpty(c) \/ Done(c) \/ Finish(c) \/ ClientCloses(c)
    \/ ReadPrepare \/ ReadRefused \/ ReadPiece \/ ReadEnds \/ ReaderCloses \/ ReadDispose
    \/ OutsideChanges

Spec == Init /\ [][Next]_vars

(***************************************************************************)
(* Properties                                                              *)
(***************************************************************************)
Replaced(c) == w[c].at = "closed" /\ w[c].problem = "" /\ w[c].told # NONE

\* A writer without descriptors has removed the temporary file of another.
Robbed == \E c \in Writers : w[c].robs

\* The state has its type.
TypeOK ==
    /\ path \in 0..Len(ino) /\ \A n \in 1..Temps : tmp[n] \in 0..Len(ino)
    /\ \A c \in Writers : w[c].at \in {"new", "opened", "open", "check", "closed"}
    /\ r.at \in {"new", "open", "closed"}

\* Of two writers that expect the same version of a file only one takes its
\* place, and the other is told that it is out of date, although other
\* programs change the file between any two steps.
NoLostUpdate ==
    \A c, d \in Writers :
       c # d /\ Replaced(c) /\ Replaced(d) /\ w[c].tag = w[d].tag => w[c].tag \in {NONE, Tag(0)}

\* What is at the path is never part of the content of a writer, or that of
\* one that failed: a version is as it was found, of another program, or all
\* that a successful writer sent; unless temporary files were mixed up.
PathWhole ==
    path # 0 /\ ~Robbed =>
       \A k \in DOMAIN Text(path), c \in Writers :
          Text(path)[k][1] = c => /\ Replaced(c)
                                  /\ SelectSeq(Text(path), LAMBDA m : m[1] = c) = w[c].sent

\* The tag a writer is told is that of all that it sent, so that it can go on
\* from there.
ToldTrue ==
    \A c \in Writers : Replaced(c) /\ ~Robbed =>
       IF ~w[c].got THEN w[c].told = Tag(0)
       ELSE ino[w[c].told[1]][w[c].told[2]] = w[c].sent

\* No temporary file stays of a writer that was closed with a problem, none
\* is removed of one that is at work, and no two share one, until a writer is
\* out of descriptors.
TempsOwned ==
    ~Robbed =>
      /\ \A n \in 1..Temps : tmp[n] \notin {0, Leftover} =>
            \E c \in Writers : w[c].mine /\ w[c].tmp = n /\ (w[c].at = "closed" => w[c].problem = "")
      /\ \A c \in Writers : w[c].at \in {"open", "check"} => tmp[w[c].tmp] # 0
      /\ \A c, d \in Writers :
            c # d /\ {w[c].at, w[d].at} \subseteq {"open", "check"} => w[c].tmp # w[d].tmp

\* What was read without a problem is one version of the file, the one of the
\* tag that is told.
ReadExact ==
    r.at = "closed" /\ r.problem = "" /\ r.told # Tag(0) => r.got = ino[r.told[1]][r.told[2]]

\* A file that is replaced while it is read does not disturb the reader: only
\* a change in place is a conflict.
ReadUndisturbed ==
    r.at = "closed" /\ r.problem = "change-conflict" => Tag(r.ino) # r.start

=============================================================================
