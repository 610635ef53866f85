------------------------------ MODULE PamSshAdd ------------------------------
(***************************************************************************)
(* The PAM module that gives a session an ssh-agent and loads the user's   *)
(* keys into it (src/src/pam-ssh-add/pam-ssh-add.c).  Authentication puts  *)
(* the password aside; opening the session starts the agent, reads the     *)
(* variables it prints, and runs ssh-add, whose prompts on stderr are      *)
(* answered with the password; closing the session kills the agent.        *)
(*                                                                         *)
(* The text ssh-add writes is a sequence of words: a warning is one word,  *)
(* and a prompt the two "Enter" or "Bad", and "passphrase".  ssh-agent and *)
(* ssh-add are outside.                                                    *)
(***************************************************************************)
EXTENDS Integers, FiniteSets, SequencesExt, FiniteSetsExt

CONSTANTS
    Keys,      \* number of keys ssh-add tries
    Block,     \* words that are read at once
    Warnings,  \* bound on warnings ssh-add writes
    Faults     \* calls of the system and the agent may fail

(* What an instance has to satisfy.                                       *)
BlockAssumption == Block \in Nat \ {0}

VARIABLES
    m,      \* the module; cut: prompts a block ended in the middle of;
            \* deaf: it stopped reading before the end
    agent,  \* ssh-agent
    add,    \* ssh-add; owed: its prompts that got no line yet
    err,    \* what ssh-add wrote to stderr and was not read
    inp     \* the lines written to its stdin and not read

vars == <<m, agent, add, err, inp>>

Init ==
    /\ m = [at |-> "new", stash |-> FALSE, env |-> {}, pid |-> FALSE,
            result |-> "none", cut |-> 0, deaf |-> FALSE]
    /\ agent = "none"
    /\ add = [at |-> "none", key |-> 1, loaded |-> 0, good |-> FALSE, refused |-> FALSE,
              owed |-> 0, warned |-> 0, status |-> 0]
    /\ err = <<>> /\ inp = <<>>

(***************************************************************************)
(* Authentication                                                          *)
(***************************************************************************)
\* pam_sm_authenticate(): a password, if there is one, is put aside.  It may
\* be that of the keys, or not.
Authenticate ==
    /\ m.at = "new"
    /\ \E password, same \in BOOLEAN :
          /\ m' = [m EXCEPT !.at = "opening", !.stash = password]
          /\ add' = [add EXCEPT !.good = password /\ same]
    /\ UNCHANGED <<agent, err, inp>>

\* The end of pam_sm_open_session(): whatever happened, the password goes
\* (pam_set_data() of data that is there does not fail).
EndOpen(t, result) == [t EXCEPT !.at = "open", !.result = result, !.stash = FALSE]

\* pam_ssh_add_start_agent(): pipes, a process, and what it prints; or, in
\* pam_sm_open_session(), there is no such user.
StartAgentFails ==
    /\ m.at = "opening" /\ Faults
    /\ m' = EndOpen(m, "service-err")
    /\ UNCHANGED <<agent, add, err, inp>>

AgentStarts ==
    /\ m.at = "opening"
    /\ agent' = "runs"
    /\ m' = [m EXCEPT !.at = "vars"]
    /\ UNCHANGED <<add, err, inp>>

\* start_agent(): the variables are put into the PAM environment, the socket
\* first, and the pid is kept even if that fails, when it is a number.
KeepPid(t, puts, number) ==
    [t EXCEPT !.env = (IF puts >= 1 THEN {"sock"} ELSE {}) \cup (IF puts >= 2 THEN {"pid"} ELSE {}),
              !.pid = number]

\* The variables found in the output of the agent, by name; both are needed,
\* and the process that started the agent must have ended well.
AgentVars(vs, ok, puts, number) ==
    /\ m.at = "vars"
    /\ Faults \/ (vs = {"sock", "pid"} /\ ok /\ puts = 2 /\ number)
    /\ m' = IF vs # {"sock", "pid"} \/ ~ok THEN EndOpen(m, "service-err")
            ELSE IF puts < 2 THEN EndOpen(KeepPid(m, puts, number), "service-err")
            ELSE [KeepPid(m, puts, number) EXCEPT !.at = "loading"]
    /\ UNCHANGED <<agent, add, err, inp>>

AgentDies ==
    /\ Faults /\ agent = "runs"
    /\ agent' = "gone"
    /\ UNCHANGED <<m, add, err, inp>>

(***************************************************************************)
(* ssh-add                                                                 *)
(***************************************************************************)
\* pam_ssh_add_load(): started when the environment has a socket.
LoadStarts ==
    /\ m.at = "loading" /\ add.at = "none"
    /\ \/ add' = [add EXCEPT !.at = "key"] /\ UNCHANGED m
       \/ Faults /\ m' = EndOpen(m, "service-err") /\ UNCHANGED add
    /\ UNCHANGED <<agent, err, inp>>

\* ssh-add: a warning, a prompt in one write, or the end.
AddWarns ==
    /\ add.at = "key" /\ add.warned < Warnings
    /\ err' = Append(err, "warning")
    /\ add' = [add EXCEPT !.warned = @ + 1]
    /\ UNCHANGED <<m, agent, inp>>

AddAsks ==
    /\ add.at = "key" /\ add.key <= Keys /\ agent = "runs"
    /\ err' = err \o <<"Enter", "passphrase">>
    /\ add' = [add EXCEPT !.at = "wait", !.owed = @ + 1, !.refused = FALSE]
    /\ UNCHANGED <<m, agent, inp>>

\* The answer is read: right, wrong and asked again, or empty and passed over.
AddReads ==
    /\ add.at = "wait" /\ inp # <<>>
    /\ inp' = Tail(inp)
    /\ CASE Head(inp) = "password" /\ add.good ->
              add' = [add EXCEPT !.at = "key", !.key = @ + 1, !.loaded = @ + 1] /\ UNCHANGED err
         [] Head(inp) = "password" /\ ~add.good ->
              /\ add' = [add EXCEPT !.owed = @ + 1, !.refused = TRUE]
              /\ err' = err \o <<"Bad", "passphrase">>
         [] OTHER -> add' = [add EXCEPT !.at = "key", !.key = @ + 1] /\ UNCHANGED err
    /\ UNCHANGED <<m, agent>>

\* Status 0 when all keys were loaded, 1 when some were not, 2 when there is
\* no agent to load them into.
AddExits ==
    /\ add.at = "key" /\ (add.key > Keys \/ agent # "runs")
    /\ add' = [add EXCEPT !.at = "exited",
                 !.status = IF agent # "runs" THEN 2 ELSE IF add.loaded = Keys THEN 0 ELSE 1]
    /\ UNCHANGED <<m, agent, err, inp>>

(***************************************************************************)
(* Answering prompts                                                       *)
(***************************************************************************)
Has(words, first) == \E i \in 1..(Len(words) - 1) : words[i] = first /\ words[i + 1] = "passphrase"

\* A mutant of Lines: an empty line follows the password.
LinesTwo(words) ==
    IF Has(words, "Enter") THEN IF m.stash THEN <<"password", "">> ELSE <<"">>
    ELSE IF Has(words, "Bad") THEN <<"">>
    ELSE <<>>

\* The line written for a block that was read: the password, or an empty one
\* after it was refused.  Other text goes to the log.
Lines(words) ==
    IF Has(words, "Enter") THEN IF m.stash THEN <<"password">> ELSE <<"">>
    ELSE IF Has(words, "Bad") THEN <<"">>
    ELSE <<>>

\* A block is read: as much as there is, and no more than fits.  It is looked
\* at on its own, so that a prompt it ends in the middle of is never seen.
ReadBlock ==
    /\ m.at = "loading" /\ ~m.deaf /\ err # <<>>
    /\ LET k == Min({Block, Len(err)})
           words == SubSeq(err, 1, k)
       IN /\ err' = SubSeq(err, k + 1, Len(err))
          /\ inp' = inp \o Lines(words)
          /\ add' = [add EXCEPT !.owed = @ - Len(Lines(words))]
          /\ m' = [m EXCEPT !.cut = @ + IF words[k] \in {"Enter", "Bad"} THEN 1 ELSE 0]
    /\ UNCHANGED agent

\* A read that fails ends the loop, with ssh-add still running.
ReadFails ==
    /\ m.at = "loading" /\ ~m.deaf /\ Faults /\ add.at # "none"
    /\ m' = [m EXCEPT !.deaf = TRUE]
    /\ UNCHANGED <<agent, add, err, inp>>

\* The end of stderr, and of ssh-add.  What is compared with 1 is the way the
\* process ended, which is 1 for every process that exits, and not its status.
LoadResult(status) ==
    LET siCode == 1  \* CLD_EXITED
    IN IF (siCode = 1 /\ status = 0) \/ siCode = 1 THEN "success" ELSE "service-err"

Loaded ==
    /\ m.at = "loading" /\ (err = <<>> \/ m.deaf) /\ add.at = "exited"
    /\ \/ m' = EndOpen(m, LoadResult(add.status))
       \/ Faults /\ m' = EndOpen(m, "service-err")   \* waitid() failed
    /\ UNCHANGED <<agent, add, err, inp>>

\* pam_sm_close_session(): the agent whose pid was kept is killed, as its user.
\* The process may be unable to become that user, to kill, and to be root
\* again.
CloseSession ==
    \E becomes, kills, returns \in IF Faults THEN BOOLEAN ELSE {TRUE} :
       /\ m' = [m EXCEPT !.at = "closed",
                         !.result = IF m.pid /\ ~(becomes /\ returns) THEN "session-err" ELSE "success"]
       /\ agent' = IF m.pid /\ becomes /\ kills THEN "gone" ELSE agent

Close == m.at = "open" /\ CloseSession /\ UNCHANGED <<add, err, inp>>

Module ==
    \/ Authenticate \/ AgentStarts \/ StartAgentFails \/ LoadStarts \/ ReadBlock \/ Loaded
    \/ \E vs \in SUBSET {"sock", "pid"}, ok \in BOOLEAN, puts \in 0..2, number \in BOOLEAN :
         AgentVars(vs, ok, puts, number)

Next ==
    \/ Module \/ ReadFails \/ Close \/ AgentDies
    \/ AddWarns \/ AddAsks \/ AddReads \/ AddExits

Spec == Init /\ [][Next]_vars
(***************************************************************************)
(* Properties                                                              *)
(***************************************************************************)
\* The state has its type.
TypeOK ==
    /\ m.at \in {"new", "opening", "vars", "loading", "open", "closed"}
    /\ m.env \subseteq {"sock", "pid"}
    /\ m.env # {} => agent # "none"
    /\ add.loaded \in 0..Keys

\* The prompts that were written and not read yet
Unread == Cardinality({i \in 1..(Len(err) - 1) : err[i] \in {"Enter", "Bad"}})

\* One line is sent for each prompt, however the text of ssh-add falls into
\* blocks: no answer is there for a prompt that has not been made, so that a
\* password is never read by anything that did not ask for it, and a prompt
\* goes without an answer only if a block ended in the middle of it.
OneAnswer == add.owed = Unread + m.cut

\* The password goes to a key that asks for it once: a line that follows a
\* refusal is empty, also if the refusal and the next prompt are read late.
PasswordOnce ==
    /\ Len(SelectSeq(inp, LAMBDA l : l = "password")) <= 1
    /\ add.at = "wait" /\ inp # <<>> /\ Head(inp) = "password" => ~add.refused

\* Opening the session comes to an end, <> OpenOver, unless ssh-add waits for
\* the answer to a prompt that was cut, or that nobody reads.
OpenOver == m.at \in {"open", "closed"} \/ (add.at = "wait" /\ (m.cut > 0 \/ m.deaf))

=============================================================================
