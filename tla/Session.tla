------------------------------- MODULE Session ------------------------------
(***************************************************************************)
(* cockpit-session (src/src/session): the program that cockpit-ws starts   *)
(* to log a user in and to run the bridge in a session of that user.  It   *)
(* asks for the authorization, authenticates with a password, Kerberos or  *)
(* a client certificate, carries on the conversation PAM wants, opens the  *)
(* PAM session, tries the login shell, runs the bridge and cleans up.      *)
(*                                                                         *)
(* PAM, GSSAPI, sssd, the shell, the bridge and cockpit-ws are outside;    *)
(* each of their answers is a choice.  A PAM message is its style and a    *)
(* number.                                                                 *)
(***************************************************************************)
EXTENDS Integers, SequencesExt, FiniteSetTheorems, SequenceTheorems, TLAPS

CONSTANTS
    Methods,    \* the kinds of authorization that are sent
    MaxMsgs,    \* bound on messages from PAM
    MaxRounds,  \* bound on rounds of a Kerberos negotiation
    Faults,     \* system calls and the closing PAM calls may fail
    Signals     \* SIGTERM may come

(* What an instance has to satisfy.                                        *)
SessionAssumption ==
    /\ Methods \subseteq {"basic", "negotiate", "tls-cert", "other"}
    /\ MaxMsgs \in Nat /\ MaxRounds \in Nat
ASSUME SessionConstants == SessionAssumption

VARIABLES
    ses,   \* the process
    pam,   \* what PAM and the system know of the session
    ws     \* what cockpit-ws has seen and sent

sessionVars == <<ses, pam, ws>>

Styles == {"off", "on", "error", "info"}
NoMsgs == <<>>

\* What a call of PAM may return: any module of the stack may return any of
\* these from any call, "other" standing for the many that are not looked at.
PamErrors == {"auth-err", "user-unknown", "perm-denied", "unavail", "other"}

SessionInit ==
    /\ ses = [at |-> "start", method |-> "none", password |-> FALSE,
            conv |-> NoMsgs, asking |-> FALSE, good |-> TRUE,
            text |-> <<>>, kept |-> <<>>, tries |-> 0, rounds |-> 0,
            want |-> TRUE, creds |-> FALSE, ccache |-> FALSE,
            handlers |-> FALSE, child |-> FALSE, how |-> "none"]
    /\ pam = [authenticated |-> FALSE, account |-> FALSE, cred |-> FALSE,
              open |-> FALSE, ticket |-> FALSE, login |-> FALSE,
              result |-> "none", failed |-> 0, answers |-> <<>>, sent |-> 0,
              shell |-> FALSE, bridge |-> "none", term |-> FALSE, got |-> FALSE]
    /\ ws = [prompts |-> 0, shown |-> <<>>, problem |-> "none"]

(***************************************************************************)
(* Ending                                                                  *)
(***************************************************************************)
\* err() and errx(): nothing is said to cockpit-ws and nothing cleaned up.
Gone(t, how) == [t EXCEPT !.at = "ended", !.how = how, !.conv = NoMsgs, !.asking = FALSE]
Dies(t) == Gone(t, "died")

ProblemOf(res) ==
    CASE res \in {"auth-err", "user-unknown"} -> "authentication-failed"
      [] res = "perm-denied" -> "access-denied"
      [] res = "unavail" -> "authentication-unavailable"
      [] OTHER -> "internal-error"

\* exit_init_problem(): the problem takes the place of the bridge's "init".
ExitInitProblem(res) ==
    /\ ses' = Gone(ses, "problem")
    /\ ws' = [ws EXCEPT !.problem = ProblemOf(res)]

\* open_session() failed: PAM_AUTH_ERR is told apart from that of
\* pam_authenticate(), and only Kerberos logins are noted as failed here.
OpenFails(res) ==
    /\ ExitInitProblem(IF res = "auth-err" /\ ses.at \in {"account", "change"}
                       THEN "perm-denied" ELSE res)
    /\ pam' = [pam EXCEPT !.result = res,
                          !.failed = @ + IF ses.method = "negotiate" THEN 1 ELSE 0]

(***************************************************************************)
(* Authorization                                                           *)
(***************************************************************************)
\* main(): the environment is cleared and a challenge sent.
Start ==
    /\ ses.at = "start"
    /\ ses' = [ses EXCEPT !.at = "ask"]
    /\ ws' = [ws EXCEPT !.prompts = @ + 1]
    /\ UNCHANGED pam

\* read_authorize_response(): not the message expected, or the end of input.
BadResponse ==
    /\ ses.at = "ask" \/ ses.asking
    /\ ses' = Dies(ses)
    /\ UNCHANGED <<pam, ws>>

\* An authorization of one of the types; one for "basic" may make no sense,
\* and any type but these has no handler.
Authorization(m, valid) ==
    /\ ses.at = "ask"
    /\ CASE m = "basic" /\ valid ->
              /\ ses' = [ses EXCEPT !.at = "auth", !.method = m, !.password = TRUE]
              /\ UNCHANGED ws
         [] m = "basic" /\ ~valid -> ExitInitProblem("buf-err")
         [] m = "negotiate" ->
              /\ ses' = [ses EXCEPT !.at = "gss", !.method = m]
              /\ UNCHANGED ws
         [] m = "tls-cert" ->
              /\ ses' = [ses EXCEPT !.at = "cert", !.method = m]
              /\ UNCHANGED ws
         [] OTHER -> ses' = Dies(ses) /\ UNCHANGED ws
    /\ UNCHANGED pam

(***************************************************************************)
(* The conversation                                                        *)
(***************************************************************************)
Calling == ses.at \in {"auth", "account", "change", "cred", "open", "recred"}

\* PAM calls back with a batch of messages.  Logins with a certificate have
\* a function that refuses all of them.
PamConv(styles) ==
    /\ Calling /\ ses.conv = NoMsgs /\ ~ses.asking /\ ses.good
    /\ pam.sent + Len(styles) <= MaxMsgs
    /\ pam' = [pam EXCEPT !.sent = @ + Len(styles)]
    /\ ses' = IF ses.method = "tls-cert" THEN ses
            ELSE [ses EXCEPT !.conv = [i \in DOMAIN styles |->
                                        [style |-> styles[i], id |-> pam.sent + i]],
                           !.text = ses.kept, !.kept = <<>>]
    /\ UNCHANGED ws

\* The end of pam_conv_func(): messages that were not shown with a prompt
\* are kept for the next call, unless the call fails.
ConvReturns(t) ==
    [t EXCEPT !.kept = IF t.good THEN t.text ELSE <<>>, !.text = <<>>, !.good = TRUE]
Went(t) == IF t.conv = NoMsgs THEN ConvReturns(t) ELSE t

\* A mutant of ConvMessage: the password answers every hidden prompt.
ConvAlways ==
    LET m == Head(ses.conv)
        next == [ses EXCEPT !.conv = Tail(@)]
    IN CASE m.style = "off" /\ ses.password ->
              /\ ses' = Went(next)
              /\ pam' = [pam EXCEPT !.answers = Append(@, <<m.id, 0>>)]
              /\ UNCHANGED ws
         [] m.style \in {"error", "info"} ->
              /\ ses' = Went([next EXCEPT !.text = Append(@, m.id)])
              /\ UNCHANGED <<pam, ws>>
         [] OTHER ->
              /\ ses' = [ses EXCEPT !.asking = TRUE, !.text = <<>>]
              /\ ws' = [ws EXCEPT !.prompts = @ + 1, !.shown = @ \o ses.text]
              /\ UNCHANGED pam

\* The next message of the batch: the password is used for the first hidden
\* prompt, errors and notes are collected, anything else is asked of the
\* user together with what was collected.  A login with Kerberos has no place
\* for a password: looking there for a hidden prompt ends the process.
ConvMessage ==
    LET m == Head(ses.conv)
        next == [ses EXCEPT !.conv = Tail(@)]
    IN CASE m.style = "off" /\ ses.method = "negotiate" ->
              ses' = Gone(ses, "killed") /\ UNCHANGED <<pam, ws>>
         [] m.style = "off" /\ ses.password ->
              /\ ses' = Went([next EXCEPT !.password = FALSE])
              /\ pam' = [pam EXCEPT !.answers = Append(@, <<m.id, 0>>)]
              /\ UNCHANGED ws
         [] m.style \in {"error", "info"} ->
              /\ ses' = Went([next EXCEPT !.text = Append(@, m.id)])
              /\ UNCHANGED <<pam, ws>>
         [] OTHER ->
              /\ ses' = [ses EXCEPT !.asking = TRUE, !.text = <<>>]
              /\ ws' = [ws EXCEPT !.prompts = @ + 1, !.shown = @ \o ses.text]
              /\ UNCHANGED pam

Conv == ses.conv # NoMsgs /\ ~ses.asking /\ ConvMessage

\* The answer to a prompt: one that makes no sense fails the call, and the
\* messages after it are gone through nevertheless.
Answered(sense) ==
    /\ ses.asking /\ ses.at # "gss"
    /\ ses' = Went([ses EXCEPT !.conv = Tail(@), !.asking = FALSE, !.good = @ /\ sense])
    /\ pam' = IF sense THEN [pam EXCEPT !.answers = Append(@, <<Head(ses.conv).id, ws.prompts>>)]
              ELSE pam
    /\ UNCHANGED ws

PamsTurn == Calling /\ ses.conv = NoMsgs /\ ~ses.asking

(***************************************************************************)
(* Authentication                                                          *)
(***************************************************************************)
\* perform_basic(): pam_authenticate() returns.
Authenticated ==
    /\ ses.at = "auth" /\ PamsTurn
    /\ \/ /\ ses' = [ses EXCEPT !.at = "user"]
          /\ pam' = [pam EXCEPT !.authenticated = TRUE]
          /\ UNCHANGED ws
       \/ \E res \in PamErrors : /\ ExitInitProblem(res)
                                 /\ pam' = [pam EXCEPT !.result = res, !.failed = @ + 1]

\* perform_gssapi(): one round.  The name must belong to a local user.
Negotiated ==
    /\ ses.at = "gss" /\ ~ses.asking
    /\ \/ /\ ses.rounds = 0 /\ ExitInitProblem("unavail")
          /\ UNCHANGED pam
       \/ ExitInitProblem("auth-err") /\ UNCHANGED pam
       \/ /\ ses.rounds < MaxRounds
          /\ ses' = [ses EXCEPT !.asking = TRUE, !.rounds = @ + 1]
          /\ ws' = [ws EXCEPT !.prompts = @ + 1]
          /\ UNCHANGED pam
       \/ \E creds \in BOOLEAN :
             /\ ses' = [ses EXCEPT !.at = "user", !.creds = creds]
             /\ pam' = [pam EXCEPT !.authenticated = TRUE]
             /\ UNCHANGED ws

NegotiateAnswered ==
    /\ ses.asking /\ ses.at = "gss"
    /\ ses' = [ses EXCEPT !.asking = FALSE]
    /\ UNCHANGED <<pam, ws>>

\* A certificate file: the line of the cgroup it is for, then the certificate.
Ours == <<"a">>
CertFiles == [token : BOOLEAN, size : {0, 1, 2}, cgroup : {<<"a">>, <<"b">>, <<"a", "b">>},
              known : BOOLEAN]
MaxCert == 2

\* cockpit_session_client_certificate_map_user(): the token is a digest, the
\* file neither empty nor larger than the buffer, its first line our cgroup,
\* and sssd knows a user of the certificate.
MapUser(c) ==
    /\ c.token /\ c.size \in 1..(MaxCert - 1)
    /\ IsPrefix(Append(Ours, "eol"), c.cgroup \o <<"eol", "pem">>)
    /\ c.known

\* perform_tlscert(): a ticket may be made for the user, whatever becomes of
\* the session.
CertMapped(c) ==
    /\ ses.at = "cert"
    /\ IF MapUser(c)
       THEN /\ \E creds \in BOOLEAN : ses' = [ses EXCEPT !.at = "user", !.creds = creds]
            /\ pam' = [pam EXCEPT !.authenticated = c.cgroup = Ours]
            /\ UNCHANGED ws
       ELSE ExitInitProblem("auth-err") /\ UNCHANGED pam

(***************************************************************************)
(* open_session()                                                          *)
(***************************************************************************)
\* The user is looked up; one who is already that user needs no session.
LookupUser ==
    /\ ses.at = "user"
    /\ \/ OpenFails("system-err")
       \/ /\ ses' = [ses EXCEPT !.at = "account"]
          /\ UNCHANGED <<pam, ws>>
       \/ /\ ses' = [ses EXCEPT !.at = "ready", !.want = FALSE]
          /\ UNCHANGED <<pam, ws>>

AccountChecked ==
    /\ ses.at = "account" /\ PamsTurn
    /\ \/ /\ ses' = [ses EXCEPT !.at = "cred"]
          /\ pam' = [pam EXCEPT !.account = TRUE]
          /\ UNCHANGED ws
       \/ ses' = [ses EXCEPT !.at = "change"] /\ UNCHANGED <<pam, ws>>
       \/ \E res \in PamErrors : OpenFails(res)

\* An expired password is changed; what the user enters may be refused three
\* times.
PasswordChanged ==
    \/ /\ ses' = [ses EXCEPT !.at = "cred"]
       /\ pam' = [pam EXCEPT !.account = TRUE]
       /\ UNCHANGED ws
    \/ IF ses.tries < 2 THEN ses' = [ses EXCEPT !.tries = @ + 1] /\ UNCHANGED <<pam, ws>>
       ELSE OpenFails("authtok-err")
    \/ \E res \in PamErrors : OpenFails(res)

Changed == ses.at = "change" /\ PamsTurn /\ PasswordChanged

CredEstablished ==
    /\ ses.at = "cred" /\ PamsTurn
    /\ \/ /\ ses' = [ses EXCEPT !.at = "open"]
          /\ pam' = [pam EXCEPT !.cred = TRUE]
          /\ UNCHANGED ws
       \/ \E res \in PamErrors : OpenFails(res)

SessionOpened ==
    /\ ses.at = "open" /\ PamsTurn
    /\ \/ /\ ses' = [ses EXCEPT !.at = "recred"]
          /\ pam' = [pam EXCEPT !.open = TRUE]
          /\ UNCHANGED ws
       \/ \E res \in PamErrors : OpenFails(res)

CredReinitialized ==
    /\ ses.at = "recred" /\ PamsTurn
    /\ \/ ses' = [ses EXCEPT !.at = "ready"] /\ UNCHANGED <<pam, ws>>
       \/ \E res \in PamErrors : Faults /\ OpenFails(res)

(***************************************************************************)
(* The session                                                             *)
(***************************************************************************)
\* store_krb_credentials() before the bridge is started; without a session
\* the bridge is started straight away.
StoreCredentials ==
    /\ ses.at = "ready"
    /\ \/ /\ ses' = [ses EXCEPT !.at = IF ses.want THEN "shell" ELSE "run",
                            !.ccache = ses.want /\ ses.creds]
          /\ \E stored \in BOOLEAN :
                pam' = [pam EXCEPT !.ticket = ses.want /\ ses.creds /\ (stored \/ ~Faults),
                                   !.bridge = IF ses.want THEN @ ELSE "runs"]
       \/ Faults /\ ses' = Dies(ses) /\ UNCHANGED pam
    /\ UNCHANGED ws

\* The login shell must run a command.  Then signals are caught, the login is
\* logged and the bridge started.
TryShell(works) ==
    IF works
    THEN /\ ses' = [ses EXCEPT !.at = "run", !.handlers = TRUE]
         /\ pam' = [pam EXCEPT !.shell = TRUE, !.login = TRUE, !.bridge = "runs"]
         /\ UNCHANGED ws
    ELSE ExitInitProblem("perm-denied") /\ UNCHANGED pam

Shell == ses.at = "shell" /\ \E works \in BOOLEAN : TryShell(works)

BridgeEnds ==
    /\ pam.bridge = "runs"
    /\ pam' = [pam EXCEPT !.bridge = "exited"]
    /\ UNCHANGED <<ses, ws>>

\* The bridge is waited for; the logout is logged and signals are as before.
BridgeReaped ==
    /\ ses.at = "run" /\ pam.bridge = "exited"
    /\ ses' = [ses EXCEPT !.at = "close", !.handlers = FALSE]
    /\ pam' = [pam EXCEPT !.bridge = "reaped", !.login = FALSE]
    /\ UNCHANGED ws

\* Credentials, session and ticket are given up, in this order.
CloseSession ==
    \/ /\ ses' = Gone(ses, "exited")
       /\ pam' = IF ses.want
                 THEN [pam EXCEPT !.cred = FALSE, !.open = FALSE,
                                  !.ticket = @ /\ ~ses.ccache]
                 ELSE pam
       /\ UNCHANGED ws
    \/ Faults /\ ses.want /\ ses' = Dies(ses) /\ UNCHANGED <<pam, ws>>
    \/ /\ Faults /\ ses.want /\ ses' = Dies(ses)
       /\ pam' = [pam EXCEPT !.cred = FALSE]
       /\ UNCHANGED ws

Close == ses.at = "close" /\ CloseSession

\* SIGTERM: its default is to end the process.  pass_to_child() looks at a
\* variable "child" that spawn_and_wait() never sets, as it has one of its own.
Terminate ==
    /\ Signals /\ ~pam.term /\ ses.at # "ended"
    /\ pam' = [pam EXCEPT !.term = TRUE, !.got = ses.handlers /\ ses.child]
    /\ ses' = IF ses.handlers THEN ses ELSE Gone(ses, "killed")
    /\ UNCHANGED ws

SessionStep ==
    \/ Start \/ Conv \/ Authenticated \/ Negotiated \/ LookupUser
    \/ AccountChecked \/ Changed \/ CredEstablished \/ SessionOpened
    \/ CredReinitialized \/ StoreCredentials \/ Shell \/ BridgeReaped \/ Close
    \/ \E c \in CertFiles : CertMapped(c)

FromWs ==
    \/ BadResponse \/ NegotiateAnswered
    \/ \E m \in Methods, valid \in BOOLEAN : Authorization(m, valid)
    \/ \E sense \in BOOLEAN : Answered(sense)

SessionNext ==
    \/ SessionStep \/ FromWs \/ BridgeEnds \/ Terminate
    \/ \E n \in 1..2 : \E styles \in [1..n -> Styles] : PamConv(styles)

SessionSpec == SessionInit /\ [][SessionNext]_sessionVars
(***************************************************************************)
(* Properties                                                              *)
(***************************************************************************)
\* The state has its type.  A prompt is out only while a batch is gone
\* through or Kerberos negotiates, and a problem is all that cockpit-ws is
\* told of a login that fails.
SessionTypeOK ==
    /\ ses.at \in {"start", "ask", "auth", "gss", "cert", "user", "account", "change",
                 "cred", "open", "recred", "ready", "shell", "run", "close", "ended"}
    /\ ses.asking => ses.conv # NoMsgs \/ ses.at = "gss"
    /\ ses.tries \in 0..2 /\ ses.rounds \in 0..MaxRounds
    /\ pam.failed \in 0..1
    /\ ws.problem # "none" => ses.how = "problem"
    /\ ses.how = "none" <=> ses.at # "ended"

\* The bridge runs only for a user who is authenticated and, unless it runs
\* as that user anyway, whose account is valid, whose session is open and
\* whose shell works.
BridgeInSession ==
    pam.bridge = "runs" =>
       /\ pam.authenticated
       /\ ses.want => pam.account /\ pam.cred /\ pam.open /\ pam.shell /\ pam.login

\* A certificate logs in only from the cgroup it was given for.
OwnCgroup == ses.method = "tls-cert" /\ ses.at \in {"user", "account", "ready", "run"} => pam.authenticated

\* Either the bridge or this program says how the login went, never both.
OneVerdict == ws.problem # "none" => pam.bridge = "none"

\* "access-denied" is about the account and "authentication-failed" about the
\* password, as open_session() means it when it changes the result of a
\* refused account, but for what PAM itself says: that it does not know a
\* user who was authenticated, or that one who was not may not log in.  After
\* the account has been accepted either may be said.
ProblemTells ==
    /\ ws.problem = "authentication-failed" /\ pam.authenticated =>
          pam.account \/ pam.result = "user-unknown"
    /\ ws.problem = "access-denied" /\ ~pam.authenticated => pam.result = "perm-denied"

\* The password answers one prompt, and every other answer is the one the
\* user gave to that very prompt.
AnswersPaired ==
    /\ \A i, j \in DOMAIN pam.answers : pam.answers[i][2] = 0 /\ pam.answers[j][2] = 0 => i = j
    /\ \A i, j \in DOMAIN pam.answers :
          i < j => /\ pam.answers[i][1] < pam.answers[j][1]
                   /\ pam.answers[j][2] # 0 => pam.answers[i][2] < pam.answers[j][2]

\* No message of PAM is shown twice, and they are shown in order.
ShownOnce == \A i, j \in DOMAIN ws.shown : i < j => ws.shown[i] < ws.shown[j]

\* After a session that ended by itself nothing is left of it.
Cleaned == ses.how = "exited" => ~pam.cred /\ ~pam.open /\ ~pam.ticket /\ ~pam.login

\* All of this.
SessionSafe ==
    /\ SessionTypeOK /\ BridgeInSession /\ OwnCgroup /\ OneVerdict /\ ProblemTells
    /\ AnswersPaired /\ ShownOnce /\ Cleaned

\* A login comes to the bridge or to an end, and ends with the bridge:
\* <> Decided, and BridgeOver ~> Ended.
Decided == ses.at \in {"run", "ended"}
BridgeOver == pam.bridge = "exited"
Ended == ses.at = "ended"

-----------------------------------------------------------------------------
(***************************************************************************)
(* The login records of cockpit-session (src/src/session/session-utils.c): *)
(* a failed login is appended to btmp; a login reads when the user was     *)
(* here last, writes the time into lastlog, and counts the failures since, *)
(* entry by entry, to tell the user.  Each process records one login, good *)
(* or failed, several work on the files at the same time, and nothing is   *)
(* locked.                                                                 *)
(*                                                                         *)
(* The clock counts seconds and goes on by itself: any number of steps     *)
(* share a second, and what is written has the time at which its process   *)
(* began.                                                                  *)
(***************************************************************************)
CONSTANTS
    Users,     \* who logs in
    Procs,     \* processes that log in, each once
    MaxTime,   \* bound on the clock
    Errors     \* opening, reading and writing the files may fail

(* What an instance has to satisfy.                                       *)
UsersAssumption == Users # {} /\ MaxTime \in Nat \ {0} /\ Errors \in BOOLEAN
ASSUME RecordsConstants == UsersAssumption

VARIABLES
    lastlog,  \* the time of a user's last login, 0 when there was none
    btmp,     \* the failed logins, in the order of the file
    proc,     \* the login each process records
    now

logVars == <<lastlog, btmp, proc, now>>

NoLogin == [at |-> "idle", user |-> CHOOSE u \in Users : TRUE, time |-> 0, since |-> 0,
         pos |-> 0, count |-> 0, last |-> 0, message |-> "none"]

LogInit ==
    /\ lastlog = [u \in Users |-> 0]
    /\ btmp = <<>>
    /\ proc = [p \in Procs |-> NoLogin]
    /\ now = 1

Tick ==
    /\ now < MaxTime
    /\ now' = now + 1
    /\ UNCHANGED <<lastlog, btmp, proc>>

\* btmp_log() and utmp_log() take the time before they open a file.
TakeTime(p, u, at) ==
    /\ proc[p].at = "idle"
    /\ proc' = [proc EXCEPT ![p] = [NoLogin EXCEPT !.at = at, !.user = u, !.time = now]]
    /\ UNCHANGED <<lastlog, btmp, now>>

Fails(p, u) == TakeTime(p, u, "failed")
Enters(p, u) == TakeTime(p, u, "entered")

\* btmp_log(): the entry is appended, unless the file cannot be written.
BtmpLog(p) ==
    /\ proc[p].at = "failed"
    /\ \/ btmp' = Append(btmp, [user |-> proc[p].user, time |-> proc[p].time])
       \/ Errors /\ UNCHANGED btmp
    /\ proc' = [proc EXCEPT ![p].at = "done"]
    /\ UNCHANGED <<lastlog, now>>

\* do_lastlog() reads the entry of the user.  Without the file, or when
\* reading fails, that is all.
ReadLastlog(p) ==
    /\ proc[p].at = "entered"
    /\ \/ proc' = [proc EXCEPT ![p].at = "read", ![p].since = lastlog[proc[p].user]]
       \/ Errors /\ proc' = [proc EXCEPT ![p].at = "done"]
    /\ UNCHANGED <<lastlog, btmp, now>>

\* A mutant of WriteLastlog: failures are compared with the new entry.
WriteLastlogFirst(p) ==
    /\ proc[p].at = "read"
    /\ lastlog' = [lastlog EXCEPT ![proc[p].user] = proc[p].time]
    /\ proc' = [proc EXCEPT ![p].at = "scan", ![p].since = proc[p].time]
    /\ UNCHANGED <<btmp, now>>

\* The new entry is written where the old one was.  Only then btmp is read,
\* if it is there.
WriteLastlog(p) ==
    /\ proc[p].at = "read"
    /\ \/ /\ lastlog' = [lastlog EXCEPT ![proc[p].user] = proc[p].time]
          /\ proc' = [proc EXCEPT ![p].at = "scan"]
       \/ /\ Errors
          /\ proc' = [proc EXCEPT ![p].at = "done"]
          /\ UNCHANGED lastlog
    /\ UNCHANGED <<btmp, now>>

\* Failures of this user since the last login, in a later second.
Counts(l, e) == e.time > l.since /\ e.user = l.user

\* One entry is read.
ScanEntry(p) ==
    LET l == proc[p]
        e == btmp[l.pos + 1]
    IN proc' = [proc EXCEPT ![p] =
                 IF Counts(l, e)
                 THEN [l EXCEPT !.pos = @ + 1, !.count = @ + 1, !.last = e.time]
                 ELSE [l EXCEPT !.pos = @ + 1]]

Scan(p) ==
    /\ proc[p].at = "scan" /\ proc[p].pos < Len(btmp)
    /\ ScanEntry(p)
    /\ UNCHANGED <<lastlog, btmp, now>>

\* The end of the file: the user is told when there were failures.
ScanEnds(p) ==
    /\ proc[p].at = "scan" /\ proc[p].pos = Len(btmp)
    /\ proc' = [proc EXCEPT ![p].at = "over",
                            ![p].message = IF proc[p].count = 0 THEN "none" ELSE "fails"]
    /\ UNCHANGED <<lastlog, btmp, now>>

\* A signal, or part of an entry: the scan ends and nothing is told.
ScanInterrupted(p) ==
    /\ Errors /\ proc[p].at = "scan"
    /\ proc' = [proc EXCEPT ![p].at = "cut"]
    /\ UNCHANGED <<lastlog, btmp, now>>

\* Any other error that lasts: the entry is read again, and again.
ScanFails(p) ==
    /\ Errors /\ proc[p].at = "scan"
    /\ proc' = [proc EXCEPT ![p].at = "again"]
    /\ UNCHANGED <<lastlog, btmp, now>>

LogNext ==
    \/ Tick
    \/ \E p \in Procs : \/ \E u \in Users : Fails(p, u) \/ Enters(p, u)
                        \/ BtmpLog(p) \/ ReadLastlog(p) \/ WriteLastlog(p)
                        \/ Scan(p) \/ ScanEnds(p) \/ ScanInterrupted(p) \/ ScanFails(p)

LogSpec == LogInit /\ [][LogNext]_logVars

(***************************************************************************)
(* Properties                                                              *)
(***************************************************************************)
\* The state has its type: a scan is within the file, counts no more than it
\* has read, and its last failure is later than the last login.
LogTypeOK ==
    /\ \A u \in Users : lastlog[u] \in 0..MaxTime
    /\ \A p \in Procs : /\ proc[p].pos \in 0..Len(btmp)
                        /\ proc[p].count \in 0..proc[p].pos
                        /\ proc[p].count > 0 => proc[p].last > proc[p].since

\* What a user is told is the number of that user's failures since the login
\* before, of those that were in the file when its end was read, and the last
\* of them in the file, also when more are appended meanwhile.  Nothing is
\* told only when there were none.
FailsExact ==
    \A p \in Procs : proc[p].at = "over" =>
       LET mine == {i \in 1..proc[p].pos :
                       btmp[i].user = proc[p].user /\ btmp[i].time > proc[p].since}
       IN /\ proc[p].count = Cardinality(mine)
          /\ proc[p].message = "fails" <=> mine # {}
          /\ mine # {} => \E i \in mine : /\ btmp[i].time = proc[p].last
                                          /\ \A j \in mine : j <= i

\* A login that was recorded, and that came after the failures of user u at
\* time t while the login before it did not.
Wrote == {"scan", "again", "cut", "over"}
Passes(p, u, t) ==
    /\ proc[p].at \in Wrote /\ proc[p].user = u
    /\ proc[p].since < t /\ t <= proc[p].time

\* No failure falls between two logins, however the sessions cross and
\* whatever fails: one that no later login will count, as lastlog has its
\* second or a later one, was for a login to count that is recorded.  That
\* login has counted it (FailsExact) if it was in the file by then; a failure
\* that takes its time before such a login, or in the same second, and is
\* appended after the scan, is told to nobody.
NoFailBetween ==
    \A i \in DOMAIN btmp :
       btmp[i].time <= lastlog[btmp[i].user] =>
          \E p \in Procs : Passes(p, btmp[i].user, btmp[i].time)

\* All of this.
RecordsSafe == LogTypeOK /\ FailsExact /\ NoFailBetween
-----------------------------------------------------------------------------
(***************************************************************************)
(* The inductive invariant of a session                                    *)
(***************************************************************************)
Before == {"start", "ask", "auth", "gss", "cert"}
PamCalls == {"account", "change", "cred", "open", "recred"}
Entered == PamCalls \cup {"user", "ready", "shell", "run", "close"}

Messages == Seq([style : Styles, id : Nat])
SesState ==
    [at : Before \cup Entered \cup {"ended"}, method : Methods \cup {"none"},
     password : BOOLEAN, conv : Messages, asking : BOOLEAN, good : BOOLEAN,
     text : Seq(Nat), kept : Seq(Nat), tries : 0..2, rounds : 0..MaxRounds,
     want : BOOLEAN, creds : BOOLEAN, ccache : BOOLEAN, handlers : BOOLEAN, child : BOOLEAN,
     how : {"none", "died", "problem", "exited", "killed"}]
Results == PamErrors \cup {"none", "system-err", "authtok-err"}
PamState ==
    [authenticated : BOOLEAN, account : BOOLEAN, cred : BOOLEAN, open : BOOLEAN,
     ticket : BOOLEAN, login : BOOLEAN, result : Results, failed : {0, 1}, answers : Seq(Nat \X Nat), sent : Nat,
     shell : BOOLEAN, bridge : {"none", "runs", "exited", "reaped"}, term : BOOLEAN,
     got : BOOLEAN]
WsState ==
    [prompts : Nat, shown : Seq(Nat),
     problem : {"none", "authentication-failed", "access-denied", "authentication-unavailable",
                "internal-error"}]

\* How far the login is tells what PAM has agreed to: what is opened is
\* opened in this order, and given up only at the end.
Opened ==
    /\ ses.at \in Before => ~pam.authenticated
    /\ ses.at \in Before \cup {"user"} => ~pam.cred /\ ~pam.open /\ ~pam.ticket
    /\ ses.at \in Entered => pam.authenticated
    /\ ses.at \in {"cred", "open", "recred", "shell"} => pam.account
    /\ ses.at \in {"open", "recred", "shell"} => pam.cred
    /\ ses.at \in {"recred", "shell"} => pam.open
    /\ ses.at \in {"ready", "run"} /\ ses.want => pam.account /\ pam.cred /\ pam.open
    /\ ses.at = "run" /\ ses.want => pam.shell /\ (pam.bridge = "runs" => pam.login)
    /\ ~ses.want => /\ ses.at \in {"ready", "run", "close", "ended"}
                    /\ ~pam.cred /\ ~pam.open /\ ~pam.ticket /\ ~pam.login
    /\ pam.login => ses.at = "run" /\ ses.handlers
    /\ pam.ticket => ses.ccache

\* The bridge is started last, and is reaped before the session closes.
Started ==
    /\ ses.at \in (Before \cup Entered) \ {"run", "close"} => pam.bridge = "none"
    /\ ses.at = "run" => pam.bridge \in {"runs", "exited"}
    /\ ses.at = "close" => pam.bridge = "reaped"
    /\ BridgeInSession

\* What the end of the process says, and what cockpit-ws was told.
Verdict ==
    /\ ses.how = "none" <=> ses.at # "ended"
    /\ ses.at # "ended" => pam.failed = 0
    /\ ws.problem # "none" => ses.how = "problem" /\ pam.bridge = "none"
    /\ ProblemTells /\ Cleaned
    /\ ses.conv # NoMsgs => ses.at \in PamCalls \cup {"auth"}
    /\ ses.asking => ses.conv # NoMsgs \/ ses.at = "gss"

\* Messages of PAM are numbered in order, and the last of them are those of
\* the batch that is gone through.
Rising(q) == \A i, j \in DOMAIN q : i < j => q[i] < q[j]
Below(q, r) == \A i \in DOMAIN q, j \in DOMAIN r : q[i] < r[j]
UpTo(q, n) == \A i \in DOMAIN q : q[i] <= n

Done == pam.sent - Len(ses.conv)

\* Answers are for messages that are done; the prompt that is out has the
\* highest number, and the password has not been used while it is kept.
Paired ==
    /\ Len(ses.conv) <= pam.sent
    /\ \A i \in DOMAIN ses.conv : ses.conv[i].id = Done + i
    /\ \A i \in DOMAIN pam.answers : /\ pam.answers[i][1] <= Done
                                     /\ pam.answers[i][2] <= ws.prompts
                                     /\ ses.asking => pam.answers[i][2] < ws.prompts
                                     /\ ses.password => pam.answers[i][2] # 0
    /\ ses.at \in {"start", "ask"} => pam.answers = <<>>
    /\ ses.asking => ws.prompts # 0
    /\ AnswersPaired

\* What was shown comes before what is collected or kept, and all of it
\* before the messages to come.
Shown ==
    /\ Rising(ws.shown) /\ Rising(ses.text) /\ Rising(ses.kept)
    /\ Below(ws.shown, ses.text) /\ Below(ws.shown, ses.kept)
    /\ UpTo(ws.shown, Done) /\ UpTo(ses.text, Done) /\ UpTo(ses.kept, Done)
    /\ ses.conv # NoMsgs => ses.kept = <<>>

SessionInv ==
    /\ ses \in SesState /\ pam \in PamState /\ ws \in WsState
    /\ Opened /\ Started /\ Verdict /\ Paired /\ Shown
-----------------------------------------------------------------------------
(***************************************************************************)
(* Proofs                                                                  *)
(***************************************************************************)

\* Nothing has been asked, opened or said in the beginning.
LEMMA SessionInitOK == SessionInit => SessionInv
<1> SUFFICES ASSUME SessionInit PROVE SessionInv
  OBVIOUS
<1>0. MaxRounds \in Nat
  BY SessionConstants DEF SessionAssumption
<1>1. ses \in SesState
  BY <1>0 DEF SessionInit, SesState, Before, NoMsgs, Messages
<1>2. pam \in PamState /\ ws \in WsState
  BY DEF SessionInit, PamState, WsState, Results
<1>3. /\ ses.at = "start" /\ ses.conv = NoMsgs /\ ses.conv = <<>> /\ ~ses.asking /\ ses.text = <<>> /\ ses.kept = <<>>
      /\ ses.want /\ ses.how = "none" /\ ses.handlers = FALSE
      /\ ~pam.authenticated /\ ~pam.cred /\ ~pam.open /\ ~pam.ticket /\ ~pam.login /\ pam.failed = 0
      /\ pam.answers = <<>> /\ pam.sent = 0 /\ pam.bridge = "none"
      /\ ws.prompts = 0 /\ ws.shown = <<>> /\ ws.problem = "none"
  BY DEF SessionInit, NoMsgs
<1>4. Opened /\ Started /\ Verdict
  BY <1>3 DEF Opened, Started, Verdict, BridgeInSession, ProblemTells, Cleaned, Before, Entered,
              PamCalls
<1>5. Paired /\ Shown
  BY <1>3 DEF Paired, Shown, Done, AnswersPaired, Rising, Below, UpTo, NoMsgs
<1> QED
  BY <1>1, <1>2, <1>4, <1>5 DEF SessionInv

\* A step outside the conversation keeps what it has come to: the batch stays
\* or is given up, and a new prompt has a new number.
LEMMA ConversationKept ==
    ASSUME SessionInv, ses' \in SesState, pam' \in PamState, ws' \in WsState,
           ses'.conv = ses.conv \/ ses'.conv = <<>>,
           ses'.text = ses.text, ses'.kept = ses.kept,
           pam'.answers = pam.answers, pam'.sent = pam.sent, ws'.shown = ws.shown,
           ws'.prompts >= ws.prompts,
           ses'.asking => ses.asking \/ ws'.prompts > ws.prompts,
           ses'.password => ses.password \/ pam.answers = <<>>,
           ses'.at \in {"start", "ask"} => ses.at \in {"start", "ask"}
    PROVE  Paired' /\ Shown'
<1>1. /\ ses.conv \in Messages /\ pam.sent \in Nat /\ ws.prompts \in Nat /\ ws'.prompts \in Nat
      /\ pam.answers \in Seq(Nat \X Nat) /\ ws.shown \in Seq(Nat) /\ ses.text \in Seq(Nat)
      /\ ses.kept \in Seq(Nat)
  BY DEF SessionInv, SesState, PamState, WsState
<1>0. /\ Len(ses.conv) <= pam.sent
      /\ \A i \in DOMAIN ses.conv : ses.conv[i].id = Done + i
      /\ \A i \in DOMAIN pam.answers : /\ pam.answers[i][1] <= Done
                                       /\ pam.answers[i][2] <= ws.prompts
  BY DEF SessionInv, Paired
<1>2. /\ Len(ses.conv) \in Nat /\ Len(ses'.conv) \in Nat /\ Len(ses'.conv) <= Len(ses.conv)
      /\ Done \in Nat /\ Done' \in Nat /\ Done <= Done'
  <2>1. ses.conv \in Seq([style : Styles, id : Nat])
    BY <1>1 DEF Messages
  <2>2. Len(ses.conv) \in Nat
    BY <2>1
  <2>3. Len(ses'.conv) \in Nat /\ Len(ses'.conv) <= Len(ses.conv)
    BY <2>2
  <2>4. Done = pam.sent - Len(ses.conv) /\ Done' = pam.sent - Len(ses'.conv)
    BY DEF Done
  <2>5. \A n, a, b \in Nat : a <= n /\ b <= a =>
          n - a \in Nat /\ n - b \in Nat /\ n - a <= n - b
    OBVIOUS
  <2>6. Len(ses.conv) <= pam.sent /\ pam.sent \in Nat
    BY <1>0, <1>1
  <2> QED
    BY <2>2, <2>3, <2>4, <2>5, <2>6
<1>3. \A i \in DOMAIN ses'.conv : ses'.conv[i].id = Done' + i
  <2>1. CASE ses'.conv = ses.conv
    BY <1>0, <2>1 DEF Done
  <2>2. CASE ses'.conv = <<>>
    BY <2>2
  <2> QED
    BY <2>1, <2>2
<1>4. \A i \in DOMAIN pam.answers : pam.answers[i][1] \in Nat /\ pam.answers[i][2] \in Nat
  <2>1. \A i \in DOMAIN pam.answers : pam.answers[i] \in Nat \X Nat
    BY <1>1, ElementOfSeq, LenProperties
  <2> QED
    BY <2>1
<1>5. Paired'
  <2>1. \A i \in DOMAIN pam'.answers : /\ pam'.answers[i][1] <= Done'
                                       /\ pam'.answers[i][2] <= ws'.prompts
    <3> SUFFICES ASSUME NEW i \in DOMAIN pam.answers
                 PROVE  pam.answers[i][1] <= Done' /\ pam.answers[i][2] <= ws'.prompts
      OBVIOUS
    <3>1. pam.answers[i][1] \in Nat /\ pam.answers[i][2] \in Nat
      BY <1>4
    <3>2. pam.answers[i][1] <= Done /\ pam.answers[i][2] <= ws.prompts
      BY <1>0
    <3>3. ws.prompts \in Nat /\ ws'.prompts \in Nat /\ ws.prompts <= ws'.prompts
      BY <1>1
    <3>4. \A k, l, m \in Nat : k <= l /\ l <= m => k <= m
      OBVIOUS
    <3> QED
      BY <1>2, <3>1, <3>2, <3>3, <3>4
  <2>2. \A i \in DOMAIN pam'.answers : /\ ses'.asking => pam'.answers[i][2] < ws'.prompts
                                       /\ ses'.password => pam'.answers[i][2] # 0
    <3>1. \A i \in DOMAIN pam.answers : /\ ses.asking => pam.answers[i][2] < ws.prompts
                                        /\ ses.password => pam.answers[i][2] # 0
      BY DEF SessionInv, Paired
    <3> SUFFICES ASSUME NEW i \in DOMAIN pam.answers
                 PROVE  /\ ses'.asking => pam.answers[i][2] < ws'.prompts
                        /\ ses'.password => pam.answers[i][2] # 0
      OBVIOUS
    <3>2. pam.answers[i][2] \in Nat /\ pam.answers[i][2] <= ws.prompts
      BY <1>0, <1>4
    <3>3. ses'.asking => pam.answers[i][2] < ws'.prompts
      <4>1. \A k, l, m \in Nat : (k <= l /\ l < m => k < m) /\ (k < l /\ l <= m => k < m)
        OBVIOUS
      <4>2. ws.prompts \in Nat /\ ws'.prompts \in Nat /\ ws.prompts <= ws'.prompts
        BY <1>1
      <4> QED
        BY <3>1, <3>2, <4>1, <4>2
    <3>4. ses'.password => pam.answers[i][2] # 0
      BY <3>1
    <3> QED
      BY <3>3, <3>4
  <2>3. (ses'.at \in {"start", "ask"} => pam'.answers = <<>>) /\ AnswersPaired'
    BY DEF SessionInv, Paired, AnswersPaired
  <2>4. ses'.asking => ws'.prompts # 0
    BY <1>1 DEF SessionInv, Paired
  <2> QED
    BY <1>1, <1>2, <1>3, <2>1, <2>2, <2>3, <2>4 DEF Paired, SessionInv, Done
<1>6. Shown'
  <2>1. Rising(ws'.shown) /\ Rising(ses'.text) /\ Rising(ses'.kept)
        /\ Below(ws'.shown, ses'.text) /\ Below(ws'.shown, ses'.kept)
    BY DEF SessionInv, Shown
  <2>2. \A q \in Seq(Nat) : UpTo(q, Done) => UpTo(q, Done')
    BY <1>2 DEF UpTo
  <2>3. UpTo(ws'.shown, Done') /\ UpTo(ses'.text, Done') /\ UpTo(ses'.kept, Done')
    BY <1>1, <2>2 DEF SessionInv, Shown
  <2>4. ses'.conv # NoMsgs => ses'.kept = <<>>
    BY DEF SessionInv, Shown, NoMsgs
  <2> QED
    BY <2>1, <2>3, <2>4 DEF Shown
<1> QED
  BY <1>5, <1>6

\* A process that ends keeps all but its batch and its prompt.
LEMMA GoneIs ==
    ASSUME NEW t \in SesState, NEW how \in {"died", "problem", "exited", "killed"}
    PROVE  LET u == Gone(t, how)
           IN  /\ u \in SesState /\ u.at = "ended" /\ u.how = how /\ u.conv = <<>> /\ ~u.asking
               /\ u.password = t.password /\ u.text = t.text /\ u.kept = t.kept
               /\ u.want = t.want /\ u.ccache = t.ccache /\ u.handlers = t.handlers
               /\ u.method = t.method
<1> DEFINE u == [t EXCEPT !.at = "ended", !.how = how, !.conv = <<>>, !.asking = FALSE]
<1>1. Gone(t, how) = u
  BY DEF Gone, NoMsgs
<1>2. <<>> \in Messages
  BY DEF Messages
<1>3. u \in SesState
  BY <1>2 DEF SesState
<1>4. /\ u.at = "ended" /\ u.how = how /\ u.conv = <<>> /\ ~u.asking
      /\ u.password = t.password /\ u.text = t.text /\ u.kept = t.kept
      /\ u.want = t.want /\ u.ccache = t.ccache /\ u.handlers = t.handlers
      /\ u.method = t.method
  BY DEF SesState
<1> HIDE DEF u
<1> QED
  BY <1>1, <1>3, <1>4

\* The process ends: what PAM has opened is left as it is or given up, and
\* cockpit-ws is told of a problem only when the bridge was not started.
LEMMA EndsOK ==
    ASSUME SessionInv, ses.at # "ended", NEW how \in {"died", "problem", "exited", "killed"},
           ses' = Gone(ses, how), pam' \in PamState, ws' \in WsState,
           pam'.authenticated = pam.authenticated, pam'.account = pam.account,
           pam'.shell = pam.shell, pam'.bridge = pam.bridge, pam'.answers = pam.answers,
           pam'.sent = pam.sent, ~pam'.login, pam'.login = pam.login,
           pam'.cred => pam.cred, pam'.open => pam.open, pam'.ticket => pam.ticket,
           pam.bridge = "runs" => pam'.cred = pam.cred /\ pam'.open = pam.open,
           how = "exited" => ~pam'.cred /\ ~pam'.open /\ ~pam'.ticket,
           ws'.prompts = ws.prompts, ws'.shown = ws.shown,
           ws'.problem # "none" => how = "problem" /\ pam.bridge = "none",
           ws'.problem = "authentication-failed" /\ pam.authenticated =>
              pam.account \/ pam'.result = "user-unknown",
           ws'.problem = "access-denied" /\ ~pam.authenticated => pam'.result = "perm-denied"
    PROVE  SessionInv'
<1>1. /\ ses' \in SesState /\ ses'.at = "ended" /\ ses'.how = how /\ ses'.conv = <<>>
      /\ ~ses'.asking /\ ses'.password = ses.password /\ ses'.text = ses.text
      /\ ses'.kept = ses.kept /\ ses'.want = ses.want /\ ses'.ccache = ses.ccache
  BY GoneIs DEF SessionInv
<1>2. ws.prompts \in Nat
  BY DEF SessionInv, WsState
<1>3. Paired' /\ Shown'
  BY <1>1, <1>2, ConversationKept
<1>4. Opened'
  BY <1>1 DEF SessionInv, Opened, Before, Entered, PamCalls
<1>5. Started'
  BY <1>1 DEF SessionInv, Started, BridgeInSession, Before, Entered, PamCalls
<1>6. Verdict'
  BY <1>1 DEF Verdict, ProblemTells, Cleaned, NoMsgs
<1> QED
  BY <1>1, <1>3, <1>4, <1>5, <1>6 DEF SessionInv

\* The process ends without a word and leaves PAM as it is.
LEMMA DiesOK ==
    ASSUME SessionInv, ses.at \notin {"ended", "run"}, ses' = Dies(ses), UNCHANGED <<pam, ws>>
    PROVE  SessionInv'
<1>1. ~pam.login /\ ws.problem = "none" /\ pam \in PamState /\ ws \in WsState
  BY DEF SessionInv, Opened, Verdict
<1> QED
  BY <1>1, EndsOK DEF Dies

\* exit_init_problem() before the bridge was started.
LEMMA ProblemOK ==
    ASSUME SessionInv, ses.at \in (Before \cup Entered) \ {"run", "close"}, NEW res,
           ExitInitProblem(res), NEW failed \in {0, 1}, NEW result \in Results,
           pam' = [pam EXCEPT !.result = result, !.failed = failed],
           res \in {"auth-err", "user-unknown"} =>
              ses.at \in Before \/ pam.account \/ result = "user-unknown",
           res = "perm-denied" => ses.at \in Entered \/ result = "perm-denied"
    PROVE  SessionInv'
<1>0. pam \in PamState /\ ws \in WsState
  BY DEF SessionInv
<1>1. /\ pam' \in PamState
      /\ pam'.authenticated = pam.authenticated /\ pam'.account = pam.account
      /\ pam'.shell = pam.shell /\ pam'.bridge = pam.bridge /\ pam'.answers = pam.answers
      /\ pam'.sent = pam.sent /\ pam'.login = pam.login /\ pam'.cred = pam.cred
      /\ pam'.open = pam.open /\ pam'.ticket = pam.ticket /\ pam'.result = result
  BY <1>0 DEF PamState
<1>2. ~pam.login /\ pam.bridge = "none" /\ ses.at # "ended"
  BY DEF SessionInv, Opened, Started, Before, Entered, PamCalls
<1>3. /\ ProblemOf(res) \in {"authentication-failed", "access-denied",
                             "authentication-unavailable", "internal-error"}
      /\ ProblemOf(res) = "authentication-failed" => res \in {"auth-err", "user-unknown"}
      /\ ProblemOf(res) = "access-denied" => res = "perm-denied"
  BY DEF ProblemOf
<1>4. ses' = Gone(ses, "problem") /\ ws' = [ws EXCEPT !.problem = ProblemOf(res)]
  BY DEF ExitInitProblem
<1>5. ws' \in WsState /\ ws'.problem = ProblemOf(res) /\ ws'.prompts = ws.prompts
      /\ ws'.shown = ws.shown
  BY <1>0, <1>3, <1>4 DEF WsState
<1>6. /\ ProblemOf(res) = "authentication-failed" /\ pam.authenticated =>
            pam.account \/ result = "user-unknown"
      /\ ProblemOf(res) = "access-denied" /\ ~pam.authenticated => result = "perm-denied"
  BY <1>3 DEF SessionInv, Opened
<1> QED
  BY <1>1, <1>2, <1>4, <1>5, <1>6, EndsOK

\* The same, with what was noted of failed logins left alone.
LEMMA QuietProblemOK ==
    ASSUME SessionInv, ses.at \in (Before \cup Entered) \ {"run", "close"}, NEW res,
           ExitInitProblem(res), UNCHANGED pam,
           res \in {"auth-err", "user-unknown"} => ses.at \in Before,
           res = "perm-denied" => ses.at \in Entered
    PROVE  SessionInv'
<1>1. /\ pam' = [pam EXCEPT !.result = pam.result, !.failed = pam.failed]
      /\ pam.failed \in {0, 1} /\ pam.result \in Results
  BY DEF SessionInv, PamState
<1> QED
  BY <1>1, ProblemOK

\* open_session() failed.
LEMMA OpenFailsOK ==
    ASSUME SessionInv, ses.at \in PamCalls \cup {"user"}, NEW res \in Results, OpenFails(res),
           res = "auth-err" => ses.at # "user"
    PROVE  SessionInv'
<1> DEFINE r == IF res = "auth-err" /\ ses.at \in {"account", "change"} THEN "perm-denied" ELSE res
           f == pam.failed + (IF ses.method = "negotiate" THEN 1 ELSE 0)
<1>1. ExitInitProblem(r) /\ pam' = [pam EXCEPT !.result = res, !.failed = f]
  BY DEF OpenFails
<1>2. pam.failed = 0
  BY DEF SessionInv, Verdict, PamCalls
<1>3. f \in {0, 1}
  BY <1>2
<1>4. r \in {"auth-err", "user-unknown"} => pam.account \/ res = "user-unknown"
  BY DEF SessionInv, Opened, PamCalls
<1>5. ses.at \in Entered \ {"run", "close"}
  BY DEF Entered, PamCalls
<1> HIDE DEF r, f
<1> QED
  BY <1>1, <1>3, <1>4, <1>5, ProblemOK

\* A step of a process that goes on, outside the conversation: what is opened
\* and started is all that has to be looked at.
LEMMA GoesOnOK ==
    ASSUME SessionInv, ses' \in SesState, pam' \in PamState, ws' \in WsState,
           ses.at # "ended", ses'.at # "ended", ses'.how = ses.how,
           ses'.conv = ses.conv, ses'.at = ses.at \/ ses.conv = NoMsgs,
           ses'.text = ses.text, ses'.kept = ses.kept,
           pam'.answers = pam.answers, pam'.sent = pam.sent, pam'.failed = pam.failed,
           ws'.shown = ws.shown, ws'.problem = ws.problem, ws'.prompts >= ws.prompts,
           ses'.asking => (ses.asking /\ ses'.at = ses.at) \/ (ses'.at = "gss" /\ ws'.prompts > ws.prompts),
           ses'.password => ses.password \/ pam.answers = <<>>,
           ses'.at \in {"start", "ask"} => ses.at \in {"start", "ask"},
           Opened', Started'
    PROVE  SessionInv'
<1>1. Paired' /\ Shown'
  BY ConversationKept
<1>2. Verdict'
  BY DEF SessionInv, Verdict, ProblemTells, Cleaned
<1> QED
  BY <1>1, <1>2 DEF SessionInv

\* The challenge is sent.
LEMMA StartOK == ASSUME SessionInv, Start PROVE SessionInv'
<1>0. ses \in SesState /\ pam \in PamState /\ ws \in WsState /\ ses.at = "start" /\ pam' = pam
      /\ ses' = [ses EXCEPT !.at = "ask"] /\ ws' = [ws EXCEPT !.prompts = @ + 1]
  BY DEF SessionInv, Start
<1>1. /\ ses' \in SesState /\ ses'.at = "ask" /\ ses'.how = ses.how /\ ses'.conv = ses.conv
      /\ ses'.text = ses.text /\ ses'.kept = ses.kept /\ ses'.asking = ses.asking
      /\ ses'.password = ses.password /\ ses'.want = ses.want /\ ses'.ccache = ses.ccache
  BY <1>0 DEF SesState, Before
<1>2. /\ ws' \in WsState /\ ws'.shown = ws.shown /\ ws'.problem = ws.problem
      /\ ws'.prompts = ws.prompts + 1 /\ ws.prompts \in Nat
  BY <1>0 DEF WsState
<1>3. Opened' /\ Started'
  BY <1>0, <1>1 DEF SessionInv, Opened, Started, BridgeInSession, Before, Entered, PamCalls
<1>4. ses.conv = NoMsgs /\ ~ses.asking
  BY <1>0 DEF SessionInv, Verdict, PamCalls
<1> QED
  BY <1>0, <1>1, <1>2, <1>3, <1>4, GoesOnOK

\* Nothing is asked except while PAM is called or Kerberos negotiates.
LEMMA NothingAsked ==
    ASSUME SessionInv, ses.at \notin PamCalls \cup {"auth", "gss"}
    PROVE  ses.conv = NoMsgs /\ ~ses.asking
BY DEF SessionInv, Verdict

\* The process goes on to the next call.
LEMMA MovesOK ==
    ASSUME SessionInv, ses.at # "ended", NEW at \in (Before \cup Entered) \ {"start", "ask"},
           ses.conv = NoMsgs, ~ses.asking, ses' = [ses EXCEPT !.at = at], pam' \in PamState,
           pam'.answers = pam.answers, pam'.sent = pam.sent, pam'.failed = pam.failed, ws' = ws,
           Opened', Started'
    PROVE  SessionInv'
<1>0. ses \in SesState /\ ws \in WsState /\ ws.prompts \in Nat
  BY DEF SessionInv, WsState
<1>1. /\ ses' \in SesState /\ ses'.at = at /\ ses'.how = ses.how /\ ses'.conv = ses.conv
      /\ ses'.text = ses.text /\ ses'.kept = ses.kept /\ ses'.asking = ses.asking
      /\ ses'.password = ses.password
  BY <1>0 DEF SesState
<1>2. at # "ended"
  BY DEF Before, Entered, PamCalls
<1> QED
  BY <1>0, <1>1, <1>2, GoesOnOK

\* The answer of cockpit-ws is not the message expected.
LEMMA BadResponseOK == ASSUME SessionInv, BadResponse PROVE SessionInv'
<1>1. ses.at \notin {"ended", "run"}
  <2>1. CASE ses.at = "ask"
    BY <2>1
  <2>2. CASE ses.asking
    BY <2>2 DEF SessionInv, Verdict, PamCalls
  <2> QED
    BY <2>1, <2>2 DEF BadResponse
<1> QED
  BY <1>1, DiesOK DEF BadResponse

\* The authorization comes.
LEMMA AuthorizationOK ==
    ASSUME SessionInv, NEW m \in Methods, NEW valid \in BOOLEAN, Authorization(m, valid)
    PROVE  SessionInv'
<1>0. ses \in SesState /\ pam \in PamState /\ ws \in WsState /\ ses.at = "ask" /\ pam' = pam
      /\ ws.prompts \in Nat /\ ses.conv = NoMsgs /\ ~ses.asking
  BY NothingAsked DEF SessionInv, Authorization, WsState, PamCalls
<1>1. CASE ExitInitProblem("buf-err")
  BY <1>0, <1>1, QuietProblemOK DEF Before
<1>2. CASE ses' = Dies(ses) /\ ws' = ws
  BY <1>0, <1>2, DiesOK
<1>3. ASSUME NEW at \in {"auth", "gss", "cert"}, NEW password \in BOOLEAN,
             ses' = [ses EXCEPT !.at = at, !.method = m, !.password = password], ws' = ws
      PROVE  SessionInv'
  <2>1. /\ ses' \in SesState /\ ses'.at = at /\ ses'.how = ses.how /\ ses'.conv = ses.conv
        /\ ses'.text = ses.text /\ ses'.kept = ses.kept /\ ses'.asking = ses.asking
        /\ ses'.want = ses.want /\ ses'.ccache = ses.ccache
    BY <1>0, <1>3 DEF SesState, Before
  <2>2. pam.answers = <<>>
    BY <1>0 DEF SessionInv, Paired
  <2>3. Opened' /\ Started'
    BY <1>0, <2>1 DEF SessionInv, Opened, Started, BridgeInSession, Before, Entered, PamCalls
  <2>4. ws' \in WsState /\ ws'.shown = ws.shown /\ ws'.problem = ws.problem
        /\ ws'.prompts >= ws.prompts
    BY <1>0, <1>3
  <2>5. ses'.at # "ended" /\ ses'.at \notin {"start", "ask"} /\ ~ses'.asking
    BY <1>0, <1>3, <2>1
  <2> QED
    BY <1>0, <2>1, <2>2, <2>3, <2>4, <2>5, GoesOnOK
<1>4. CASE ses' = [ses EXCEPT !.at = "auth", !.method = m, !.password = TRUE] /\ ws' = ws
  BY <1>3, <1>4
<1>5. CASE \E at \in {"gss", "cert"} : ses' = [ses EXCEPT !.at = at, !.method = m] /\ ws' = ws
  <2>1. PICK at \in {"gss", "cert"} : ses' = [ses EXCEPT !.at = at, !.method = m] /\ ws' = ws
    BY <1>5
  <2>2. ses' = [ses EXCEPT !.at = at, !.method = m, !.password = ses.password]
        /\ ses.password \in BOOLEAN
    BY <1>0, <2>1 DEF SesState
  <2> QED
    BY <1>3, <2>1, <2>2
<1> QED
  BY <1>1, <1>2, <1>4, <1>5 DEF Authorization

\* pam_authenticate() returns.
LEMMA AuthenticatedOK == ASSUME SessionInv, Authenticated PROVE SessionInv'
<1>0. ses \in SesState /\ pam \in PamState /\ ses.at = "auth" /\ ses.conv = NoMsgs /\ ~ses.asking
  BY DEF SessionInv, Authenticated, PamsTurn
<1>1. CASE /\ ses' = [ses EXCEPT !.at = "user"]
           /\ pam' = [pam EXCEPT !.authenticated = TRUE] /\ ws' = ws
  <2>1. /\ pam' \in PamState /\ pam'.answers = pam.answers /\ pam'.sent = pam.sent
        /\ pam'.failed = pam.failed /\ pam'.authenticated /\ pam'.bridge = pam.bridge
        /\ pam'.cred = pam.cred /\ pam'.open = pam.open /\ pam'.ticket = pam.ticket
        /\ pam'.login = pam.login
    BY <1>0, <1>1 DEF PamState
  <2>2. ses'.at = "user" /\ ses'.want = ses.want /\ ses'.ccache = ses.ccache
    BY <1>0, <1>1 DEF SesState
  <2>3. Opened' /\ Started'
    BY <1>0, <2>1, <2>2 DEF SessionInv, Opened, Started, BridgeInSession, Before, Entered, PamCalls
  <2> QED
    BY <1>0, <1>1, <2>1, <2>3, MovesOK DEF Entered
<1>2. ASSUME NEW res \in PamErrors, ExitInitProblem(res),
             pam' = [pam EXCEPT !.result = res, !.failed = @ + 1]
      PROVE  SessionInv'
  <2>1. pam.failed = 0
    BY <1>0 DEF SessionInv, Verdict
  <2>2. pam' = [pam EXCEPT !.result = res, !.failed = 1] /\ res \in Results
    BY <1>2, <2>1 DEF Results
  <2> QED
    BY <1>0, <1>2, <2>2, ProblemOK DEF Before
<1> QED
  BY <1>1, <1>2 DEF Authenticated

\* A round of the Kerberos negotiation.
LEMMA NegotiatedOK == ASSUME SessionInv, Negotiated \/ NegotiateAnswered PROVE SessionInv'
<1>0. /\ ses \in SesState /\ pam \in PamState /\ ws \in WsState /\ ses.at = "gss"
      /\ ses.conv = NoMsgs /\ ws.prompts \in Nat /\ ses.rounds \in Nat
  <2>1. ses \in SesState /\ pam \in PamState /\ ws \in WsState /\ ses.at = "gss"
    BY DEF SessionInv, Negotiated, NegotiateAnswered
  <2>2. ses.conv = NoMsgs
    BY <2>1 DEF SessionInv, Verdict, PamCalls
  <2> QED
    BY <2>1, <2>2 DEF WsState, SesState
<1>1. CASE (ExitInitProblem("unavail") \/ ExitInitProblem("auth-err")) /\ pam' = pam
  BY <1>0, <1>1, QuietProblemOK DEF Before
<1>2. CASE /\ ses' = [ses EXCEPT !.asking = TRUE, !.rounds = @ + 1] /\ ses.rounds < MaxRounds
           /\ ws' = [ws EXCEPT !.prompts = @ + 1] /\ pam' = pam
  <2>0. ses.rounds + 1 \in 0..MaxRounds
    BY <1>0, <1>2, SessionConstants DEF SessionAssumption
  <2>1. /\ ses' \in SesState /\ ses'.at = "gss" /\ ses'.how = ses.how /\ ses'.conv = ses.conv
        /\ ses'.text = ses.text /\ ses'.kept = ses.kept /\ ses'.password = ses.password
        /\ ses'.want = ses.want /\ ses'.ccache = ses.ccache
    BY <1>0, <1>2, <2>0 DEF SesState
  <2>2. /\ ws' \in WsState /\ ws'.shown = ws.shown /\ ws'.problem = ws.problem
        /\ ws'.prompts = ws.prompts + 1
    BY <1>0, <1>2 DEF WsState
  <2>3. Opened' /\ Started'
    BY <1>0, <1>2, <2>1 DEF SessionInv, Opened, Started, BridgeInSession, Before, Entered, PamCalls
  <2>4. ws'.prompts >= ws.prompts /\ ws'.prompts > ws.prompts
    BY <1>0, <2>2
  <2> QED
    BY <1>0, <1>2, <2>1, <2>2, <2>3, <2>4, GoesOnOK
<1>3. CASE \E creds \in BOOLEAN :
             /\ ses' = [ses EXCEPT !.at = "user", !.creds = creds]
             /\ pam' = [pam EXCEPT !.authenticated = TRUE] /\ ws' = ws /\ ~ses.asking
  <2>1. /\ pam' \in PamState /\ pam'.answers = pam.answers /\ pam'.sent = pam.sent
        /\ pam'.failed = pam.failed /\ pam'.authenticated /\ pam'.bridge = pam.bridge
        /\ pam'.cred = pam.cred /\ pam'.open = pam.open /\ pam'.ticket = pam.ticket
        /\ pam'.login = pam.login
    BY <1>0, <1>3 DEF PamState
  <2>2. /\ ses' \in SesState /\ ses'.at = "user" /\ ses'.how = ses.how /\ ses'.conv = ses.conv
        /\ ses'.text = ses.text /\ ses'.kept = ses.kept /\ ses'.password = ses.password
        /\ ses'.want = ses.want /\ ses'.ccache = ses.ccache /\ ses'.asking = ses.asking
    <3>1. PICK creds \in BOOLEAN : ses' = [ses EXCEPT !.at = "user", !.creds = creds]
      BY <1>3
    <3> QED
      BY <1>0, <3>1 DEF SesState, Entered
  <2>3. Opened' /\ Started'
    BY <1>0, <2>1, <2>2 DEF SessionInv, Opened, Started, BridgeInSession, Before, Entered, PamCalls
  <2> QED
    BY <1>0, <1>3, <2>1, <2>2, <2>3, GoesOnOK
<1>4. CASE ses' = [ses EXCEPT !.asking = FALSE] /\ pam' = pam /\ ws' = ws
  <2>1. /\ ses' \in SesState /\ ses'.at = "gss" /\ ses'.how = ses.how /\ ses'.conv = ses.conv
        /\ ses'.text = ses.text /\ ses'.kept = ses.kept /\ ses'.password = ses.password
        /\ ses'.want = ses.want /\ ses'.ccache = ses.ccache /\ ~ses'.asking
    BY <1>0, <1>4 DEF SesState
  <2>2. Opened' /\ Started'
    BY <1>0, <1>4, <2>1 DEF SessionInv, Opened, Started, BridgeInSession, Before, Entered, PamCalls
  <2> QED
    BY <1>0, <1>4, <2>1, <2>2, GoesOnOK
<1> QED
  BY <1>1, <1>2, <1>3, <1>4 DEF Negotiated, NegotiateAnswered

\* A file whose first line begins with our cgroup is one for our cgroup.
LEMMA MappedIsOurs == ASSUME NEW c \in CertFiles, MapUser(c) PROVE c.cgroup = Ours
<1> DEFINE g == c.cgroup
           h == <<"eol", "pem">>
           T == {"a", "b", "eol", "pem"}
           p == Append(Ours, "eol")
           f == g \o h
<1>1. g \in {<<"a">>, <<"b">>, <<"a", "b">>}
  BY DEF CertFiles
<1>2. /\ Ours \in Seq(T) /\ Len(Ours) = 1 /\ Ours[1] = "a"
      /\ h \in Seq(T) /\ Len(h) = 2 /\ h[1] = "eol"
  BY DEF Ours
<1>3. IsPrefix(p, f)
  BY DEF MapUser
<1> HIDE DEF h, g
<1>4. p \in Seq(T) /\ Len(p) = 2 /\ p[1] = "a" /\ p[2] = "eol"
  <2>1. PICK e \in T : e = "eol"
    OBVIOUS
  <2> HIDE DEF T
  <2>2. p = Append(Ours, e)
    BY <2>1
  <2> HIDE DEF p
  <2>3. Ours \in Seq(T)
    BY <1>2
  <2>4. Append(Ours, e) \in Seq(T)
    BY <2>3, AppendProperties
  <2>5. /\ Len(Append(Ours, e)) = Len(Ours) + 1
        /\ \A i \in 1 .. Len(Ours) : Append(Ours, e)[i] = Ours[i]
        /\ Append(Ours, e)[Len(Ours) + 1] = e
    BY <2>3, AppendProperties
  <2> QED
    BY <1>2, <2>1, <2>2, <2>4, <2>5
<1>5. g \in Seq(T) /\ Len(g) \in 1..2
  <2>1. CASE g = <<"a">>
    BY <2>1
  <2>2. CASE g = <<"b">>
    BY <2>2
  <2>3. CASE g = <<"a", "b">>
    BY <2>3
  <2> QED
    BY <1>1, <2>1, <2>2, <2>3
<1>6. /\ f \in Seq(T) /\ Len(f) >= 2 /\ f[1] = g[1]
      /\ Len(g) = 2 => f[2] = g[2]
  <2> HIDE DEF T
  <2>1. /\ f \in Seq(T) /\ Len(f) = Len(g) + Len(h)
        /\ \A i \in 1 .. Len(g) + Len(h) : f[i] = IF i <= Len(g) THEN g[i] ELSE h[i - Len(g)]
    BY <1>2, <1>5, ConcatProperties
  <2> QED
    BY <1>2, <1>5, <2>1
<1> HIDE DEF p, f
<1>7. SubSeq(p, 1, 2) = SubSeq(f, 1, 2)
  BY <1>3, <1>4 DEF IsPrefix
<1>8. \A q \in Seq(T) : Len(q) >= 2 => SubSeq(q, 1, 2)[1] = q[1] /\ SubSeq(q, 1, 2)[2] = q[2]
  <2> HIDE DEF T
  <2> SUFFICES ASSUME NEW q \in Seq(T), Len(q) >= 2
               PROVE  SubSeq(q, 1, 2)[1] = q[1] /\ SubSeq(q, 1, 2)[2] = q[2]
    OBVIOUS
  <2>1. \A i \in 1..2 : q[i] \in T
    BY ElementOfSeq, LenProperties
  <2>2. \A i \in 1 .. 2 - 1 + 1 : SubSeq(q, 1, 2)[i] = q[1 + i - 1]
    BY <2>1, SubSeqProperties
  <2> QED
    BY <2>2
<1>9. p[1] = f[1] /\ p[2] = f[2]
  BY <1>4, <1>6, <1>7, <1>8
<1>10. g[1] = "a" /\ (Len(g) = 2 => g[2] = "eol")
  BY <1>4, <1>6, <1>9
<1>11. g = <<"a">>
  BY <1>1, <1>10
<1> QED
  BY <1>11 DEF g, Ours

\* A certificate is mapped to a user.
LEMMA CertMappedOK == ASSUME SessionInv, NEW c \in CertFiles, CertMapped(c) PROVE SessionInv'
<1>0. /\ ses \in SesState /\ pam \in PamState /\ ws \in WsState /\ ses.at = "cert"
      /\ ses.conv = NoMsgs /\ ~ses.asking /\ ws.prompts \in Nat
  BY NothingAsked DEF SessionInv, CertMapped, PamCalls, WsState
<1>1. CASE MapUser(c)
  <2>0. PICK creds \in BOOLEAN : ses' = [ses EXCEPT !.at = "user", !.creds = creds]
    BY <1>1 DEF CertMapped
  <2>1. pam' = [pam EXCEPT !.authenticated = TRUE] /\ ws' = ws
    BY <1>1, MappedIsOurs DEF CertMapped
  <2>2. /\ pam' \in PamState /\ pam'.answers = pam.answers /\ pam'.sent = pam.sent
        /\ pam'.failed = pam.failed /\ pam'.authenticated /\ pam'.bridge = pam.bridge
        /\ pam'.cred = pam.cred /\ pam'.open = pam.open /\ pam'.ticket = pam.ticket
        /\ pam'.login = pam.login
    BY <1>0, <2>1 DEF PamState
  <2>3. /\ ses' \in SesState /\ ses'.at = "user" /\ ses'.how = ses.how /\ ses'.conv = ses.conv
        /\ ses'.text = ses.text /\ ses'.kept = ses.kept /\ ses'.password = ses.password
        /\ ses'.want = ses.want /\ ses'.ccache = ses.ccache /\ ses'.asking = ses.asking
    BY <1>0, <2>0 DEF SesState, Entered
  <2>4. Opened' /\ Started'
    BY <1>0, <2>2, <2>3 DEF SessionInv, Opened, Started, BridgeInSession, Before, Entered, PamCalls
  <2> QED
    BY <1>0, <2>1, <2>2, <2>3, <2>4, GoesOnOK
<1>2. CASE ~MapUser(c)
  BY <1>0, <1>2, QuietProblemOK DEF CertMapped, Before
<1> QED
  BY <1>1, <1>2


\* The user is looked up.
LEMMA LookupUserOK == ASSUME SessionInv, LookupUser PROVE SessionInv'
<1>0. /\ ses \in SesState /\ pam \in PamState /\ ws \in WsState /\ ses.at = "user"
      /\ ses.conv = NoMsgs /\ ~ses.asking /\ ws.prompts \in Nat
  BY NothingAsked DEF SessionInv, LookupUser, PamCalls, WsState
<1>1. CASE OpenFails("system-err")
  BY <1>0, <1>1, OpenFailsOK DEF Results
<1>2. CASE ses' = [ses EXCEPT !.at = "account"] /\ pam' = pam /\ ws' = ws
  <2>1. ses'.at = "account" /\ ses'.want = ses.want /\ ses'.ccache = ses.ccache
    BY <1>0, <1>2 DEF SesState
  <2>2. Opened' /\ Started'
    BY <1>0, <1>2, <2>1
       DEF SessionInv, Opened, Started, BridgeInSession, Before, Entered, PamCalls
  <2> QED
    BY <1>0, <1>2, <2>2, MovesOK DEF Entered, PamCalls
<1>3. CASE ses' = [ses EXCEPT !.at = "ready", !.want = FALSE] /\ pam' = pam /\ ws' = ws
  <2>1. /\ ses' \in SesState /\ ses'.at = "ready" /\ ses'.how = ses.how /\ ses'.conv = ses.conv
        /\ ses'.text = ses.text /\ ses'.kept = ses.kept /\ ses'.password = ses.password
        /\ ~ses'.want /\ ses'.ccache = ses.ccache /\ ses'.asking = ses.asking
    BY <1>0, <1>3 DEF SesState, Entered
  <2>2. Opened' /\ Started'
    BY <1>0, <1>3, <2>1
       DEF SessionInv, Opened, Started, BridgeInSession, Before, Entered, PamCalls
  <2> QED
    BY <1>0, <1>3, <2>1, <2>2, GoesOnOK
<1> QED
  BY <1>1, <1>2, <1>3 DEF LookupUser

\* The account is valid, at once or with a new password.
LEMMA AccountOK ==
    ASSUME SessionInv, ses.at \in {"account", "change"}, ses.conv = NoMsgs, ~ses.asking,
           ses' = [ses EXCEPT !.at = "cred"], pam' = [pam EXCEPT !.account = TRUE], ws' = ws
    PROVE  SessionInv'
<1>0. ses \in SesState /\ pam \in PamState
  BY DEF SessionInv
<1>1. /\ pam' \in PamState /\ pam'.answers = pam.answers /\ pam'.sent = pam.sent
      /\ pam'.failed = pam.failed /\ pam'.authenticated = pam.authenticated
      /\ pam'.bridge = pam.bridge /\ pam'.cred = pam.cred /\ pam'.open = pam.open
      /\ pam'.ticket = pam.ticket /\ pam'.login = pam.login /\ pam'.account
  BY <1>0 DEF PamState
<1>2. ses'.at = "cred" /\ ses'.want = ses.want /\ ses'.ccache = ses.ccache
  BY <1>0 DEF SesState
<1>3. Opened' /\ Started'
  BY <1>0, <1>1, <1>2
     DEF SessionInv, Opened, Started, BridgeInSession, Before, Entered, PamCalls
<1> QED
  BY <1>0, <1>1, <1>3, MovesOK DEF Entered, PamCalls

\* pam_acct_mgmt() returns.
LEMMA AccountCheckedOK == ASSUME SessionInv, AccountChecked PROVE SessionInv'
<1>0. ses \in SesState /\ pam \in PamState /\ ses.at = "account" /\ ses.conv = NoMsgs /\ ~ses.asking
  BY DEF SessionInv, AccountChecked, PamsTurn
<1>1. CASE /\ ses' = [ses EXCEPT !.at = "cred"]
           /\ pam' = [pam EXCEPT !.account = TRUE] /\ ws' = ws
  BY <1>0, <1>1, AccountOK
<1>2. CASE ses' = [ses EXCEPT !.at = "change"] /\ pam' = pam /\ ws' = ws
  <2>1. ses'.at = "change" /\ ses'.want = ses.want /\ ses'.ccache = ses.ccache
    BY <1>0, <1>2 DEF SesState
  <2>2. Opened' /\ Started'
    BY <1>0, <1>2, <2>1
       DEF SessionInv, Opened, Started, BridgeInSession, Before, Entered, PamCalls
  <2> QED
    BY <1>0, <1>2, <2>2, MovesOK DEF Entered, PamCalls
<1>3. CASE \E res \in PamErrors : OpenFails(res)
  BY <1>0, <1>3, OpenFailsOK DEF PamCalls, Results
<1> QED
  BY <1>1, <1>2, <1>3 DEF AccountChecked

\* pam_chauthtok() returns.
LEMMA ChangedOK == ASSUME SessionInv, Changed PROVE SessionInv'
<1>0. /\ ses \in SesState /\ pam \in PamState /\ ws \in WsState /\ ses.at = "change"
      /\ ses.conv = NoMsgs /\ ~ses.asking /\ ws.prompts \in Nat
  BY DEF SessionInv, Changed, PamsTurn, WsState
<1>1. CASE /\ ses' = [ses EXCEPT !.at = "cred"]
           /\ pam' = [pam EXCEPT !.account = TRUE] /\ ws' = ws
  BY <1>0, <1>1, AccountOK
<1>2. CASE ses.tries < 2 /\ ses' = [ses EXCEPT !.tries = @ + 1] /\ pam' = pam /\ ws' = ws
  <2>0. ses.tries + 1 \in 0..2
    BY <1>0, <1>2 DEF SesState
  <2>1. /\ ses' \in SesState /\ ses'.at = "change" /\ ses'.how = ses.how /\ ses'.conv = ses.conv
        /\ ses'.text = ses.text /\ ses'.kept = ses.kept /\ ses'.password = ses.password
        /\ ses'.want = ses.want /\ ses'.ccache = ses.ccache /\ ses'.asking = ses.asking
    BY <1>0, <1>2, <2>0 DEF SesState
  <2>2. Opened' /\ Started'
    BY <1>0, <1>2, <2>1
       DEF SessionInv, Opened, Started, BridgeInSession, Before, Entered, PamCalls
  <2> QED
    BY <1>0, <1>2, <2>1, <2>2, GoesOnOK
<1>3. CASE \E res \in PamErrors \cup {"authtok-err"} : OpenFails(res)
  BY <1>0, <1>3, OpenFailsOK DEF PamCalls, Results
<1> QED
  BY <1>1, <1>2, <1>3 DEF Changed, PasswordChanged

\* pam_setcred(PAM_ESTABLISH_CRED) returns.
LEMMA CredEstablishedOK == ASSUME SessionInv, CredEstablished PROVE SessionInv'
<1>0. ses \in SesState /\ pam \in PamState /\ ses.at = "cred" /\ ses.conv = NoMsgs /\ ~ses.asking
  BY DEF SessionInv, CredEstablished, PamsTurn
<1>1. CASE /\ ses' = [ses EXCEPT !.at = "open"]
           /\ pam' = [pam EXCEPT !.cred = TRUE] /\ ws' = ws
  <2>1. /\ pam' \in PamState /\ pam'.answers = pam.answers /\ pam'.sent = pam.sent
        /\ pam'.failed = pam.failed /\ pam'.authenticated = pam.authenticated
        /\ pam'.bridge = pam.bridge /\ pam'.cred /\ pam'.open = pam.open
        /\ pam'.ticket = pam.ticket /\ pam'.login = pam.login /\ pam'.account = pam.account
    BY <1>0, <1>1 DEF PamState
  <2>2. ses'.at = "open" /\ ses'.want = ses.want /\ ses'.ccache = ses.ccache
    BY <1>0, <1>1 DEF SesState
  <2>3. Opened' /\ Started'
    BY <1>0, <2>1, <2>2
       DEF SessionInv, Opened, Started, BridgeInSession, Before, Entered, PamCalls
  <2> QED
    BY <1>0, <1>1, <2>1, <2>3, MovesOK DEF Entered, PamCalls
<1>2. CASE \E res \in PamErrors : OpenFails(res)
  BY <1>0, <1>2, OpenFailsOK DEF PamCalls, Results
<1> QED
  BY <1>1, <1>2 DEF CredEstablished

\* pam_open_session() returns.
LEMMA SessionOpenedOK == ASSUME SessionInv, SessionOpened PROVE SessionInv'
<1>0. ses \in SesState /\ pam \in PamState /\ ses.at = "open" /\ ses.conv = NoMsgs /\ ~ses.asking
  BY DEF SessionInv, SessionOpened, PamsTurn
<1>1. CASE /\ ses' = [ses EXCEPT !.at = "recred"]
           /\ pam' = [pam EXCEPT !.open = TRUE] /\ ws' = ws
  <2>1. /\ pam' \in PamState /\ pam'.answers = pam.answers /\ pam'.sent = pam.sent
        /\ pam'.failed = pam.failed /\ pam'.authenticated = pam.authenticated
        /\ pam'.bridge = pam.bridge /\ pam'.open /\ pam'.cred = pam.cred
        /\ pam'.ticket = pam.ticket /\ pam'.login = pam.login /\ pam'.account = pam.account
    BY <1>0, <1>1 DEF PamState
  <2>2. ses'.at = "recred" /\ ses'.want = ses.want /\ ses'.ccache = ses.ccache
    BY <1>0, <1>1 DEF SesState
  <2>3. Opened' /\ Started'
    BY <1>0, <2>1, <2>2
       DEF SessionInv, Opened, Started, BridgeInSession, Before, Entered, PamCalls
  <2> QED
    BY <1>0, <1>1, <2>1, <2>3, MovesOK DEF Entered, PamCalls
<1>2. CASE \E res \in PamErrors : OpenFails(res)
  BY <1>0, <1>2, OpenFailsOK DEF PamCalls, Results
<1> QED
  BY <1>1, <1>2 DEF SessionOpened

\* pam_setcred(PAM_REINITIALIZE_CRED) returns.
LEMMA CredReinitializedOK == ASSUME SessionInv, CredReinitialized PROVE SessionInv'
<1>0. ses \in SesState /\ pam \in PamState /\ ses.at = "recred" /\ ses.conv = NoMsgs /\ ~ses.asking
  BY DEF SessionInv, CredReinitialized, PamsTurn
<1>1. CASE ses' = [ses EXCEPT !.at = "ready"] /\ pam' = pam /\ ws' = ws
  <2>1. ses'.at = "ready" /\ ses'.want = ses.want /\ ses'.ccache = ses.ccache
    BY <1>0, <1>1 DEF SesState
  <2>2. Opened' /\ Started'
    BY <1>0, <1>1, <2>1
       DEF SessionInv, Opened, Started, BridgeInSession, Before, Entered, PamCalls
  <2> QED
    BY <1>0, <1>1, <2>2, MovesOK DEF Entered, PamCalls
<1>2. CASE \E res \in PamErrors : OpenFails(res)
  BY <1>0, <1>2, OpenFailsOK DEF PamCalls, Results
<1> QED
  BY <1>1, <1>2 DEF CredReinitialized

\* The ticket is stored, and without a session the bridge is started.
LEMMA StoreCredentialsOK == ASSUME SessionInv, StoreCredentials PROVE SessionInv'
<1>0. /\ ses \in SesState /\ pam \in PamState /\ ws \in WsState /\ ses.at = "ready"
      /\ ses.conv = NoMsgs /\ ~ses.asking /\ ws.prompts \in Nat /\ ws' = ws
      /\ ses.want \in BOOLEAN /\ ses.creds \in BOOLEAN
  BY NothingAsked DEF SessionInv, StoreCredentials, PamCalls, WsState, SesState
<1>1. CASE /\ ses' = [ses EXCEPT !.at = IF ses.want THEN "shell" ELSE "run",
                                 !.ccache = ses.want /\ ses.creds]
           /\ \E stored \in BOOLEAN :
                pam' = [pam EXCEPT !.ticket = ses.want /\ ses.creds /\ (stored \/ ~Faults),
                                   !.bridge = IF ses.want THEN @ ELSE "runs"]
  <2>1. PICK at \in {"shell", "run"}, ccache \in BOOLEAN :
             /\ at = (IF ses.want THEN "shell" ELSE "run")
             /\ ccache <=> ses.want /\ ses.creds
             /\ ses' = [ses EXCEPT !.at = at, !.ccache = ccache]
    BY <1>0, <1>1, Zenon
  <2>2. PICK ticket \in BOOLEAN, bridge \in {pam.bridge, "runs"} :
             /\ ticket => ses.want /\ ses.creds
             /\ bridge = IF ses.want THEN pam.bridge ELSE "runs"
             /\ pam' = [pam EXCEPT !.ticket = ticket, !.bridge = bridge]
    BY <1>0, <1>1, Zenon
  <2>3. pam.bridge = "none" /\ pam.bridge \in {"none", "runs", "exited", "reaped"}
    BY <1>0 DEF SessionInv, Started, PamState, Before, Entered
  <2>4. /\ ses' \in SesState /\ ses'.at = at /\ ses'.how = ses.how /\ ses'.conv = ses.conv
        /\ ses'.text = ses.text /\ ses'.kept = ses.kept /\ ses'.password = ses.password
        /\ ses'.want = ses.want /\ ses'.ccache = ccache /\ ses'.asking = ses.asking
    <3>1. at \in Before \cup Entered \cup {"ended"} /\ ses' = [ses EXCEPT !.at = at, !.ccache = ccache]
      BY <2>1 DEF Entered
    <3>2. ses' \in SesState
      BY <1>0, <3>1 DEF SesState
    <3>3. /\ ses'.at = at /\ ses'.how = ses.how /\ ses'.conv = ses.conv
          /\ ses'.text = ses.text /\ ses'.kept = ses.kept /\ ses'.password = ses.password
          /\ ses'.want = ses.want /\ ses'.ccache = ccache /\ ses'.asking = ses.asking
      BY <1>0, <3>1 DEF SesState
    <3> QED
      BY <3>2, <3>3
  <2>5. /\ pam' \in PamState /\ pam'.answers = pam.answers /\ pam'.sent = pam.sent
        /\ pam'.failed = pam.failed /\ pam'.authenticated = pam.authenticated
        /\ pam'.bridge = bridge /\ pam'.open = pam.open /\ pam'.cred = pam.cred
        /\ pam'.ticket = ticket /\ pam'.login = pam.login /\ pam'.account = pam.account
    BY <1>0, <2>2, <2>3 DEF PamState
  <2>6. Opened'
    BY <1>0, <2>1, <2>2, <2>3, <2>4, <2>5 DEF SessionInv, Opened, Before, Entered, PamCalls
  <2>7. Started'
    BY <1>0, <2>1, <2>2, <2>3, <2>4, <2>5
       DEF SessionInv, Opened, Started, BridgeInSession, Before, Entered, PamCalls
  <2> QED
    BY <1>0, <2>1, <2>4, <2>5, <2>6, <2>7, GoesOnOK
<1>2. CASE ses' = Dies(ses) /\ pam' = pam
  BY <1>0, <1>2, DiesOK
<1> QED
  BY <1>1, <1>2 DEF StoreCredentials

\* The login shell is tried.
LEMMA ShellOK == ASSUME SessionInv, Shell PROVE SessionInv'
<1>0. /\ ses \in SesState /\ pam \in PamState /\ ws \in WsState /\ ses.at = "shell"
      /\ ses.conv = NoMsgs /\ ~ses.asking /\ ws.prompts \in Nat
  BY NothingAsked DEF SessionInv, Shell, PamCalls, WsState
<1>1. CASE /\ ses' = [ses EXCEPT !.at = "run", !.handlers = TRUE]
           /\ pam' = [pam EXCEPT !.shell = TRUE, !.login = TRUE, !.bridge = "runs"]
           /\ ws' = ws
  <2>1. /\ ses' \in SesState /\ ses'.at = "run" /\ ses'.how = ses.how /\ ses'.conv = ses.conv
        /\ ses'.text = ses.text /\ ses'.kept = ses.kept /\ ses'.password = ses.password
        /\ ses'.want = ses.want /\ ses'.ccache = ses.ccache /\ ses'.asking = ses.asking
        /\ ses'.handlers
    BY <1>0, <1>1 DEF SesState, Entered
  <2>2. /\ pam' \in PamState /\ pam'.answers = pam.answers /\ pam'.sent = pam.sent
        /\ pam'.failed = pam.failed /\ pam'.authenticated = pam.authenticated
        /\ pam'.bridge = "runs" /\ pam'.open = pam.open /\ pam'.cred = pam.cred
        /\ pam'.ticket = pam.ticket /\ pam'.login /\ pam'.account = pam.account /\ pam'.shell
    BY <1>0, <1>1 DEF PamState
  <2>3. ses.want
    BY <1>0 DEF SessionInv, Opened
  <2>4. Opened' /\ Started'
    BY <1>0, <2>1, <2>2, <2>3
       DEF SessionInv, Opened, Started, BridgeInSession, Before, Entered, PamCalls
  <2> QED
    BY <1>0, <1>1, <2>1, <2>2, <2>4, GoesOnOK
<1>2. CASE ExitInitProblem("perm-denied") /\ pam' = pam
  BY <1>0, <1>2, QuietProblemOK DEF Entered
<1> QED
  BY <1>1, <1>2 DEF Shell, TryShell

\* The bridge ends, before or after the process that started it.
LEMMA BridgeEndsOK == ASSUME SessionInv, BridgeEnds PROVE SessionInv'
<1>0. /\ ses \in SesState /\ pam \in PamState /\ ws \in WsState /\ pam.bridge = "runs"
      /\ ws.prompts \in Nat /\ ses' = ses /\ ws' = ws
      /\ pam' = [pam EXCEPT !.bridge = "exited"]
  BY DEF SessionInv, BridgeEnds, WsState
<1>1. /\ pam' \in PamState /\ pam'.answers = pam.answers /\ pam'.sent = pam.sent
      /\ pam'.failed = pam.failed /\ pam'.authenticated = pam.authenticated
      /\ pam'.bridge = "exited" /\ pam'.open = pam.open /\ pam'.cred = pam.cred
      /\ pam'.ticket = pam.ticket /\ pam'.login = pam.login /\ pam'.account = pam.account
      /\ pam'.shell = pam.shell
  BY <1>0 DEF PamState
<1>2. Opened' /\ Started'
  BY <1>0, <1>1
     DEF SessionInv, Opened, Started, BridgeInSession, Before, Entered, PamCalls
<1>3. Paired' /\ Shown'
  <2>1. ws'.prompts >= ws.prompts
    BY <1>0
  <2> QED
    BY <1>0, <1>1, <2>1, ConversationKept
<1>4. Verdict'
  BY <1>0, <1>1 DEF SessionInv, Verdict, ProblemTells, Cleaned
<1> QED
  BY <1>0, <1>1, <1>2, <1>3, <1>4 DEF SessionInv

\* The bridge is reaped.
LEMMA BridgeReapedOK == ASSUME SessionInv, BridgeReaped PROVE SessionInv'
<1>0. /\ ses \in SesState /\ pam \in PamState /\ ws \in WsState /\ ses.at = "run"
      /\ ses.conv = NoMsgs /\ ~ses.asking /\ ws.prompts \in Nat /\ ws' = ws
      /\ ses' = [ses EXCEPT !.at = "close", !.handlers = FALSE]
      /\ pam' = [pam EXCEPT !.bridge = "reaped", !.login = FALSE]
  BY NothingAsked DEF SessionInv, BridgeReaped, PamCalls, WsState
<1>1. /\ ses' \in SesState /\ ses'.at = "close" /\ ses'.how = ses.how /\ ses'.conv = ses.conv
      /\ ses'.text = ses.text /\ ses'.kept = ses.kept /\ ses'.password = ses.password
      /\ ses'.want = ses.want /\ ses'.ccache = ses.ccache /\ ses'.asking = ses.asking
  BY <1>0 DEF SesState, Entered
<1>2. /\ pam' \in PamState /\ pam'.answers = pam.answers /\ pam'.sent = pam.sent
      /\ pam'.failed = pam.failed /\ pam'.authenticated = pam.authenticated
      /\ pam'.bridge = "reaped" /\ pam'.open = pam.open /\ pam'.cred = pam.cred
      /\ pam'.ticket = pam.ticket /\ ~pam'.login
  BY <1>0 DEF PamState
<1>3. Opened' /\ Started'
  BY <1>0, <1>1, <1>2
     DEF SessionInv, Opened, Started, BridgeInSession, Before, Entered, PamCalls
<1> QED
  BY <1>0, <1>1, <1>2, <1>3, GoesOnOK

\* The session is closed, completely unless a call fails.
LEMMA CloseOK == ASSUME SessionInv, Close PROVE SessionInv'
<1>0. /\ ses \in SesState /\ pam \in PamState /\ ws \in WsState /\ ses.at = "close"
      /\ ~pam.login /\ pam.bridge = "reaped" /\ ws.problem = "none"
  BY DEF SessionInv, Close, Opened, Started, Verdict
<1>1. ses.want \in BOOLEAN /\ ses.ccache \in BOOLEAN /\ pam.ticket \in BOOLEAN
      /\ (pam.ticket => ses.ccache)
      /\ (~ses.want => ~pam.cred /\ ~pam.open /\ ~pam.ticket)
  BY <1>0 DEF SesState, PamState, SessionInv, Opened
<1>2. CASE ses' = Gone(ses, "exited") /\ pam' = pam /\ ~ses.want /\ ws' = ws
  BY <1>0, <1>1, <1>2, EndsOK
<1>3. CASE /\ ses' = Gone(ses, "exited") /\ ses.want /\ ws' = ws
           /\ pam' = [pam EXCEPT !.cred = FALSE, !.open = FALSE, !.ticket = @ /\ ~ses.ccache]
  <2>1. (pam.ticket /\ ~ses.ccache) = FALSE
    BY <1>1
  <2>2. pam' = [pam EXCEPT !.cred = FALSE, !.open = FALSE, !.ticket = FALSE]
    BY <1>3, <2>1, Zenon
  <2>3. /\ pam' \in PamState /\ pam'.answers = pam.answers /\ pam'.sent = pam.sent
        /\ pam'.authenticated = pam.authenticated /\ pam'.account = pam.account
        /\ pam'.shell = pam.shell /\ pam'.bridge = pam.bridge /\ pam'.login = pam.login
        /\ ~pam'.cred /\ ~pam'.open /\ ~pam'.ticket
    BY <1>0, <2>2 DEF PamState
  <2> QED
    BY <1>0, <1>3, <2>3, EndsOK
<1>4. CASE ses' = Dies(ses) /\ pam' = pam /\ ws' = ws
  BY <1>0, <1>4, DiesOK
<1>5. CASE ses' = Dies(ses) /\ pam' = [pam EXCEPT !.cred = FALSE] /\ ws' = ws
  <2>1. /\ pam' \in PamState /\ pam'.answers = pam.answers /\ pam'.sent = pam.sent
        /\ pam'.authenticated = pam.authenticated /\ pam'.account = pam.account
        /\ pam'.shell = pam.shell /\ pam'.bridge = pam.bridge /\ pam'.login = pam.login
        /\ ~pam'.cred /\ pam'.open = pam.open /\ pam'.ticket = pam.ticket
    BY <1>0, <1>5 DEF PamState
  <2> QED
    BY <1>0, <1>5, <2>1, EndsOK DEF Dies
<1> QED
  BY <1>2, <1>3, <1>4, <1>5 DEF Close, CloseSession

\* SIGTERM ends the process unless it is caught, as it is while there is a
\* login on record.
LEMMA TerminateOK == ASSUME SessionInv, Terminate PROVE SessionInv'
<1>0. /\ ses \in SesState /\ pam \in PamState /\ ws \in WsState /\ ses.at # "ended"
      /\ ws.prompts \in Nat /\ ws' = ws /\ ws.problem = "none"
      /\ ses.handlers \in BOOLEAN /\ ses.child \in BOOLEAN
  BY DEF SessionInv, Terminate, WsState, SesState, Verdict
<1>1. PICK got \in BOOLEAN : pam' = [pam EXCEPT !.term = TRUE, !.got = got]
  <2>1. (ses.handlers /\ ses.child) \in BOOLEAN
    OBVIOUS
  <2> QED
    BY <2>1, Zenon DEF Terminate
<1>2. /\ pam' \in PamState /\ pam'.answers = pam.answers /\ pam'.sent = pam.sent
      /\ pam'.authenticated = pam.authenticated /\ pam'.account = pam.account
      /\ pam'.shell = pam.shell /\ pam'.bridge = pam.bridge /\ pam'.login = pam.login
      /\ pam'.cred = pam.cred /\ pam'.open = pam.open /\ pam'.ticket = pam.ticket
      /\ pam'.failed = pam.failed
  BY <1>0, <1>1 DEF PamState
<1>3. CASE ses.handlers
  <2>1. ses' = ses
    BY <1>3 DEF Terminate
  <2>2. Opened' /\ Started'
    BY <1>0, <1>2, <2>1
       DEF SessionInv, Opened, Started, BridgeInSession, Before, Entered, PamCalls
  <2>3. Paired' /\ Shown'
    <3>1. ws'.prompts >= ws.prompts
      BY <1>0
    <3> QED
      BY <1>0, <1>2, <2>1, <3>1, ConversationKept
  <2>4. Verdict'
    BY <1>0, <1>2, <2>1 DEF SessionInv, Verdict, ProblemTells, Cleaned
  <2> QED
    BY <1>0, <1>2, <2>1, <2>2, <2>3, <2>4 DEF SessionInv
<1>4. CASE ~ses.handlers
  <2>1. ses' = Gone(ses, "killed")
    BY <1>4 DEF Terminate
  <2>2. ~pam.login
    BY <1>4 DEF SessionInv, Opened
  <2> QED
    BY <1>0, <1>2, <2>1, <2>2, EndsOK
<1> QED
  BY <1>3, <1>4

\* A message with the next number goes to the end of those collected.
LEMMA RisingAppend ==
    ASSUME NEW n \in Nat, NEW q \in Seq(Nat), Rising(q), UpTo(q, n)
    PROVE  LET a == Append(q, n + 1)
           IN  a \in Seq(Nat) /\ Rising(a) /\ UpTo(a, n + 1)
<1> DEFINE a == Append(q, n + 1)
<1>1. /\ a \in Seq(Nat) /\ Len(a) = Len(q) + 1
      /\ \A i \in 1..Len(q) : a[i] = q[i]
      /\ a[Len(q) + 1] = n + 1
  BY AppendProperties
<1>2. Len(q) \in Nat /\ DOMAIN q = 1..Len(q) /\ \A i \in 1..Len(q) : q[i] \in Nat /\ q[i] <= n
  BY LenProperties, ElementOfSeq DEF UpTo
<1> HIDE DEF a
<1>3. DOMAIN a = 1..(Len(q) + 1)
  BY <1>1, LenProperties
<1>4. UpTo(a, n + 1)
  <2> SUFFICES ASSUME NEW i \in 1..(Len(q) + 1) PROVE a[i] <= n + 1
    BY <1>3 DEF UpTo
  <2>1. CASE i = Len(q) + 1
    BY <1>1, <2>1
  <2>2. CASE i # Len(q) + 1
    <3>1. i \in 1..Len(q)
      BY <1>2, <2>2
    <3>2. a[i] = q[i] /\ q[i] \in Nat /\ q[i] <= n
      BY <1>1, <1>2, <3>1
    <3> QED
      BY <3>2
  <2> QED
    BY <2>1, <2>2
<1>5. Rising(a)
  <2> SUFFICES ASSUME NEW i \in 1..(Len(q) + 1), NEW j \in 1..(Len(q) + 1), i < j
               PROVE  a[i] < a[j]
    BY <1>3 DEF Rising
  <2>1. i \in 1..Len(q) /\ a[i] = q[i] /\ q[i] \in Nat /\ q[i] <= n
    BY <1>1, <1>2
  <2>2. CASE j = Len(q) + 1
    BY <1>1, <2>1, <2>2
  <2>3. CASE j # Len(q) + 1
    <3>1. j \in 1..Len(q)
      BY <1>2, <2>3
    <3>2. a[j] = q[j]
      BY <1>1, <3>1
    <3> QED
      BY <1>2, <2>1, <3>1, <3>2 DEF Rising
  <2> QED
    BY <2>2, <2>3
<1> QED
  BY <1>1, <1>4, <1>5 DEF a

\* It comes after what was shown.
LEMMA BelowAppend ==
    ASSUME NEW n \in Nat, NEW q \in Seq(Nat), NEW r \in Seq(Nat), Below(r, q), UpTo(r, n)
    PROVE  Below(r, Append(q, n + 1))
<1> DEFINE a == Append(q, n + 1)
<1>1. /\ a \in Seq(Nat) /\ Len(a) = Len(q) + 1
      /\ \A i \in 1..Len(q) : a[i] = q[i]
      /\ a[Len(q) + 1] = n + 1
  BY AppendProperties
<1>2. Len(q) \in Nat /\ DOMAIN q = 1..Len(q)
  BY LenProperties
<1> HIDE DEF a
<1>3. DOMAIN a = 1..(Len(q) + 1)
  BY <1>1, LenProperties
<1>4. Below(r, a)
  <2> SUFFICES ASSUME NEW i \in DOMAIN r, NEW j \in 1..(Len(q) + 1) PROVE r[i] < a[j]
    BY <1>3 DEF Below
  <2>1. r[i] \in Nat /\ r[i] <= n
    BY LenProperties, ElementOfSeq DEF UpTo
  <2>2. CASE j = Len(q) + 1
    BY <1>1, <2>1, <2>2
  <2>3. CASE j # Len(q) + 1
    <3>1. j \in 1..Len(q)
      BY <1>2, <2>3
    <3>2. j \in DOMAIN q /\ a[j] = q[j]
      BY <1>1, <1>2, <3>1
    <3> QED
      BY <3>2 DEF Below
  <2> QED
    BY <2>2, <2>3
<1> QED
  BY <1>4 DEF a

\* What was collected is shown after what was shown before.
LEMMA RisingConcat ==
    ASSUME NEW n \in Nat, NEW q \in Seq(Nat), NEW r \in Seq(Nat),
           Rising(q), Rising(r), Below(q, r), UpTo(q, n), UpTo(r, n)
    PROVE  q \o r \in Seq(Nat) /\ Rising(q \o r) /\ UpTo(q \o r, n)
<1> DEFINE c == q \o r
<1>1. /\ c \in Seq(Nat) /\ Len(c) = Len(q) + Len(r)
      /\ \A i \in 1..(Len(q) + Len(r)) : c[i] = IF i <= Len(q) THEN q[i] ELSE r[i - Len(q)]
  BY ConcatProperties
<1>2. /\ Len(q) \in Nat /\ DOMAIN q = 1..Len(q)
      /\ Len(r) \in Nat /\ DOMAIN r = 1..Len(r)
  BY LenProperties
<1> HIDE DEF c
<1>3. DOMAIN c = 1..(Len(q) + Len(r))
  BY <1>1, LenProperties
<1>4. \A i \in DOMAIN c : \/ i \in DOMAIN q /\ c[i] = q[i]
                          \/ i > Len(q) /\ i - Len(q) \in DOMAIN r /\ c[i] = r[i - Len(q)]
  BY <1>1, <1>2, <1>3
<1>5. UpTo(c, n)
  BY <1>4 DEF UpTo
<1>6. Rising(c)
  <2> SUFFICES ASSUME NEW i \in DOMAIN c, NEW j \in DOMAIN c, i < j PROVE c[i] < c[j]
    BY DEF Rising
  <2>0. i \in Nat /\ j \in Nat
    BY <1>2, <1>3
  <2>1. CASE i \in DOMAIN q /\ c[i] = q[i] /\ j \in DOMAIN q /\ c[j] = q[j]
    BY <2>1 DEF Rising
  <2>2. CASE i \in DOMAIN q /\ c[i] = q[i] /\ j - Len(q) \in DOMAIN r /\ c[j] = r[j - Len(q)]
    BY <2>2 DEF Below
  <2>3. CASE /\ i - Len(q) \in DOMAIN r /\ c[i] = r[i - Len(q)]
             /\ j - Len(q) \in DOMAIN r /\ c[j] = r[j - Len(q)]
    <3>1. i - Len(q) < j - Len(q)
      BY <1>2, <2>0
    <3> QED
      BY <2>3, <3>1 DEF Rising
  <2>4. ~(i > Len(q) /\ j \in DOMAIN q)
    BY <1>2, <2>0
  <2> QED
    BY <1>4, <2>1, <2>2, <2>3, <2>4
<1> QED
  BY <1>1, <1>5, <1>6 DEF c

\* The batch goes on to its next message.
LEMMA DoneTail ==
    ASSUME SessionInv, ses.conv # NoMsgs, ses'.conv = Tail(ses.conv), pam'.sent = pam.sent
    PROVE  /\ Done \in Nat /\ Done' = Done + 1
           /\ Head(ses.conv) \in [style : Styles, id : Nat] /\ Head(ses.conv).id = Done + 1
           /\ ses'.conv \in Messages /\ Len(ses'.conv) <= pam'.sent
           /\ \A i \in DOMAIN ses'.conv : ses'.conv[i].id = Done' + i
<1> DEFINE c == ses.conv
           M == [style : Styles, id : Nat]
           t == Tail(c)
<1>1. c \in Seq(M) /\ c # <<>> /\ pam.sent \in Nat
  BY DEF SessionInv, SesState, PamState, Messages, NoMsgs
<1>2. Len(c) <= pam.sent /\ \A i \in DOMAIN c : c[i].id = Done + i
  BY DEF SessionInv, Paired
<1> HIDE DEF c, M
<1>3. Len(c) \in Nat \ {0} /\ DOMAIN c = 1..Len(c)
  BY <1>1, EmptySeq, LenProperties
<1>4. /\ Head(c) \in M /\ t \in Seq(M) /\ Len(t) = Len(c) - 1
      /\ \A i \in 1..Len(t) : t[i] = c[i + 1]
  BY <1>1, HeadTailProperties
<1>5. Head(c) = c[1]
  BY <1>1, <1>3
<1> HIDE DEF t
<1>6. DOMAIN t = 1..Len(t)
  BY <1>4, LenProperties
<1>7. Done = pam.sent - Len(c) /\ Done' = pam.sent - Len(t)
  BY DEF Done, c, t
<1>8. \A n, k, l \in Int : k <= n /\ k > 0 /\ l = k - 1 =>
         n - k \in Nat /\ n - l = (n - k) + 1 /\ l <= n
  OBVIOUS
<1>9. Done \in Nat /\ Done' = Done + 1 /\ Len(t) <= pam.sent
  BY <1>1, <1>2, <1>3, <1>4, <1>7, <1>8
<1>10. Head(c).id = Done + 1
  BY <1>2, <1>3, <1>5
<1>11. \A i \in DOMAIN t : t[i].id = Done' + i
  <2> SUFFICES ASSUME NEW i \in 1..Len(t) PROVE t[i].id = Done' + i
    BY <1>6
  <2>1. i + 1 \in DOMAIN c /\ t[i] = c[i + 1] /\ i \in Nat
    BY <1>3, <1>4
  <2>2. c[i + 1].id = Done + (i + 1)
    BY <1>2, <2>1
  <2>3. \A d \in Nat : d + (i + 1) = (d + 1) + i
    BY <2>1
  <2> QED
    BY <1>9, <2>1, <2>2, <2>3
<1> QED
  BY <1>4, <1>9, <1>10, <1>11 DEF c, t, M, Messages

\* An answer is for a message after all that are answered, and either the
\* password, kept until now, or given to the prompt that is out.
LEMMA AnsweredPaired ==
    ASSUME SessionInv, NEW id \in Nat, Done \in Nat, id = Done + 1, NEW k \in Nat,
           (k = 0 /\ ses.password) \/ (k = ws.prompts /\ ses.asking),
           pam'.answers = Append(pam.answers, <<id, k>>)
    PROVE  /\ AnswersPaired' /\ pam'.answers \in Seq(Nat \X Nat)
           /\ \A i \in DOMAIN pam'.answers :
                 \/ i \in DOMAIN pam.answers /\ pam'.answers[i] = pam.answers[i]
                 \/ pam'.answers[i][1] = id /\ pam'.answers[i][2] = k
<1> DEFINE a == pam.answers
           b == Append(a, <<id, k>>)
<1>1. a \in Seq(Nat \X Nat) /\ <<id, k>> \in Nat \X Nat /\ ws.prompts \in Nat
  BY DEF SessionInv, PamState, WsState
<1>2. /\ \A i \in DOMAIN a : /\ a[i][1] <= Done
                             /\ ses.asking => a[i][2] < ws.prompts
                             /\ ses.password => a[i][2] # 0
      /\ ses.asking => ws.prompts # 0
      /\ \A i, j \in DOMAIN a : a[i][2] = 0 /\ a[j][2] = 0 => i = j
      /\ \A i, j \in DOMAIN a : i < j => /\ a[i][1] < a[j][1]
                                         /\ a[j][2] # 0 => a[i][2] < a[j][2]
  BY DEF SessionInv, Paired, AnswersPaired
<1> HIDE DEF a
<1>3. /\ b \in Seq(Nat \X Nat) /\ Len(b) = Len(a) + 1
      /\ \A i \in 1..Len(a) : b[i] = a[i]
      /\ b[Len(a) + 1] = <<id, k>>
  BY <1>1, AppendProperties
<1>4. Len(a) \in Nat /\ DOMAIN a = 1..Len(a) /\ \A i \in DOMAIN a : a[i] \in Nat \X Nat
  BY <1>1, LenProperties, ElementOfSeq
<1>5. pam'.answers = b
  BY DEF a
<1> HIDE DEF b
<1>6. DOMAIN b = 1..(Len(a) + 1)
  BY <1>3, LenProperties
<1>7. \A i \in DOMAIN b : \/ i \in DOMAIN a /\ b[i] = a[i]
                          \/ i = Len(a) + 1 /\ b[i][1] = id /\ b[i][2] = k
  BY <1>3, <1>4, <1>6
<1>8. \A i \in DOMAIN a : a[i][1] \in Nat /\ a[i][2] \in Nat
  BY <1>4
<1>9. \A i \in DOMAIN a : a[i][1] < id /\ (k = 0 => a[i][2] # 0) /\ (k # 0 => a[i][2] < k)
  <2> SUFFICES ASSUME NEW i \in DOMAIN a
               PROVE  a[i][1] < id /\ (k = 0 => a[i][2] # 0) /\ (k # 0 => a[i][2] < k)
    OBVIOUS
  <2>1. a[i][1] \in Nat /\ a[i][2] \in Nat /\ a[i][1] <= Done
    BY <1>2, <1>8
  <2>2. a[i][1] < id
    BY <2>1
  <2>3. (ses.asking => a[i][2] < ws.prompts) /\ (ses.password => a[i][2] # 0)
        /\ (ses.asking => ws.prompts # 0)
    BY <1>2
  <2> QED
    BY <2>2, <2>3
<1>10. \A i, j \in DOMAIN b : b[i][2] = 0 /\ b[j][2] = 0 => i = j
  <2> SUFFICES ASSUME NEW i \in DOMAIN b, NEW j \in DOMAIN b, b[i][2] = 0, b[j][2] = 0 PROVE i = j
    OBVIOUS
  <2> QED
    BY <1>2, <1>7, <1>9
<1>11. \A i, j \in DOMAIN b : i < j => /\ b[i][1] < b[j][1]
                                       /\ b[j][2] # 0 => b[i][2] < b[j][2]
  <2> SUFFICES ASSUME NEW i \in DOMAIN b, NEW j \in DOMAIN b, i < j
               PROVE  b[i][1] < b[j][1] /\ (b[j][2] # 0 => b[i][2] < b[j][2])
    OBVIOUS
  <2>1. i \in DOMAIN a /\ b[i] = a[i]
    <3>1. i \in 1..Len(a)
      BY <1>4, <1>6
    <3> QED
      BY <1>3, <1>4, <3>1
  <2> QED
    BY <1>2, <1>7, <1>9, <2>1
<1>12. AnswersPaired'
  BY <1>5, <1>10, <1>11 DEF AnswersPaired
<1> QED
  BY <1>3, <1>5, <1>7, <1>12 DEF a

\* A step of the conversation leaves what is opened and started alone.
LEMMA ConvSafe ==
    ASSUME SessionInv, ses.at \in PamCalls \cup {"auth"},
           ses'.at = ses.at, ses'.how = ses.how, ses'.want = ses.want, ses'.ccache = ses.ccache,
           ses'.handlers = ses.handlers, ses'.asking => ses'.conv # NoMsgs,
           pam'.authenticated = pam.authenticated, pam'.account = pam.account,
           pam'.cred = pam.cred, pam'.open = pam.open, pam'.ticket = pam.ticket,
           pam'.login = pam.login, pam'.failed = pam.failed, pam'.shell = pam.shell,
           pam'.bridge = pam.bridge, ws'.problem = ws.problem
    PROVE  Opened' /\ Started' /\ Verdict'
<1>1. Opened'
  BY DEF SessionInv, Opened
<1>2. Started'
  BY DEF SessionInv, Started, BridgeInSession
<1>3. Verdict'
  <2>1. ws.problem = "none"
    BY DEF SessionInv, Verdict, PamCalls
  <2> QED
    BY <2>1 DEF SessionInv, Verdict, ProblemTells, Cleaned
<1> QED
  BY <1>1, <1>2, <1>3

\* The end of a call of pam_conv_func() keeps or drops what was collected.
LEMMA WentIs ==
    ASSUME NEW t \in SesState
    PROVE  LET w == Went(t)
           IN  /\ w \in SesState /\ w.at = t.at /\ w.how = t.how /\ w.want = t.want
               /\ w.ccache = t.ccache /\ w.handlers = t.handlers /\ w.password = t.password
               /\ w.conv = t.conv /\ w.asking = t.asking
               /\ \/ w.text = t.text /\ w.kept = t.kept /\ w.conv # NoMsgs
                  \/ w.text = <<>> /\ w.kept \in {t.text, <<>>} /\ w.conv = NoMsgs
<1>1. CASE t.conv # NoMsgs
  BY <1>1 DEF Went
<1>2. CASE t.conv = NoMsgs
  <2> DEFINE k == IF t.good THEN t.text ELSE <<>>
             w == [t EXCEPT !.kept = k, !.text = <<>>, !.good = TRUE]
  <2>1. Went(t) = w
    BY <1>2 DEF Went, ConvReturns
  <2>2. k \in {t.text, <<>>} /\ k \in Seq(Nat)
    BY DEF SesState
  <2> HIDE DEF k
  <2>3. w \in SesState
    <3>1. <<>> \in Seq(Nat)
      OBVIOUS
    <3> QED
      BY <2>2, <3>1 DEF SesState
  <2>4. /\ w.at = t.at /\ w.how = t.how /\ w.want = t.want
        /\ w.ccache = t.ccache /\ w.handlers = t.handlers /\ w.password = t.password
        /\ w.conv = t.conv /\ w.asking = t.asking /\ w.text = <<>> /\ w.kept = k
    BY DEF SesState
  <2> HIDE DEF w
  <2> QED
    BY <1>2, <2>1, <2>2, <2>3, <2>4
<1> QED
  BY <1>1, <1>2

\* A function on 1..n is a sequence.
LEMMA TupleIsSeq == ASSUME NEW S, NEW n \in Nat, NEW f \in [1..n -> S] PROVE f \in Seq(S)
BY SeqDef

\* PAM sends a batch of messages.
LEMMA PamConvOK ==
    ASSUME SessionInv, NEW n \in 1..2, NEW styles \in [1..n -> Styles], PamConv(styles)
    PROVE  SessionInv'
<1> DEFINE batch == [i \in DOMAIN styles |-> [style |-> styles[i], id |-> pam.sent + i]]
<1>0. /\ ses \in SesState /\ pam \in PamState /\ ws \in WsState /\ ws' = ws
      /\ ses.at \in PamCalls \cup {"auth"} /\ ses.conv = <<>> /\ ~ses.asking
      /\ pam.sent \in Nat /\ ses.text \in Seq(Nat) /\ ses.kept \in Seq(Nat)
      /\ ws.shown \in Seq(Nat) /\ pam.answers \in Seq(Nat \X Nat) /\ ws.prompts \in Nat
  BY DEF SessionInv, PamConv, Calling, PamCalls, NoMsgs, SesState, PamState, WsState
<1>1. styles \in Seq(Styles) /\ Len(styles) = n /\ n \in Nat /\ DOMAIN styles = 1..n
  OBVIOUS
<1>2. pam' = [pam EXCEPT !.sent = pam.sent + n] /\ pam.sent + n \in Nat
  BY <1>0, <1>1 DEF PamConv
<1>3. /\ pam' \in PamState /\ pam'.answers = pam.answers /\ pam'.sent = pam.sent + n
      /\ pam'.authenticated = pam.authenticated /\ pam'.account = pam.account
      /\ pam'.shell = pam.shell /\ pam'.bridge = pam.bridge /\ pam'.login = pam.login
      /\ pam'.cred = pam.cred /\ pam'.open = pam.open /\ pam'.ticket = pam.ticket
      /\ pam'.failed = pam.failed
  BY <1>0, <1>2 DEF PamState
<1>4. Done = pam.sent
  BY <1>0 DEF Done
<1>5. /\ \A i \in DOMAIN pam.answers : /\ pam.answers[i][1] <= pam.sent
                                       /\ pam.answers[i][2] <= ws.prompts
                                       /\ ses.password => pam.answers[i][2] # 0
      /\ AnswersPaired
      /\ Rising(ws.shown) /\ Rising(ses.text) /\ Rising(ses.kept)
      /\ Below(ws.shown, ses.text) /\ Below(ws.shown, ses.kept)
      /\ UpTo(ws.shown, pam.sent) /\ UpTo(ses.text, pam.sent) /\ UpTo(ses.kept, pam.sent)
  BY <1>4 DEF SessionInv, Paired, Shown
<1>6. AnswersPaired'
  BY <1>3, <1>5 DEF AnswersPaired
<1>7. CASE ses' = ses
  <2>1. Opened' /\ Started' /\ Verdict'
    BY <1>0, <1>3, <1>7, ConvSafe
  <2>2. Done' = pam.sent + n /\ Done' \in Nat /\ pam.sent <= Done'
    BY <1>0, <1>1, <1>3, <1>7 DEF Done
  <2>3. \A q \in Seq(Nat) : UpTo(q, pam.sent) => UpTo(q, Done')
    BY <1>0, <2>2 DEF UpTo
  <2>4. \A i \in DOMAIN pam.answers : pam.answers[i][1] <= Done'
    <3> SUFFICES ASSUME NEW i \in DOMAIN pam.answers PROVE pam.answers[i][1] <= Done'
      OBVIOUS
    <3>1. pam.answers[i][1] \in Nat /\ pam.answers[i][1] <= pam.sent
      BY <1>0, <1>5
    <3>2. \A k, l, m \in Nat : k <= l /\ l <= m => k <= m
      OBVIOUS
    <3> QED
      BY <1>0, <2>2, <3>1, <3>2
  <2>5. Paired'
    <3>1. Len(ses'.conv) <= pam'.sent /\ \A i \in DOMAIN ses'.conv : ses'.conv[i].id = Done' + i
      BY <1>0, <1>1, <1>3, <1>7
    <3>2. ses'.at \notin {"start", "ask"} /\ ~ses'.asking /\ ses'.password = ses.password
      BY <1>0, <1>7 DEF PamCalls
    <3> QED
      BY <1>0, <1>3, <1>5, <1>6, <2>4, <3>1, <3>2 DEF Paired
  <2>6. Shown'
    BY <1>0, <1>5, <1>7, <2>3 DEF Shown, NoMsgs
  <2> QED
    BY <1>0, <1>3, <1>7, <2>1, <2>5, <2>6 DEF SessionInv
<1>8. CASE ses' = [ses EXCEPT !.conv = batch, !.text = ses.kept, !.kept = <<>>]
  <2>1. batch \in Messages /\ Len(batch) = n /\ DOMAIN batch = 1..n
        /\ \A i \in 1..n : batch[i].id = pam.sent + i
    <3>1. batch = [i \in 1..n |-> [style |-> styles[i], id |-> pam.sent + i]]
      BY <1>1
    <3>2. \A i \in 1..n : [style |-> styles[i], id |-> pam.sent + i] \in [style : Styles, id : Nat]
      BY <1>0, <1>1
    <3>3. batch \in [1..n -> [style : Styles, id : Nat]]
      BY <3>1, <3>2
    <3>4. \A i \in 1..n : batch[i] = [style |-> styles[i], id |-> pam.sent + i]
      BY <3>1
    <3> HIDE DEF batch
    <3>5. batch \in Seq([style : Styles, id : Nat])
      BY <1>1, <3>3, TupleIsSeq
    <3>6. DOMAIN batch = 1..n /\ Len(batch) = n
      BY <1>1, <3>3, <3>5
    <3> QED
      BY <3>4, <3>5, <3>6 DEF Messages
  <2> HIDE DEF batch
  <2>2. ses' \in SesState
    <3>1. <<>> \in Seq(Nat)
      OBVIOUS
    <3> QED
      BY <1>0, <1>8, <2>1, <3>1 DEF SesState
  <2>3. /\ ses'.at = ses.at /\ ses'.how = ses.how /\ ses'.want = ses.want
        /\ ses'.ccache = ses.ccache /\ ses'.handlers = ses.handlers
        /\ ses'.password = ses.password /\ ses'.asking = ses.asking
        /\ ses'.conv = batch /\ ses'.text = ses.kept /\ ses'.kept = <<>>
    BY <1>0, <1>8 DEF SesState
  <2>4. Opened' /\ Started' /\ Verdict'
    BY <1>0, <1>3, <2>3, ConvSafe
  <2>5. Done' = pam.sent
    <3>1. Done' = (pam.sent + n) - n
      BY <1>3, <2>1, <2>3 DEF Done
    <3> QED
      BY <1>0, <1>1, <3>1
  <2>6. Paired'
    <3>1. n <= pam.sent + n
      BY <1>0, <1>1
    <3>2. Len(ses'.conv) <= pam'.sent /\ \A i \in DOMAIN ses'.conv : ses'.conv[i].id = Done' + i
      BY <1>3, <2>1, <2>3, <2>5, <3>1
    <3>3. ses'.at \notin {"start", "ask"} /\ ~ses'.asking
      BY <1>0, <2>3 DEF PamCalls
    <3> QED
      BY <1>0, <1>3, <1>5, <1>6, <2>3, <2>5, <3>2, <3>3 DEF Paired
  <2>7. Shown'
    <3>1. Rising(<<>>) /\ Below(ws.shown, <<>>) /\ UpTo(<<>>, Done')
      BY DEF Rising, Below, UpTo
    <3> QED
      BY <1>0, <1>5, <2>3, <2>5, <3>1 DEF Shown
  <2> QED
    BY <1>0, <1>3, <2>2, <2>4, <2>6, <2>7 DEF SessionInv
<1> QED
  BY <1>7, <1>8 DEF PamConv

\* The batch goes on: a message is collected, answered or given up.
LEMMA ConvNextOK ==
    ASSUME SessionInv, ses.conv # NoMsgs, NEW t \in SesState, ses' = Went(t),
           t.at = ses.at, t.how = ses.how, t.want = ses.want, t.ccache = ses.ccache,
           t.handlers = ses.handlers, t.conv = Tail(ses.conv), ~t.asking, t.kept = ses.kept,
           t.text = ses.text \/ t.text = Append(ses.text, Done + 1),
           t.password => ses.password, pam' \in PamState, ws' = ws,
           pam'.authenticated = pam.authenticated, pam'.account = pam.account,
           pam'.cred = pam.cred, pam'.open = pam.open, pam'.ticket = pam.ticket,
           pam'.login = pam.login, pam'.failed = pam.failed, pam'.shell = pam.shell,
           pam'.bridge = pam.bridge, pam'.sent = pam.sent,
           \/ pam'.answers = pam.answers
           \/ \E k \in Nat : /\ pam'.answers = Append(pam.answers, <<Done + 1, k>>)
                             /\ \/ k = 0 /\ ses.password /\ ~t.password
                                \/ k = ws.prompts /\ ses.asking
    PROVE  SessionInv'
<1>0. /\ ses \in SesState /\ ws \in WsState /\ ses.at \in PamCalls \cup {"auth"}
      /\ ses.kept = <<>> /\ ses.text \in Seq(Nat) /\ ws.shown \in Seq(Nat)
      /\ pam.answers \in Seq(Nat \X Nat) /\ ws.prompts \in Nat
  BY DEF SessionInv, Verdict, Shown, SesState, WsState, PamState
<1>1. /\ ses' \in SesState /\ ses'.at = ses.at /\ ses'.how = ses.how /\ ses'.want = ses.want
      /\ ses'.ccache = ses.ccache /\ ses'.handlers = ses.handlers
      /\ ses'.password = t.password /\ ses'.conv = Tail(ses.conv) /\ ~ses'.asking
      /\ \/ ses'.text = t.text /\ ses'.kept = <<>> /\ ses'.conv # NoMsgs
         \/ ses'.text = <<>> /\ ses'.kept \in {t.text, <<>>} /\ ses'.conv = NoMsgs
  BY <1>0, WentIs
<1>2. /\ Done \in Nat /\ Done' = Done + 1 /\ Len(ses'.conv) <= pam'.sent
      /\ \A i \in DOMAIN ses'.conv : ses'.conv[i].id = Done' + i
  BY <1>1, DoneTail
<1>3. Opened' /\ Started' /\ Verdict'
  BY <1>0, <1>1, ConvSafe
<1>4. Shown'
  <2>1. /\ Rising(ws.shown) /\ Rising(ses.text) /\ Below(ws.shown, ses.text)
        /\ UpTo(ws.shown, Done) /\ UpTo(ses.text, Done)
    BY DEF SessionInv, Shown
  <2>2. \A q \in Seq(Nat) : UpTo(q, Done) => UpTo(q, Done')
    BY <1>2 DEF UpTo
  <2>3. Rising(t.text) /\ Below(ws.shown, t.text) /\ UpTo(t.text, Done')
    <3>1. CASE t.text = ses.text
      BY <1>0, <2>1, <2>2, <3>1
    <3>2. CASE t.text = Append(ses.text, Done + 1)
      BY <1>0, <1>2, <2>1, <3>2, RisingAppend, BelowAppend
    <3> QED
      BY <3>1, <3>2
  <2>4. Rising(<<>>) /\ Below(ws.shown, <<>>) /\ UpTo(<<>>, Done')
    BY DEF Rising, Below, UpTo
  <2>5. UpTo(ws.shown, Done')
    BY <1>0, <2>1, <2>2
  <2> QED
    BY <1>1, <2>1, <2>3, <2>4, <2>5 DEF Shown
<1>5. Paired'
  <2>0. /\ \A i \in DOMAIN pam.answers : /\ pam.answers[i][1] <= Done
                                         /\ pam.answers[i][2] <= ws.prompts
                                         /\ ses.password => pam.answers[i][2] # 0
        /\ ses.asking => ws.prompts # 0
        /\ AnswersPaired
    BY DEF SessionInv, Paired
  <2>1. \A i \in DOMAIN pam.answers : pam.answers[i][1] <= Done'
    <3> SUFFICES ASSUME NEW i \in DOMAIN pam.answers PROVE pam.answers[i][1] <= Done'
      OBVIOUS
    <3>1. pam.answers[i][1] \in Nat /\ pam.answers[i][1] <= Done
      BY <1>0, <2>0
    <3> QED
      BY <1>2, <3>1
  <2>2. ses'.at \notin {"start", "ask"}
    BY <1>0, <1>1 DEF PamCalls
  <2>3. CASE pam'.answers = pam.answers
    <3>1. AnswersPaired'
      BY <2>0, <2>3 DEF AnswersPaired
    <3> QED
      BY <1>1, <1>2, <2>0, <2>1, <2>2, <2>3, <3>1 DEF Paired
  <2>4. CASE \E k \in Nat : /\ pam'.answers = Append(pam.answers, <<Done + 1, k>>)
                            /\ \/ k = 0 /\ ses.password /\ ~t.password
                               \/ k = ws.prompts /\ ses.asking
    <3>1. PICK k \in Nat : /\ pam'.answers = Append(pam.answers, <<Done + 1, k>>)
                           /\ \/ k = 0 /\ ses.password /\ ~t.password
                              \/ k = ws.prompts /\ ses.asking
      BY <2>4
    <3>2. PICK id \in Nat : id = Done + 1
      BY <1>2
    <3>3. /\ AnswersPaired'
          /\ \A i \in DOMAIN pam'.answers :
                 \/ i \in DOMAIN pam.answers /\ pam'.answers[i] = pam.answers[i]
                 \/ pam'.answers[i][1] = id /\ pam'.answers[i][2] = k
      <4>1. pam'.answers = Append(pam.answers, <<id, k>>)
        BY <3>1, <3>2
      <4>2. (k = 0 /\ ses.password) \/ (k = ws.prompts /\ ses.asking)
        BY <3>1
      <4> QED
        BY <1>2, <3>2, <4>1, <4>2, AnsweredPaired, SMTT(60)
    <3>4. /\ id <= Done' /\ k <= ws.prompts
          /\ ses'.password => k # 0
      BY <1>0, <1>1, <1>2, <2>0, <3>1, <3>2
    <3>5. \A i \in DOMAIN pam'.answers : /\ pam'.answers[i][1] <= Done'
                                         /\ pam'.answers[i][2] <= ws.prompts
                                         /\ ses'.password => pam'.answers[i][2] # 0
      BY <1>1, <2>0, <2>1, <3>3, <3>4
    <3> QED
      BY <1>1, <1>2, <2>2, <3>3, <3>5 DEF Paired
  <2> QED
    BY <2>3, <2>4
<1> QED
  BY <1>0, <1>1, <1>3, <1>4, <1>5 DEF SessionInv

\* The message at hand is the one after those that are done.
LEMMA MessageIs ==
    ASSUME SessionInv, ses.conv # NoMsgs
    PROVE  /\ Done \in Nat /\ Head(ses.conv).id = Done + 1 /\ Head(ses.conv).id \in Nat
           /\ Tail(ses.conv) \in Messages
<1> DEFINE m == Head(ses.conv)
           c == Tail(ses.conv)
           M == [style : Styles, id : Nat]
<1>1. ses.conv \in Seq(M) /\ ses.conv # <<>> /\ pam.sent \in Nat
  BY DEF SessionInv, SesState, PamState, Messages, NoMsgs
<1>2. Len(ses.conv) <= pam.sent /\ \A i \in DOMAIN ses.conv : ses.conv[i].id = Done + i
  BY DEF SessionInv, Paired
<1> HIDE DEF M
<1>3. m \in M /\ c \in Seq(M)
  BY <1>1, HeadTailProperties
<1>4. Len(ses.conv) \in Nat \ {0} /\ DOMAIN ses.conv = 1..Len(ses.conv)
  BY <1>1, EmptySeq, LenProperties
<1>5. m = ses.conv[1] /\ 1 \in DOMAIN ses.conv
  BY <1>1, <1>4
<1>6. \A n, k \in Nat : k <= n => n - k \in Nat
  OBVIOUS
<1>7. Done \in Nat
  BY <1>1, <1>2, <1>4, <1>6 DEF Done
<1> QED
  BY <1>2, <1>3, <1>5, <1>7 DEF M, Messages

\* The next message of the batch.
LEMMA ConvOK == ASSUME SessionInv, Conv PROVE SessionInv'
<1> DEFINE m == Head(ses.conv)
           c == Tail(ses.conv)
<1>0. /\ ses \in SesState /\ pam \in PamState /\ ws \in WsState /\ ses.conv # NoMsgs
      /\ ~ses.asking /\ ConvMessage /\ ses.at \in PamCalls \cup {"auth"} /\ ses.kept = <<>>
      /\ ses.text \in Seq(Nat) /\ ws.shown \in Seq(Nat) /\ ws.prompts \in Nat
      /\ pam.answers \in Seq(Nat \X Nat)
  BY DEF SessionInv, Conv, Verdict, Shown, SesState, WsState, PamState
<1>1. Done \in Nat /\ m.id = Done + 1 /\ m.id \in Nat /\ c \in Messages
  BY <1>0, MessageIs
<1> HIDE DEF m, c
<1>2. CASE /\ ses' = Went([[ses EXCEPT !.conv = c] EXCEPT !.password = FALSE]) /\ ses.password
           /\ pam' = [pam EXCEPT !.answers = Append(pam.answers, <<m.id, 0>>)] /\ ws' = ws
  <2> DEFINE t == [ses EXCEPT !.conv = c, !.password = FALSE]
             a == Append(pam.answers, <<m.id, 0>>)
  <2>1. ses' = Went(t)
    BY <1>2
  <2>2. t \in SesState
    BY <1>0, <1>1 DEF SesState
  <2>3. /\ t.at = ses.at /\ t.how = ses.how /\ t.want = ses.want /\ t.ccache = ses.ccache
        /\ t.handlers = ses.handlers /\ t.conv = c /\ t.asking = ses.asking
        /\ t.kept = ses.kept /\ t.text = ses.text /\ ~t.password
    BY <1>0 DEF SesState
  <2>4. a \in Seq(Nat \X Nat) /\ a = Append(pam.answers, <<Done + 1, 0>>)
    <3>1. <<m.id, 0>> \in Nat \X Nat
      BY <1>1
    <3> QED
      BY <1>0, <1>1, <3>1, AppendProperties
  <2> HIDE DEF t, a
  <2>5. /\ pam' \in PamState /\ pam'.answers = a /\ pam'.sent = pam.sent
        /\ pam'.authenticated = pam.authenticated /\ pam'.account = pam.account
        /\ pam'.shell = pam.shell /\ pam'.bridge = pam.bridge /\ pam'.login = pam.login
        /\ pam'.cred = pam.cred /\ pam'.open = pam.open /\ pam'.ticket = pam.ticket
        /\ pam'.failed = pam.failed
    BY <1>0, <1>2, <2>4 DEF PamState, a
  <2>6. t.conv = Tail(ses.conv)
    BY <2>3 DEF c
  <2>7. \E k \in Nat : /\ pam'.answers = Append(pam.answers, <<Done + 1, k>>)
                       /\ k = 0 /\ ses.password /\ ~t.password
    BY <1>2, <2>3, <2>4, <2>5
  <2> QED
    BY <1>0, <1>2, <2>1, <2>2, <2>3, <2>5, <2>6, <2>7, ConvNextOK
<1>3. CASE /\ ses' = Went([[ses EXCEPT !.conv = c] EXCEPT !.text = Append(@, m.id)])
           /\ pam' = pam /\ ws' = ws
  <2> DEFINE x == Append(ses.text, m.id)
             t == [ses EXCEPT !.conv = c, !.text = x]
  <2>0. x \in Seq(Nat) /\ x = Append(ses.text, Done + 1)
    BY <1>0, <1>1, AppendProperties
  <2>1. [[ses EXCEPT !.conv = c] EXCEPT !.text = Append(@, m.id)] = t
    BY <1>0 DEF SesState
  <2> HIDE DEF x
  <2>2. t \in SesState
    BY <1>0, <1>1, <2>0 DEF SesState
  <2>3. /\ t.at = ses.at /\ t.how = ses.how /\ t.want = ses.want /\ t.ccache = ses.ccache
        /\ t.handlers = ses.handlers /\ t.conv = c /\ t.asking = ses.asking
        /\ t.kept = ses.kept /\ t.text = x /\ t.password = ses.password
    BY <1>0 DEF SesState
  <2> HIDE DEF t
  <2>4. t.conv = Tail(ses.conv) /\ ses' = Went(t)
    BY <1>3, <2>1, <2>3 DEF c
  <2> QED
    BY <1>0, <1>3, <2>0, <2>2, <2>3, <2>4, ConvNextOK
<1>4. CASE /\ ses' = [ses EXCEPT !.asking = TRUE, !.text = <<>>] /\ pam' = pam
           /\ ws' = [ws EXCEPT !.prompts = @ + 1, !.shown = @ \o ses.text]
  <2>1. /\ ses' \in SesState /\ ses'.at = ses.at /\ ses'.how = ses.how /\ ses'.want = ses.want
        /\ ses'.ccache = ses.ccache /\ ses'.handlers = ses.handlers
        /\ ses'.password = ses.password /\ ses'.conv = ses.conv /\ ses'.asking
        /\ ses'.kept = ses.kept /\ ses'.text = <<>>
    BY <1>0, <1>4 DEF SesState
  <2>2. /\ Rising(ws.shown) /\ Rising(ses.text) /\ Below(ws.shown, ses.text)
        /\ UpTo(ws.shown, Done) /\ UpTo(ses.text, Done)
    BY DEF SessionInv, Shown
  <2> DEFINE h == ws.shown \o ses.text
  <2>3. h \in Seq(Nat) /\ Rising(h) /\ UpTo(h, Done)
    BY <1>0, <1>1, <2>2, RisingConcat
  <2>4. ws' = [ws EXCEPT !.prompts = ws.prompts + 1, !.shown = h] /\ ws.prompts + 1 \in Nat
    BY <1>0, <1>4
  <2> HIDE DEF h
  <2>5. /\ ws' \in WsState /\ ws'.prompts = ws.prompts + 1 /\ ws'.shown = h
        /\ ws'.problem = ws.problem
    BY <1>0, <2>3, <2>4 DEF WsState
  <2>6. Opened' /\ Started' /\ Verdict'
    BY <1>0, <1>4, <2>1, <2>5, ConvSafe
  <2>7. Done' = Done
    BY <1>4, <2>1 DEF Done
  <2>8. Shown'
    <3>1. Rising(<<>>) /\ Below(h, <<>>) /\ UpTo(<<>>, Done')
      BY DEF Rising, Below, UpTo
    <3> QED
      BY <1>0, <2>1, <2>3, <2>5, <2>7, <3>1 DEF Shown
  <2>9. Paired'
    <3>0. /\ \A i \in DOMAIN pam.answers : /\ pam.answers[i][1] <= Done
                                           /\ pam.answers[i][2] <= ws.prompts
                                           /\ ses.password => pam.answers[i][2] # 0
          /\ Len(ses.conv) <= pam.sent
          /\ \A i \in DOMAIN ses.conv : ses.conv[i].id = Done + i
          /\ AnswersPaired
      BY DEF SessionInv, Paired
    <3>1. AnswersPaired'
      BY <1>4, <3>0 DEF AnswersPaired
    <3>2. \A i \in DOMAIN pam.answers : /\ pam.answers[i][2] <= ws.prompts + 1
                                        /\ pam.answers[i][2] < ws.prompts + 1
      <4> SUFFICES ASSUME NEW i \in DOMAIN pam.answers
                   PROVE  pam.answers[i][2] < ws.prompts + 1 /\ pam.answers[i][2] <= ws.prompts + 1
        OBVIOUS
      <4>1. pam.answers[i][2] \in Nat /\ pam.answers[i][2] <= ws.prompts
        BY <1>0, <3>0
      <4>2. \A k, l \in Nat : k <= l => k < l + 1 /\ k <= l + 1
        OBVIOUS
      <4> QED
        BY <1>0, <4>1, <4>2
    <3>3. ses'.at \notin {"start", "ask"} /\ ws'.prompts # 0
      BY <1>0, <2>1, <2>5 DEF PamCalls
    <3> QED
      BY <1>4, <2>1, <2>5, <2>7, <3>0, <3>1, <3>2, <3>3 DEF Paired
  <2> QED
    BY <1>0, <1>4, <2>1, <2>5, <2>6, <2>8, <2>9 DEF SessionInv
<1>5. CASE ses' = Gone(ses, "killed") /\ pam' = pam /\ ws' = ws
  <2>1. ~pam.login /\ ses.at # "ended" /\ ws.problem = "none"
    BY <1>0 DEF SessionInv, Opened, Verdict, PamCalls
  <2> QED
    BY <1>0, <1>5, <2>1, EndsOK
<1> QED
  BY <1>0, <1>2, <1>3, <1>4, <1>5 DEF ConvMessage, m, c

\* The user answers.
LEMMA AnsweredOK == ASSUME SessionInv, NEW sense \in BOOLEAN, Answered(sense) PROVE SessionInv'
<1> DEFINE m == Head(ses.conv)
           c == Tail(ses.conv)
           g == ses.good /\ sense
<1>0. /\ ses \in SesState /\ pam \in PamState /\ ws \in WsState /\ ses.conv # NoMsgs
      /\ ses.asking /\ ws' = ws /\ ws.prompts \in Nat /\ pam.answers \in Seq(Nat \X Nat)
      /\ ses.good \in BOOLEAN
  BY DEF SessionInv, Answered, Verdict, SesState, WsState, PamState
<1>1. Done \in Nat /\ m.id = Done + 1 /\ c \in Messages
  BY <1>0, MessageIs
<1>2. ses' = Went([ses EXCEPT !.conv = c, !.asking = FALSE, !.good = g]) /\ g \in BOOLEAN
  BY <1>0 DEF Answered
<1>3. pam' = pam \/ pam' = [pam EXCEPT !.answers = Append(pam.answers, <<m.id, ws.prompts>>)]
  BY DEF Answered
<1> HIDE DEF m, g
<1> DEFINE t == [ses EXCEPT !.conv = c, !.asking = FALSE, !.good = g]
<1>4. t.conv = Tail(ses.conv)
  BY <1>0 DEF SesState
<1> HIDE DEF c
<1>5. t \in SesState
  BY <1>0, <1>1, <1>2 DEF SesState
<1>6. /\ t.at = ses.at /\ t.how = ses.how /\ t.want = ses.want /\ t.ccache = ses.ccache
      /\ t.handlers = ses.handlers /\ ~t.asking
      /\ t.kept = ses.kept /\ t.text = ses.text /\ t.password = ses.password
  BY <1>0 DEF SesState
<1> HIDE DEF t
<1>7. ses' = Went(t)
  BY <1>2 DEF t
<1>8. CASE pam' = pam
  BY <1>0, <1>4, <1>5, <1>6, <1>7, <1>8, ConvNextOK
<1>9. CASE pam' = [pam EXCEPT !.answers = Append(pam.answers, <<m.id, ws.prompts>>)]
  <2> DEFINE a == Append(pam.answers, <<m.id, ws.prompts>>)
  <2>1. a \in Seq(Nat \X Nat) /\ a = Append(pam.answers, <<Done + 1, ws.prompts>>)
    <3>1. <<m.id, ws.prompts>> \in Nat \X Nat
      BY <1>0, <1>1
    <3> QED
      BY <1>0, <1>1, <3>1, AppendProperties
  <2> HIDE DEF a
  <2>2. /\ pam' \in PamState /\ pam'.answers = a /\ pam'.sent = pam.sent
        /\ pam'.authenticated = pam.authenticated /\ pam'.account = pam.account
        /\ pam'.shell = pam.shell /\ pam'.bridge = pam.bridge /\ pam'.login = pam.login
        /\ pam'.cred = pam.cred /\ pam'.open = pam.open /\ pam'.ticket = pam.ticket
        /\ pam'.failed = pam.failed
    BY <1>0, <1>9, <2>1 DEF PamState, a
  <2>3. \E k \in Nat : /\ pam'.answers = Append(pam.answers, <<Done + 1, k>>)
                       /\ k = ws.prompts /\ ses.asking
    BY <1>0, <2>1, <2>2
  <2> QED
    BY <1>0, <1>4, <1>5, <1>6, <1>7, <2>2, <2>3, ConvNextOK
<1> QED
  BY <1>3, <1>8, <1>9

\* Every step keeps the invariant.
LEMMA SessionNextOK == SessionInv /\ [SessionNext]_sessionVars => SessionInv'
<1> SUFFICES ASSUME SessionInv, [SessionNext]_sessionVars PROVE SessionInv'
  OBVIOUS
<1>1. CASE UNCHANGED sessionVars
  BY <1>1 DEF sessionVars, SessionInv, Opened, Started, Verdict, Paired, Shown, BridgeInSession,
              ProblemTells, Cleaned, AnswersPaired, Done
<1>2. CASE SessionStep
  BY <1>2, StartOK, ConvOK, AuthenticatedOK, NegotiatedOK, LookupUserOK, AccountCheckedOK,
     ChangedOK, CredEstablishedOK, SessionOpenedOK, CredReinitializedOK, StoreCredentialsOK,
     ShellOK, BridgeReapedOK, CloseOK, CertMappedOK DEF SessionStep
<1>3. CASE FromWs
  BY <1>3, BadResponseOK, NegotiatedOK, AuthorizationOK, AnsweredOK DEF FromWs
<1>4. CASE BridgeEnds \/ Terminate
  BY <1>4, BridgeEndsOK, TerminateOK
<1>5. CASE \E n \in 1..2 : \E styles \in [1..n -> Styles] : PamConv(styles)
  BY <1>5, PamConvOK
<1> QED
  BY <1>1, <1>2, <1>3, <1>4, <1>5 DEF SessionNext

\* What the invariant says of a session.
LEMMA SessionInvSafe == SessionInv => SessionSafe
<1> SUFFICES ASSUME SessionInv PROVE SessionSafe
  OBVIOUS
<1>1. SessionTypeOK
  <2>1. /\ ses.at \in Before \cup Entered \cup {"ended"} /\ ses.tries \in 0..2
        /\ ses.rounds \in 0..MaxRounds /\ pam.failed \in {0, 1}
    BY DEF SessionInv, SesState, PamState
  <2>2. /\ ses.asking => ses.conv # NoMsgs \/ ses.at = "gss"
        /\ ws.problem # "none" => ses.how = "problem"
        /\ ses.how = "none" <=> ses.at # "ended"
    BY DEF SessionInv, Verdict
  <2> QED
    BY <2>1, <2>2 DEF SessionTypeOK, Before, Entered, PamCalls
<1>2. BridgeInSession /\ OneVerdict /\ ProblemTells /\ Cleaned /\ AnswersPaired
  BY DEF SessionInv, Started, Verdict, OneVerdict, Paired
<1>3. OwnCgroup
  BY DEF SessionInv, Opened, OwnCgroup, Entered, PamCalls
<1>4. ShownOnce
  BY DEF SessionInv, Shown, ShownOnce, Rising
<1> QED
  BY <1>1, <1>2, <1>3, <1>4 DEF SessionSafe

\* A session of cockpit-session, for every PAM, every conversation and every
\* bound: the bridge runs only in a session that is open for a user who is
\* authenticated, cockpit-ws hears one verdict and the right one, every
\* answer reaches the prompt it is for and no message is shown twice.
THEOREM SessionSafety == SessionSpec => []SessionSafe
<1>1. SessionInit => SessionInv
  BY SessionInitOK
<1>2. SessionInv /\ [SessionNext]_sessionVars => SessionInv'
  BY SessionNextOK
<1>3. SessionInv => SessionSafe
  BY SessionInvSafe
<1> QED
  BY <1>1, <1>2, <1>3, PTL DEF SessionSpec
-----------------------------------------------------------------------------
(***************************************************************************)
(* The inductive invariant of the login records                            *)
(***************************************************************************)
Logins ==
    [at : {"idle", "failed", "entered", "read", "done"} \cup Wrote, user : Users, time : Nat,
     since : Nat, pos : Nat, count : Nat, last : Nat, message : {"none", "fails"}]
Failures == [user : Users, time : Nat \ {0}]

RecordsState ==
    /\ lastlog \in [Users -> Nat] /\ btmp \in Seq(Failures) /\ proc \in [Procs -> Logins]
    /\ now \in 1..MaxTime
    /\ \A u \in Users : lastlog[u] <= MaxTime

\* What a session has counted are its user's failures, up to where it has
\* read, and the last of them is the one it has noted.
Mine(l, b) == {i \in 1..l.pos : Counts(l, b[i])}
Counted(l, b) ==
    /\ l.pos <= Len(b)
    /\ l.count = Cardinality(Mine(l, b))
    /\ l.count # 0 => \E i \in Mine(l, b) : /\ b[i].time = l.last
                                            /\ \A j \in Mine(l, b) : j <= i

\* A process has the time of the clock, has read nothing in the beginning, and
\* says what it has counted.
Truthful(l) ==
    /\ l.time <= MaxTime
    /\ l.at \in {"failed", "entered"} => l.time # 0 /\ l.pos = 0 /\ l.count = 0
    /\ l.at = "over" => (l.message = "fails" <=> l.count # 0)

\* Every second up to the last login of a user is one that some login has
\* passed.  The same is true of the login that a process has read of and not
\* yet replaced: lastlog may go back meanwhile, but what has been passed
\* stays so.
NoneMissing ==
    /\ \A u \in Users : \A t \in 1..lastlog[u] : \E p \in Procs : Passes(p, u, t)
    /\ \A p \in Procs : proc[p].at = "read" =>
          \A t \in 1..proc[p].since : \E q \in Procs : Passes(q, proc[p].user, t)

RecordsInv ==
    /\ RecordsState /\ NoneMissing
    /\ \A p \in Procs : Counted(proc[p], btmp) /\ Truthful(proc[p])
-----------------------------------------------------------------------------
(***************************************************************************)
(* Proofs about the login records                                          *)
(***************************************************************************)

\* What a session has counted does not depend on what it is at.
LEMMA CountedSame ==
    ASSUME NEW l, NEW m, NEW b, Counted(l, b), m.user = l.user, m.since = l.since,
           m.pos = l.pos, m.count = l.count, m.last = l.last
    PROVE  Counted(m, b)
<1>1. Mine(m, b) = Mine(l, b)
  BY DEF Mine, Counts
<1> QED
  BY <1>1 DEF Counted

\* The failures a session has counted are finitely many.
LEMMA MineFinite ==
    ASSUME NEW l \in Logins, NEW b
    PROVE  IsFiniteSet(Mine(l, b)) /\ Cardinality(Mine(l, b)) \in 0..l.pos
<1>1. l.pos \in Nat
  BY DEF Logins
<1>2. IsFiniteSet(1..l.pos) /\ Cardinality(1..l.pos) = l.pos
  <2> DEFINE n == l.pos
  <2>1. 1 \in Int /\ n \in Int
    BY <1>1
  <2> HIDE DEF n
  <2>2. /\ IsFiniteSet(1..n)
        /\ Cardinality(1..n) = IF 1 > n THEN 0 ELSE n - 1 + 1
    BY <2>1, FS_Interval
  <2> QED
    BY <1>1, <2>2 DEF n
<1>3. Mine(l, b) \subseteq 1..l.pos
  BY DEF Mine
<1>4. /\ IsFiniteSet(Mine(l, b)) /\ Cardinality(Mine(l, b)) <= Cardinality(1..l.pos)
  BY <1>2, <1>3, FS_Subset
<1>5. Cardinality(Mine(l, b)) \in Nat
  BY <1>4, FS_CardinalityType
<1> QED
  BY <1>1, <1>2, <1>4, <1>5

\* Failures logged after those a session has read do not change its count.
LEMMA CountedAppend ==
    ASSUME NEW l \in Logins, NEW b \in Seq(Failures), NEW e \in Failures, Counted(l, b)
    PROVE  Counted(l, Append(b, e))
<1> DEFINE c == Append(b, e)
<1>1. /\ c \in Seq(Failures) /\ Len(c) = Len(b) + 1
      /\ \A i \in 1..Len(b) : c[i] = b[i]
  BY AppendProperties
<1>2. Len(b) \in Nat /\ l.pos \in Nat /\ l.pos <= Len(b)
  BY LenProperties DEF Logins, Counted
<1> HIDE DEF c
<1>3. \A i \in 1..l.pos : c[i] = b[i]
  BY <1>1, <1>2
<1>4. Mine(l, c) = Mine(l, b)
  BY <1>3 DEF Mine
<1>5. l.pos <= Len(c)
  BY <1>1, <1>2
<1>6. \A i \in Mine(l, b) : c[i] = b[i]
  BY <1>3 DEF Mine
<1>7. Counted(l, c)
  BY <1>4, <1>5, <1>6 DEF Counted
<1> QED
  BY <1>7 DEF c

\* One entry more is read.
LEMMA CountedNext ==
    ASSUME NEW l \in Logins, NEW b \in Seq(Failures), Counted(l, b), l.pos < Len(b),
           NEW m \in Logins, NEW e, e = b[l.pos + 1],
           m.user = l.user, m.since = l.since, m.pos = l.pos + 1,
           Counts(l, e) => m.count = l.count + 1 /\ m.last = e.time,
           ~Counts(l, e) => m.count = l.count /\ m.last = l.last
    PROVE  Counted(m, b)
<1> DEFINE n == l.pos + 1
<1>1. l.pos \in Nat /\ l.count \in Nat /\ n \in Nat /\ n \in 1..Len(b)
  BY LenProperties DEF Logins
<1>2. IsFiniteSet(Mine(l, b)) /\ l.count = Cardinality(Mine(l, b)) /\ n <= Len(b)
  BY <1>1, MineFinite, LenProperties DEF Counted
<1>3. n \notin Mine(l, b) /\ \A j \in Mine(l, b) : j <= n
  BY <1>1 DEF Mine
<1>4. m.pos = n /\ e = b[n] /\ (Counts(m, e) <=> Counts(l, e))
  BY DEF Counts
<1>5. \A i : i \in 1..n <=> (i \in 1..l.pos \/ i = n)
  BY <1>1
<1>6. n \in Nat
  BY <1>1
<1> HIDE DEF n
<1>7. CASE Counts(l, e)
  <2>1. Mine(m, b) = Mine(l, b) \cup {n}
    BY <1>4, <1>5, <1>7 DEF Mine, Counts
  <2>2. Cardinality(Mine(m, b)) = l.count + 1
    BY <1>2, <1>3, <2>1, FS_AddElement
  <2>3. n \in Mine(m, b) /\ b[n].time = m.last /\ \A j \in Mine(m, b) : j <= n
    BY <1>3, <1>4, <1>6, <1>7, <2>1
  <2> QED
    BY <1>2, <1>4, <1>7, <2>2, <2>3 DEF Counted
<1>8. CASE ~Counts(l, e)
  <2>1. Mine(m, b) = Mine(l, b)
    BY <1>4, <1>5, <1>8 DEF Mine, Counts
  <2> QED
    BY <1>2, <1>4, <1>8, <2>1 DEF Counted
<1> QED
  BY <1>7, <1>8

\* A session begins with nothing read.
LEMMA NoLoginIs ==
    /\ NoLogin \in Logins /\ NoLogin.at = "idle" /\ NoLogin.pos = 0 /\ NoLogin.count = 0
    /\ NoLogin.message = "none" /\ NoLogin.time = 0 /\ NoLogin.since = 0 /\ NoLogin.last = 0
<1> DEFINE u == CHOOSE v \in Users : TRUE
<1>1. u \in Users
  BY RecordsConstants DEF UsersAssumption
<1> HIDE DEF u
<1>2. NoLogin = [at |-> "idle", user |-> u, time |-> 0, since |-> 0,
                 pos |-> 0, count |-> 0, last |-> 0, message |-> "none"]
  BY DEF NoLogin, u
<1> QED
  BY <1>1, <1>2 DEF Logins

\* Nothing read, nothing counted.
LEMMA CountedNothing ==
    ASSUME NEW l \in Logins, NEW b \in Seq(Failures), l.pos = 0, l.count = 0
    PROVE  Counted(l, b)
<1>1. Mine(l, b) = {}
  BY DEF Mine
<1>2. Cardinality({}) = 0
  BY FS_EmptySet
<1> QED
  BY <1>1, <1>2, LenProperties DEF Counted

\* Nothing is recorded in the beginning.
LEMMA RecordsInitOK == LogInit => RecordsInv
<1> SUFFICES ASSUME LogInit PROVE RecordsInv
  OBVIOUS
<1>1. /\ lastlog = [u \in Users |-> 0] /\ btmp = <<>> /\ proc = [p \in Procs |-> NoLogin]
      /\ now = 1 /\ MaxTime \in Nat \ {0} /\ btmp \in Seq(Failures)
  BY RecordsConstants DEF LogInit, UsersAssumption
<1>2. \A p \in Procs : proc[p] = NoLogin
  BY <1>1
<1>3. RecordsState
  BY <1>1, <1>2, NoLoginIs DEF RecordsState
<1>4. \A p \in Procs : Counted(proc[p], btmp) /\ Truthful(proc[p])
  <2>1. Counted(NoLogin, btmp)
    BY <1>1, NoLoginIs, CountedNothing
  <2>2. Truthful(NoLogin)
    BY <1>1, NoLoginIs DEF Truthful
  <2> QED
    BY <1>2, <2>1, <2>2
<1>5. NoneMissing
  <2>1. \A u \in Users : 1..lastlog[u] = {}
    BY <1>1
  <2> QED
    BY <1>2, <2>1, NoLoginIs DEF NoneMissing
<1> QED
  BY <1>3, <1>4, <1>5 DEF RecordsInv

\* The clock goes on.
LEMMA TickOK == ASSUME RecordsInv, Tick PROVE RecordsInv'
<1>1. now' \in 1..MaxTime
  BY RecordsConstants DEF RecordsInv, RecordsState, Tick, UsersAssumption
<1> QED
  BY <1>1 DEF RecordsInv, RecordsState, NoneMissing, Passes, Tick

\* A step of one process.  It may append a failure; a login that has been
\* recorded stays what it is, and lastlog changes only to what a login has
\* that passes all the seconds since the one it replaces.
LEMMA OneSessionOK ==
    ASSUME RecordsInv, NEW p \in Procs, NEW l \in Logins, proc' = [proc EXCEPT ![p] = l],
           btmp' = btmp \/ \E e \in Failures : btmp' = Append(btmp, e), now' = now,
           lastlog' \in [Users -> Nat], \A u \in Users : lastlog'[u] <= MaxTime,
           Counted(l, btmp), Truthful(l),
           proc[p].at \in Wrote => /\ l.at \in Wrote /\ l.user = proc[p].user
                                  /\ l.since = proc[p].since /\ l.time = proc[p].time,
           \A u \in Users : \/ lastlog'[u] = lastlog[u]
                            \/ /\ l.at \in Wrote /\ l.user = u /\ lastlog'[u] = l.time
                               /\ proc[p].at = "read" /\ proc[p].user = u
                               /\ l.since = proc[p].since,
           l.at = "read" => l.since = lastlog[l.user]
    PROVE  RecordsInv'
<1>0. /\ btmp \in Seq(Failures) /\ proc \in [Procs -> Logins] /\ now \in 1..MaxTime
      /\ lastlog \in [Users -> Nat] /\ NoneMissing
      /\ \A q \in Procs : Counted(proc[q], btmp) /\ Truthful(proc[q])
  BY DEF RecordsInv, RecordsState
<1>1. /\ proc' \in [Procs -> Logins] /\ proc'[p] = l
      /\ \A q \in Procs : q # p => proc'[q] = proc[q]
  BY <1>0
<1>2. btmp' \in Seq(Failures)
  BY <1>0, AppendProperties
<1>3. RecordsState'
  BY <1>0, <1>1, <1>2 DEF RecordsState
<1>4. \A q \in Procs : Counted(proc'[q], btmp) /\ Truthful(proc'[q])
  BY <1>0, <1>1
<1>5. \A q \in Procs : Counted(proc'[q], btmp')
  <2>1. CASE btmp' = btmp
    BY <1>4, <2>1
  <2>2. ASSUME NEW e \in Failures, btmp' = Append(btmp, e), NEW q \in Procs
        PROVE  Counted(proc'[q], btmp')
    <3>1. proc'[q] \in Logins /\ Counted(proc'[q], btmp)
      BY <1>1, <1>4
    <3>2. Counted(proc'[q], Append(btmp, e))
      BY <1>0, <3>1, CountedAppend
    <3> QED
      BY <2>2, <3>2
  <2> QED
    BY <2>1, <2>2
<1>6. (\A q \in Procs : Counted(proc[q], btmp) /\ Truthful(proc[q]))'
  BY <1>4, <1>5 DEF Truthful
<1>7. ASSUME NEW q \in Procs, NEW u, NEW t, Passes(q, u, t) PROVE Passes(q, u, t)'
  BY <1>1, <1>7 DEF Passes
<1>8. \A m \in Logins : m.time \in Nat /\ m.since \in Nat /\ m.user \in Users
  BY DEF Logins
<1>9. ASSUME NEW u \in Users, NEW t \in 1..lastlog'[u] PROVE \E q \in Procs : Passes(q, u, t)'
  <2>1. CASE lastlog'[u] = lastlog[u]
    <3>1. PICK q \in Procs : Passes(q, u, t)
      BY <1>0, <1>9, <2>1 DEF NoneMissing
    <3> QED
      BY <1>7, <3>1
  <2>2. CASE /\ l.at \in Wrote /\ l.user = u /\ lastlog'[u] = l.time
             /\ proc[p].at = "read" /\ proc[p].user = u /\ l.since = proc[p].since
    <3>0. t \in Nat /\ t # 0 /\ t <= l.time /\ l.since \in Nat
      BY <1>8, <1>9, <2>2
    <3>1. CASE l.since < t
      <4>1. Passes(p, u, t)'
        BY <1>1, <2>2, <3>0, <3>1 DEF Passes
      <4> QED
        BY <4>1
    <3>2. CASE ~(l.since < t)
      <4>1. t \in 1..proc[p].since
        BY <2>2, <3>0, <3>2
      <4>2. PICK q \in Procs : Passes(q, u, t)
        BY <1>0, <2>2, <4>1 DEF NoneMissing
      <4> QED
        BY <1>7, <4>2
    <3> QED
      BY <3>1, <3>2
  <2> QED
    BY <2>1, <2>2
<1>10. ASSUME NEW q \in Procs, proc'[q].at = "read", NEW t \in 1..proc'[q].since
       PROVE  \E r \in Procs : Passes(r, proc[q].user, t)'
  <2>1. CASE q = p
    <3>1. l.at = "read" /\ l.user \in Users /\ t \in 1..lastlog[l.user]
      BY <1>1, <1>8, <1>10, <2>1
    <3>2. PICK r \in Procs : Passes(r, l.user, t)
      BY <1>0, <3>1 DEF NoneMissing
    <3> QED
      BY <1>1, <1>7, <2>1, <3>2
  <2>2. CASE q # p
    <3>1. PICK r \in Procs : Passes(r, proc[q].user, t)
      BY <1>0, <1>1, <1>10, <2>2 DEF NoneMissing
    <3> QED
      BY <1>1, <1>7, <2>2, <3>1
  <2> QED
    BY <2>1, <2>2
<1>11. NoneMissing'
  <2>1. \A u \in Users : \A t \in 1..lastlog'[u] : \E q \in Procs : Passes(q, u, t)'
    BY <1>9
  <2>2. \A q \in Procs : proc'[q].at = "read" =>
           \A t \in 1..proc'[q].since : \E r \in Procs : Passes(r, proc[q].user, t)'
    BY <1>10
  <2> QED
    BY <2>1, <2>2 DEF NoneMissing, Passes
<1> QED
  BY <1>3, <1>6, <1>11 DEF RecordsInv

\* A process begins.
LEMMA TakeTimeOK ==
    ASSUME RecordsInv, NEW p \in Procs, NEW u \in Users, Fails(p, u) \/ Enters(p, u)
    PROVE  RecordsInv'
<1>0. /\ lastlog \in [Users -> Nat] /\ btmp \in Seq(Failures) /\ proc \in [Procs -> Logins]
      /\ now \in 1..MaxTime /\ MaxTime \in Nat /\ \A v \in Users : lastlog[v] <= MaxTime
  BY RecordsConstants DEF RecordsInv, RecordsState, UsersAssumption
<1>1. PICK at \in {"failed", "entered"} : TakeTime(p, u, at)
  BY DEF Fails, Enters
<1>2. PICK t \in Nat : t = now /\ t # 0 /\ t <= MaxTime
  BY <1>0
<1> DEFINE l == [NoLogin EXCEPT !.at = at, !.user = u, !.time = t]
<1>3. /\ proc' = [proc EXCEPT ![p] = l] /\ proc[p].at = "idle"
      /\ lastlog' = lastlog /\ btmp' = btmp /\ now' = now
  BY <1>1, <1>2 DEF TakeTime
<1>4. l \in Logins
  BY NoLoginIs DEF Logins
<1>5. l.at = at /\ l.time = t /\ l.pos = 0 /\ l.count = 0
  BY NoLoginIs DEF Logins
<1> HIDE DEF l
<1>6. Counted(l, btmp) /\ Truthful(l)
  BY <1>0, <1>2, <1>4, <1>5, CountedNothing DEF Truthful
<1> QED
  BY <1>0, <1>3, <1>4, <1>5, <1>6, OneSessionOK DEF Wrote

\* A process is at something else, with what it has counted.
LEMMA MovesOnIs ==
    ASSUME NEW l \in Logins, NEW b, Counted(l, b), Truthful(l),
           NEW at \in {"scan", "again", "cut", "done"}
    PROVE  LET m == [l EXCEPT !.at = at]
           IN  /\ m \in Logins /\ Counted(m, b) /\ Truthful(m) /\ m.at = at /\ m.user = l.user
               /\ m.since = l.since /\ m.time = l.time
<1> DEFINE m == [l EXCEPT !.at = at]
<1>1. m \in Logins
  BY DEF Logins, Wrote
<1>2. /\ m.at = at /\ m.user = l.user /\ m.since = l.since /\ m.time = l.time
      /\ m.message = l.message /\ m.pos = l.pos /\ m.count = l.count /\ m.last = l.last
  BY DEF Logins
<1> HIDE DEF m
<1>3. Counted(m, b) /\ Truthful(m)
  BY <1>2, CountedSame DEF Truthful
<1> QED
  BY <1>1, <1>2, <1>3 DEF m

\* A step that leaves lastlog alone and takes its process elsewhere: the
\* failure is written, something fails, or the scan is given up.
LEMMA MovesOnOK ==
    ASSUME RecordsInv, NEW p \in Procs, NEW at \in {"again", "cut", "done"},
           proc' = [proc EXCEPT ![p].at = at], lastlog' = lastlog, now' = now,
           btmp' = btmp \/ \E e \in Failures : btmp' = Append(btmp, e),
           proc[p].at \in Wrote => at # "done"
    PROVE  RecordsInv'
<1>0. /\ lastlog \in [Users -> Nat] /\ proc \in [Procs -> Logins]
      /\ \A v \in Users : lastlog[v] <= MaxTime
      /\ Counted(proc[p], btmp) /\ Truthful(proc[p])
  BY DEF RecordsInv, RecordsState
<1> DEFINE l == [proc[p] EXCEPT !.at = at]
<1>1. proc' = [proc EXCEPT ![p] = l]
  OBVIOUS
<1>2. /\ l \in Logins /\ Counted(l, btmp) /\ Truthful(l) /\ l.at = at /\ l.user = proc[p].user
      /\ l.since = proc[p].since /\ l.time = proc[p].time
  <2>1. proc[p] \in Logins /\ at \in {"scan", "again", "cut", "done"}
    BY <1>0
  <2> QED
    BY <1>0, <2>1, MovesOnIs, ZenonT(60)
<1> HIDE DEF l
<1>3. l.at # "read" /\ (l.at # "done" => l.at \in Wrote)
  BY <1>2 DEF Wrote
<1> QED
  BY <1>0, <1>1, <1>2, <1>3, OneSessionOK

\* A failed login is logged.
LEMMA BtmpLogOK == ASSUME RecordsInv, NEW p \in Procs, BtmpLog(p) PROVE RecordsInv'
<1>1. proc[p] \in Logins /\ proc[p].at = "failed" /\ Truthful(proc[p])
  BY DEF RecordsInv, RecordsState, BtmpLog
<1>2. [user |-> proc[p].user, time |-> proc[p].time] \in Failures
  BY <1>1 DEF Logins, Failures, Truthful
<1>3. /\ proc' = [proc EXCEPT ![p].at = "done"] /\ lastlog' = lastlog /\ now' = now
      /\ btmp' = btmp \/ \E e \in Failures : btmp' = Append(btmp, e)
  BY <1>2 DEF BtmpLog
<1>4. proc[p].at \notin Wrote
  BY <1>1 DEF Wrote
<1> QED
  BY <1>3, <1>4, MovesOnOK

\* A process reads when its user was here last.
LEMMA ReadLastlogOK == ASSUME RecordsInv, NEW p \in Procs, ReadLastlog(p) PROVE RecordsInv'
<1>0. /\ lastlog \in [Users -> Nat] /\ btmp \in Seq(Failures) /\ proc \in [Procs -> Logins]
      /\ now' = now /\ (\A v \in Users : lastlog[v] <= MaxTime)
      /\ lastlog' = lastlog /\ btmp' = btmp /\ proc[p].at = "entered"
      /\ Counted(proc[p], btmp) /\ Truthful(proc[p]) /\ proc[p].at \notin Wrote
  BY DEF RecordsInv, RecordsState, ReadLastlog, Wrote
<1>1. CASE proc' = [proc EXCEPT ![p].at = "read", ![p].since = lastlog[proc[p].user]]
  <2>0. PICK s \in Nat : s = lastlog[proc[p].user]
    BY <1>0 DEF Logins
  <2> DEFINE l == [proc[p] EXCEPT !.at = "read", !.since = s]
  <2>1. proc' = [proc EXCEPT ![p] = l]
    BY <1>1, <2>0
  <2>2. l \in Logins
    BY <1>0 DEF Logins
  <2>3. /\ l.at = "read" /\ l.user = proc[p].user /\ l.time = proc[p].time /\ l.since = s
        /\ l.pos = proc[p].pos /\ l.count = proc[p].count
    BY <1>0 DEF Logins
  <2> HIDE DEF l
  <2>4. proc[p].pos = 0 /\ proc[p].count = 0
    BY <1>0 DEF Truthful
  <2>5. Counted(l, btmp) /\ Truthful(l)
    BY <1>0, <2>2, <2>3, <2>4, CountedNothing DEF Truthful
  <2> QED
    BY <1>0, <2>0, <2>1, <2>2, <2>3, <2>5, OneSessionOK
<1>2. CASE proc' = [proc EXCEPT ![p].at = "done"]
  BY <1>0, <1>2, MovesOnOK
<1> QED
  BY <1>1, <1>2 DEF ReadLastlog

\* The login is recorded.
LEMMA WriteLastlogOK == ASSUME RecordsInv, NEW p \in Procs, WriteLastlog(p) PROVE RecordsInv'
<1>0. /\ lastlog \in [Users -> Nat] /\ proc \in [Procs -> Logins]
      /\ now' = now /\ (\A v \in Users : lastlog[v] <= MaxTime)
      /\ btmp' = btmp /\ proc[p].at = "read" /\ proc[p].at \notin Wrote
      /\ Counted(proc[p], btmp) /\ Truthful(proc[p])
  BY DEF RecordsInv, RecordsState, WriteLastlog, Wrote
<1>1. proc[p] \in Logins /\ proc[p].user \in Users /\ proc[p].time \in Nat
  BY <1>0 DEF Logins
<1>2. CASE /\ lastlog' = [lastlog EXCEPT ![proc[p].user] = proc[p].time]
           /\ proc' = [proc EXCEPT ![p].at = "scan"]
  <2> DEFINE l == [proc[p] EXCEPT !.at = "scan"]
  <2>1. proc' = [proc EXCEPT ![p] = l]
    BY <1>2
  <2>2. /\ l \in Logins /\ Counted(l, btmp) /\ Truthful(l) /\ l.at = "scan"
        /\ l.user = proc[p].user /\ l.since = proc[p].since /\ l.time = proc[p].time
    BY <1>0, <1>1, MovesOnIs
  <2> HIDE DEF l
  <2>3. /\ lastlog' \in [Users -> Nat] /\ lastlog'[proc[p].user] = proc[p].time
        /\ \A u \in Users : u # proc[p].user => lastlog'[u] = lastlog[u]
    BY <1>0, <1>1, <1>2
  <2>4. \A u \in Users : lastlog'[u] <= MaxTime
    BY <1>0, <2>3 DEF Truthful
  <2>5. l.at \in Wrote /\ l.at # "read"
    BY <2>2 DEF Wrote
  <2> QED
    BY <1>0, <2>1, <2>2, <2>3, <2>4, <2>5, OneSessionOK
<1>3. CASE lastlog' = lastlog /\ proc' = [proc EXCEPT ![p].at = "done"]
  BY <1>0, <1>3, MovesOnOK
<1> QED
  BY <1>2, <1>3 DEF WriteLastlog

\* An entry is read.
LEMMA ScanOK == ASSUME RecordsInv, NEW p \in Procs, Scan(p) PROVE RecordsInv'
<1>0. /\ lastlog \in [Users -> Nat] /\ btmp \in Seq(Failures) /\ proc \in [Procs -> Logins]
      /\ now' = now /\ lastlog' = lastlog /\ \A v \in Users : lastlog[v] <= MaxTime
      /\ btmp' = btmp /\ proc[p].at = "scan" /\ proc[p].at \in Wrote
      /\ proc[p].pos < Len(btmp) /\ Counted(proc[p], btmp) /\ Truthful(proc[p])
  BY DEF RecordsInv, RecordsState, Scan, Wrote
<1> DEFINE e == btmp[proc[p].pos + 1]
           m == IF Counts(proc[p], e)
                THEN [proc[p] EXCEPT !.pos = @ + 1, !.count = @ + 1, !.last = e.time]
                ELSE [proc[p] EXCEPT !.pos = @ + 1]
<1>1. proc' = [proc EXCEPT ![p] = m]
  BY DEF Scan, ScanEntry
<1>2. proc[p] \in Logins
  BY <1>0
<1>3. /\ m \in Logins /\ Counted(m, btmp) /\ m.at = proc[p].at /\ m.user = proc[p].user
      /\ m.since = proc[p].since /\ m.time = proc[p].time
  <2>0. PICK l \in Logins : l = proc[p]
    BY <1>2
  <2> DEFINE n == l.pos + 1
             k == l.count + 1
             t == e.time
  <2>1. e = btmp[l.pos + 1] /\ l.pos < Len(btmp) /\ Counted(l, btmp)
    BY <1>0, <2>0
  <2>2. n \in Nat /\ k \in Nat /\ n \in 1..Len(btmp)
    <3>1. l.pos \in Nat /\ l.count \in Nat
      BY <2>0 DEF Logins
    <3>2. Len(btmp) \in Nat
      BY <1>0, LenProperties
    <3> QED
      BY <2>1, <3>1, <3>2
  <2>3. e \in Failures /\ t \in Nat
    <3>1. btmp[n] \in Failures
      BY <1>0, <2>2, ElementOfSeq
    <3>2. \A f \in Failures : f.time \in Nat
      BY DEF Failures
    <3> QED
      BY <2>1, <3>1, <3>2
  <2> HIDE DEF e
  <2>4. /\ Counts(l, e) => m = [l EXCEPT !.pos = n, !.count = k, !.last = t]
        /\ ~Counts(l, e) => m = [l EXCEPT !.pos = n]
    BY <2>0
  <2> HIDE DEF m, k, t, n
  <2>5. /\ m \in Logins /\ m.at = l.at /\ m.user = l.user /\ m.since = l.since
        /\ m.time = l.time /\ m.pos = n
        /\ Counts(l, e) => m.count = k /\ m.last = t
        /\ ~Counts(l, e) => m.count = l.count /\ m.last = l.last
    <3>1. CASE Counts(l, e)
      <4>1. m = [l EXCEPT !.pos = n, !.count = k, !.last = t]
        BY <2>4, <3>1
      <4>2. m \in Logins
        BY <2>2, <2>3, <4>1 DEF Logins
      <4>3. /\ m.at = l.at /\ m.user = l.user /\ m.since = l.since /\ m.time = l.time
            /\ m.pos = n /\ m.count = k /\ m.last = t
        BY <2>1, <4>1 DEF Logins
      <4> QED
        BY <3>1, <4>2, <4>3
    <3>2. CASE ~Counts(l, e)
      <4>1. m = [l EXCEPT !.pos = n]
        BY <2>4, <3>2
      <4>2. m \in Logins
        BY <2>2, <4>1 DEF Logins
      <4>3. /\ m.at = l.at /\ m.user = l.user /\ m.since = l.since /\ m.time = l.time
            /\ m.pos = n /\ m.count = l.count /\ m.last = l.last
        BY <2>1, <4>1 DEF Logins
      <4> QED
        BY <3>2, <4>2, <4>3
    <3> QED
      BY <3>1, <3>2
  <2>6. Counted(m, btmp)
    BY <1>0, <2>1, <2>5, CountedNext DEF n, k, t
  <2> QED
    BY <2>0, <2>5, <2>6
<1> HIDE DEF m, e
<1>4. Truthful(m)
  BY <1>0, <1>3 DEF Truthful
<1> QED
  BY <1>0, <1>1, <1>3, <1>4, OneSessionOK

\* The end of the file, after which the user is told what was counted.
LEMMA ScanEndsOK == ASSUME RecordsInv, NEW p \in Procs, ScanEnds(p) PROVE RecordsInv'
<1>0. /\ lastlog \in [Users -> Nat] /\ proc \in [Procs -> Logins]
      /\ now' = now /\ lastlog' = lastlog /\ \A v \in Users : lastlog[v] <= MaxTime
      /\ btmp' = btmp /\ proc[p].at \in Wrote
      /\ Counted(proc[p], btmp) /\ Truthful(proc[p])
  BY DEF RecordsInv, RecordsState, ScanEnds, Wrote
<1> DEFINE message == IF proc[p].count = 0 THEN "none" ELSE "fails"
           m == [proc[p] EXCEPT !.at = "over", !.message = message]
<1>1. proc' = [proc EXCEPT ![p] = m]
  BY DEF ScanEnds
<1>2. /\ proc[p] \in Logins /\ message \in {"none", "fails"}
      /\ message = "fails" <=> proc[p].count # 0
  BY <1>0
<1> HIDE DEF message
<1>3. m \in Logins
  BY <1>2 DEF Logins, Wrote
<1>4. /\ m.at = "over" /\ m.user = proc[p].user /\ m.since = proc[p].since
      /\ m.time = proc[p].time /\ m.pos = proc[p].pos /\ m.count = proc[p].count
      /\ m.last = proc[p].last /\ m.message = message
  BY <1>2 DEF Logins
<1> HIDE DEF m
<1>5. Counted(m, btmp) /\ Truthful(m)
  BY <1>0, <1>2, <1>4, CountedSame DEF Truthful
<1> QED
  BY <1>0, <1>1, <1>3, <1>4, <1>5, OneSessionOK DEF Wrote

\* The scan is given up, or meets an error that lasts.
LEMMA ScanGivenUpOK ==
    ASSUME RecordsInv, NEW p \in Procs, ScanInterrupted(p) \/ ScanFails(p) PROVE RecordsInv'
<1>1. /\ \E at \in {"cut", "again"} : proc' = [proc EXCEPT ![p].at = at]
      /\ lastlog' = lastlog /\ btmp' = btmp /\ now' = now
  BY DEF ScanInterrupted, ScanFails
<1> QED
  BY <1>1, MovesOnOK

\* Every step keeps the invariant.
LEMMA RecordsNextOK == RecordsInv /\ [LogNext]_logVars => RecordsInv'
<1> SUFFICES ASSUME RecordsInv, [LogNext]_logVars PROVE RecordsInv'
  OBVIOUS
<1>1. CASE UNCHANGED logVars
  BY <1>1 DEF logVars, RecordsInv, RecordsState, NoneMissing, Passes
<1>2. CASE LogNext
  BY <1>2, TickOK, TakeTimeOK, BtmpLogOK, ReadLastlogOK, WriteLastlogOK, ScanOK, ScanEndsOK,
     ScanGivenUpOK DEF LogNext
<1> QED
  BY <1>1, <1>2

\* What the invariant says of the records.
LEMMA RecordsInvSafe == RecordsInv => RecordsSafe
<1> SUFFICES ASSUME RecordsInv PROVE RecordsSafe
  OBVIOUS
<1>0. /\ lastlog \in [Users -> Nat] /\ btmp \in Seq(Failures) /\ proc \in [Procs -> Logins]
      /\ MaxTime \in Nat /\ \A u \in Users : lastlog[u] <= MaxTime
      /\ \A p \in Procs : Counted(proc[p], btmp) /\ Truthful(proc[p])
  BY RecordsConstants DEF RecordsInv, RecordsState, UsersAssumption
<1>1. \A u \in Users : lastlog[u] \in 0..MaxTime
  BY <1>0
<1>2. ASSUME NEW p \in Procs
      PROVE  /\ proc[p].pos \in 0..Len(btmp) /\ proc[p].count \in 0..proc[p].pos
             /\ proc[p].count > 0 => proc[p].last > proc[p].since
  <2>1. proc[p] \in Logins /\ Len(btmp) \in Nat
    BY <1>0, LenProperties
  <2>2. proc[p].pos \in Nat /\ proc[p].count \in Nat /\ proc[p].pos <= Len(btmp)
    BY <1>0, <2>1 DEF Logins, Counted
  <2>3. proc[p].count \in 0..proc[p].pos
    BY <1>0, <2>1, MineFinite DEF Counted
  <2>4. ASSUME proc[p].count > 0 PROVE proc[p].last > proc[p].since
    <3>1. proc[p].count # 0
      BY <2>2, <2>4
    <3>2. PICK i \in Mine(proc[p], btmp) : btmp[i].time = proc[p].last
      BY <1>0, <3>1 DEF Counted
    <3> QED
      BY <3>2 DEF Mine, Counts
  <2> QED
    BY <2>1, <2>2, <2>3, <2>4
<1>3. LogTypeOK
  BY <1>1, <1>2 DEF LogTypeOK
<1>4. FailsExact
  <2> SUFFICES ASSUME NEW p \in Procs, proc[p].at = "over"
               PROVE  LET mine == {i \in 1..proc[p].pos :
                                     btmp[i].user = proc[p].user /\ btmp[i].time > proc[p].since}
                      IN  /\ proc[p].count = Cardinality(mine)
                          /\ proc[p].message = "fails" <=> mine # {}
                          /\ mine # {} => \E i \in mine : /\ btmp[i].time = proc[p].last
                                                          /\ \A j \in mine : j <= i
    BY DEF FailsExact
  <2>1. Mine(proc[p], btmp) = {i \in 1..proc[p].pos :
                                  btmp[i].user = proc[p].user /\ btmp[i].time > proc[p].since}
    BY DEF Mine, Counts
  <2>2. proc[p].count = 0 <=> Mine(proc[p], btmp) = {}
    <3>1. proc[p] \in Logins /\ IsFiniteSet(Mine(proc[p], btmp))
      BY <1>0, MineFinite
    <3> QED
      BY <1>0, <3>1, FS_EmptySet DEF Counted
  <2> QED
    BY <1>0, <2>1, <2>2 DEF Counted, Truthful
<1>5. NoFailBetween
  <2> SUFFICES ASSUME NEW i \in DOMAIN btmp, btmp[i].time <= lastlog[btmp[i].user]
               PROVE  \E p \in Procs : Passes(p, btmp[i].user, btmp[i].time)
    BY DEF NoFailBetween
  <2>1. btmp[i] \in Failures
    BY <1>0, ElementOfSeq, LenProperties
  <2>2. btmp[i].user \in Users /\ btmp[i].time \in 1..lastlog[btmp[i].user]
    BY <1>0, <2>1 DEF Failures
  <2> QED
    BY <2>2 DEF RecordsInv, NoneMissing
<1> QED
  BY <1>3, <1>4, <1>5 DEF RecordsSafe

\* The login records, for any number of users, sessions and failures: what a
\* user is told is exact for the failures that are in the file by then, and
\* none falls between two logins, although sessions cross, nothing is locked
\* and the files may fail.
THEOREM RecordsSafety == LogSpec => []RecordsSafe
<1>1. LogInit => RecordsInv
  BY RecordsInitOK
<1>2. RecordsInv /\ [LogNext]_logVars => RecordsInv'
  BY RecordsNextOK
<1>3. RecordsInv => RecordsSafe
  BY RecordsInvSafe
<1> QED
  BY <1>1, <1>2, <1>3, PTL DEF LogSpec
=============================================================================
