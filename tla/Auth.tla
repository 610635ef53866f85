-------------------------------- MODULE Auth --------------------------------
(***************************************************************************)
(* Login, conversations and sessions of cockpit-ws: cockpitauth.c          *)
(* (src/src/ws) with the types of cockpitauthorize.c (src/src/common).     *)
(* A login starts a session process, answers its challenges with what the  *)
(* browser sent, or hands them to the browser as a conversation that a     *)
(* later request continues; "init" from the process makes a session with a *)
(* cookie, that lives until its web service ends or is idle for too long.  *)
(***************************************************************************)
EXTENDS Integers, FiniteSets, Functions

CONSTANTS
    Sessions,      \* the CockpitSessions that may exist, numbers from 1
    Logins,        \* the requests to log in, numbers from 1
    MaxMessages,   \* bound on the messages of a session process
    MaxNonce,      \* bound on cockpit_auth_nonce()
    Begin, Rate, Full,  \* MaxStartups
    Challenges,    \* the challenges that session processes send
    Local,         \* whether there is a local session (--local-session)
    Expires        \* whether the timer of the whole process may expire

(* What an instance has to satisfy.                                       *)
AuthAssumption ==
    /\ Sessions \subseteq Nat \ {0} /\ Logins \subseteq Nat \ {0} /\ MaxMessages \in Nat
    /\ MaxNonce \in Nat /\ Begin \in Nat /\ Full \in Nat /\ Begin <= Full /\ Rate \in 1..100
    /\ Challenges \subseteq {"star", "basic", "negotiate", "x", "data", "offer", "hostkey", "bad"}
    /\ Local \in BOOLEAN /\ Expires \in BOOLEAN

VARIABLES
    a,   \* the CockpitAuth, its sessions and the logins
    p    \* the session processes

vars == <<a, p>>

None == -1
LocalCookie == 0            \* LOCAL_SESSION
LocalTask == 0              \* the task of cockpit_auth_local_async()
XToken(s) == MaxNonce + s   \* the conversation that the process of s makes up

(* A session: refs; task (login_task); authn (the type of authorization);  *)
(* challenge (authorize); failure (init_failure); init (initialized);      *)
(* problem: its "init" had one; watch (control_sig, close_sig); cookie;    *)
(* conv (conversation); timer (timeout_tag); sv, its web service; tr, its  *)
(* transport                                                               *)
NoSession ==
    [refs |-> 0, task |-> None, authn |-> "none", challenge |-> "none", failure |-> FALSE,
     init |-> FALSE, problem |-> FALSE, watch |-> FALSE, cookie |-> None, conv |-> None,
     timer |-> "none", sv |-> "none", tr |-> "none"]

NoLogin == [st |-> "none", s |-> None, cookie |-> None, token |-> None]

(* a: s, the sessions; sessions and conversations, the tables; startups;   *)
(* gss (gssapi_available); idle, the timer of the process; exited;         *)
(* nonce; l, the logins; bad: a session was used after it was freed, or    *)
(* freed while in use                                                      *)
Init ==
    /\ a = [s |-> [s \in Sessions |-> NoSession], sessions |-> <<>>, conversations |-> <<>>,
            startups |-> 0, gss |-> "unknown", idle |-> TRUE, exited |-> FALSE, nonce |-> 0,
            l |-> [l \in Logins |-> NoLogin], local |-> "none", bad |-> FALSE]
    /\ p = [s \in Sessions |-> [up |-> FALSE, asked |-> "none", sent |-> 0]]

Without(f, x) == Restrict(f, DOMAIN f \ {x})
With(f, x, y) == [z \in DOMAIN f \cup {x} |-> IF z = x THEN y ELSE f[z]]
Unused == {s \in Sessions : a.s[s].tr = "none"}

-----------------------------------------------------------------------------
(* A handler maps the state of the authentication to another one.          *)

(* cockpit_session_unref(): a web service that is in use is disposed under *)
(* its browsers, "torn".                                                   *)
Unref(x, s) ==
    LET q == x.s[s]
    IN  IF q.refs > 1 THEN [x EXCEPT !.s[s].refs = @ - 1]
        ELSE [x EXCEPT !.s[s] = [q EXCEPT !.refs = 0, !.authn = "none", !.failure = FALSE,
                                          !.watch = FALSE, !.timer = "none",
                                          !.sv = IF @ = "busy" THEN "torn" ELSE "gone",
                                          !.tr = IF @ = "open" THEN "closing" ELSE @],
                       !.bad = @ \/ q.refs = 0 \/ q.task \in Logins \/ q.cookie # None
                                 \/ q.conv # None]

RemoveCookie(x, s, c) ==
    IF c \in DOMAIN x.sessions
    THEN Unref([x EXCEPT !.sessions = Without(@, c)], x.sessions[c]) ELSE x

RemoveConv(x, s, t) ==
    IF t \in DOMAIN x.conversations
    THEN Unref([x EXCEPT !.conversations = Without(@, t)], x.conversations[t]) ELSE x

(* cockpit_session_reset() after the pending login was answered            *)
Forget(x, s) ==
    LET q == x.s[s]
        x1 == [x EXCEPT !.s[s].authn = "none", !.s[s].conv = None, !.s[s].cookie = None,
                        !.s[s].failure = FALSE, !.bad = @ \/ q.refs = 0]
    IN  RemoveConv(RemoveCookie(x1, s, q.cookie), s, q.conv)

(* on_web_service_idling()                                                 *)
OnIdling(x, s) == [x EXCEPT !.s[s].timer = "session", !.idle = TRUE]

(* A mutant of Challenge: the table does not hold the session.             *)
ChallengeUnheld(x, s) ==
    IF x.s[s].challenge # "x" THEN x
    ELSE [x EXCEPT !.s[s].conv = XToken(s), !.s[s].timer = "client",
                   !.conversations = With(@, XToken(s), s)]

(* build_authorize_challenge() and what cockpit_auth_login_finish() does   *)
(* with the conversation.  The challenge is not forgotten once answered.   *)
Challenge(x, s) ==
    LET k == x.s[s].challenge
        x1 == IF k = "negotiate" THEN [x EXCEPT !.gss = "yes", !.nonce = @ + 1] ELSE x
        t == IF k = "negotiate" THEN x1.nonce ELSE XToken(s)
    IN  IF k \notin {"negotiate", "x"} THEN x
        ELSE [x1 EXCEPT !.s[s].conv = t, !.s[s].timer = "client", !.s[s].refs = @ + 1,
                        !.conversations = With(@, t, s)]

(* cockpit_auth_login_finish() with a session that is initialized          *)
Started(x, s) ==
    LET x1 == OnIdling(x, s)
        c == x1.nonce + 1
    IN  [x1 EXCEPT !.nonce = c, !.s[s].cookie = c, !.s[s].refs = @ + 1,
                   !.sessions = With(@, c, s)]

Answer(x, l, st, s) ==
    [x EXCEPT !.l[l] = [st |-> st, s |-> s, cookie |-> x.s[s].cookie, token |-> x.s[s].conv]]

(* cockpit_auth_login_finish() for a task that has a session               *)
LoginFinish(x, l, s, ok) ==
    LET x1 == [x EXCEPT !.startups = @ - 1]
    IN  IF ~ok THEN Answer([x1 EXCEPT !.s[s].failure = FALSE], l, "failed", s)
        ELSE LET x2 == Challenge(Forget(x1, s), s)
                 x3 == IF x2.s[s].init THEN Started(x2, s) ELSE x2
             IN  Answer(x3, l, IF x3.s[s].init THEN "ok"
                               ELSE IF x3.s[s].conv # None THEN "again" ELSE "failed", s)

(* g_task_return_*() of the login task: the caller is told at once, and    *)
(* the task, that holds the session, goes.                                 *)
ReturnTask(x, s, ok) ==
    LET l == x.s[s].task
        x1 == [x EXCEPT !.s[s].task = None]
    IN  IF l = None THEN x
        ELSE IF l = LocalTask THEN [x1 EXCEPT !.local = IF ok THEN "ok" ELSE "failed"]
        ELSE Unref(LoginFinish(x1, l, s, ok), s)

(* cockpit_session_reset()                                                 *)
Reset(x, s) == Forget(ReturnTask(x, s, TRUE), s)

(* on_web_service_destroy()                                                *)
OnDestroy(x, s) == Reset(OnIdling(x, s), s)

(* send_authorize_reply(), as the process gets it                          *)
Reply(q, s, x) == IF x.s[s].tr = "open" THEN [q EXCEPT ![s].asked = "none"] ELSE q

(* reply_authorize_challenge(): whether it answers, and what it sends      *)
Replies(x, s) ==
    LET q == x.s[s]
    IN  \/ q.challenge \in {"offer", "data"}
        \/ q.authn # "none" /\ (q.challenge = "star" \/ q.challenge = q.authn)
Sends(x, s) == Replies(x, s) /\ x.s[s].challenge \notin {"offer", "data"}
Replied(x, s) ==
    [x EXCEPT !.s[s].authn = CASE Sends(x, s) -> "none"
                               [] x.s[s].challenge = "offer" -> "basic" [] OTHER -> @]

-----------------------------------------------------------------------------
(* can_start_auth(): what it may answer                                    *)
CanStart(n) ==
    IF Full = 0 \/ n <= Begin THEN {TRUE}
    ELSE IF n > Full \/ Rate = 100 THEN {FALSE}
    ELSE LET pr == ((100 - Rate) * (n - Begin)) \div (Full - Begin) + Rate
         IN  IF pr >= 100 THEN {FALSE} ELSE BOOLEAN

(* cockpit_auth_login_async() that fails: its task is answered later.      *)
LoginFails(x, l, s) == [x EXCEPT !.l[l] = [NoLogin EXCEPT !.st = "failing", !.s = s]]

(* cockpit_session_create() as cockpit_session_launch() calls it, and the  *)
(* rest of cockpit_auth_login_async().  What a request brings: the type of *)
(* its Authorization header, or none; a client certificate.                *)
Launch(x, l, s, type) ==
    [x EXCEPT !.s[s] = [NoSession EXCEPT !.refs = 1, !.watch = TRUE, !.sv = "idle",
                                         !.tr = "open", !.task = l, !.authn = type,
                                         !.timer = "auth"],
              !.l[l] = [NoLogin EXCEPT !.st = "pending", !.s = s]]

(* The type of the Authorization header.  Without one Negotiate is tried,  *)
(* unless it is known that there is none.                                  *)
StealAuthorization(header) ==
    IF header # "none" THEN {header} ELSE IF a.gss # "no" THEN {"negotiate"} ELSE {}

LoginNew(l) ==
    LET x == [a EXCEPT !.startups = @ + 1]
    IN  /\ a.l[l].st = "none" /\ ~a.exited
        /\ \A k \in Logins : k < l => a.l[k].st # "none"
        /\ \/ /\ FALSE \in CanStart(x.startups)
              /\ a' = LoginFails(x, l, None) /\ UNCHANGED p
           \/ /\ TRUE \in CanStart(x.startups)
              /\ \/ a' = LoginFails(x, l, None) /\ UNCHANGED p
                 \/ \E header \in {"none", "basic", "negotiate"} :
                    \E type \in {"cert"} \cup StealAuthorization(header) :
                      /\ Unused # {}
                      /\ LET s == CHOOSE s \in Unused : \A t \in Unused : s <= t
                         IN  /\ a' = Launch(x, l, s, type)
                             /\ p' = [p EXCEPT ![s].up = TRUE]

(* The conversations that a client was offered                             *)
Offered == {a.l[l].token : l \in Logins} \ {None}

(* cockpit_auth_login_async() with a conversation: the answer of the user. *)
LoginContinue(l, t) ==
    LET x == [a EXCEPT !.startups = @ + 1]
        s == a.conversations[t]
        x1 == [x EXCEPT !.s[s].refs = @ + 1]
        x2 == [Reset(x1, s) EXCEPT !.s[s].authn = IF t > MaxNonce THEN "x" ELSE "negotiate"]
    IN  /\ a.l[l].st = "none" /\ ~a.exited
        /\ \A k \in Logins : k < l => a.l[k].st # "none"
        /\ \/ /\ FALSE \in CanStart(x.startups) \/ t \notin DOMAIN a.conversations
              /\ a' = LoginFails(x, l, None) /\ UNCHANGED p
           \/ /\ TRUE \in CanStart(x.startups) /\ t \in DOMAIN a.conversations
              /\ IF ~Replies(x2, s) THEN a' = LoginFails(x2, l, s) /\ UNCHANGED p
                 ELSE /\ a' = [Replied(x2, s) EXCEPT
                                 !.s[s].task = l, !.s[s].timer = "auth",
                                 !.l[l] = [NoLogin EXCEPT !.st = "pending", !.s = s]]
                      /\ p' = IF Sends(x2, s) THEN Reply(p, s, x2) ELSE p

(* cockpit_auth_login_finish() of a login that failed at once              *)
LoginFailed(l) ==
    LET x == [a EXCEPT !.startups = @ - 1, !.l[l].st = "failed"]
        s == a.l[l].s
    IN  /\ a.l[l].st = "failing" /\ ~a.exited
        /\ a' = IF s = None THEN x ELSE Unref([x EXCEPT !.s[s].failure = FALSE], s)
        /\ UNCHANGED p

(* cockpit_auth_local_async()                                              *)
LocalAsync ==
    /\ Local /\ a.local = "none" /\ a.startups = 0 /\ \A l \in Logins : a.l[l].st = "none"
    /\ \E s \in Sessions :
         /\ \A t \in Sessions : s <= t
         /\ a' = [a EXCEPT !.local = "pending", !.sessions = With(@, LocalCookie, s),
                           !.s[s] = [NoSession EXCEPT !.refs = 1, !.watch = TRUE, !.sv = "idle",
                                                      !.tr = "open", !.task = LocalTask,
                                                      !.cookie = LocalCookie]]
         /\ p' = [p EXCEPT ![s].up = TRUE]

-----------------------------------------------------------------------------
Speaks(s) ==
    /\ p[s].up /\ p[s].sent < MaxMessages /\ p[s].asked = "none" /\ ~a.exited
    /\ a.s[s].watch /\ a.s[s].tr = "open"
Spoke(s) == [p EXCEPT ![s].sent = @ + 1]

(* propagate_problem_to_error()                                            *)
Problem(x, s, problem) ==
    IF problem = "authentication-unavailable" /\ x.s[s].authn = "negotiate"
    THEN [x EXCEPT !.gss = "no"] ELSE x

(* on_transport_control() with "init"                                      *)
OnInit(s) ==
    /\ Speaks(s)
    /\ \E problem \in {"", "authentication-failed", "authentication-unavailable"} :
         LET x == [a EXCEPT !.s[s].watch = FALSE, !.s[s].init = TRUE,
                            !.s[s].problem = problem # "", !.s[s].failure = problem # ""]
         IN  a' = ReturnTask(Problem(x, s, problem), s, problem = "")
    /\ p' = Spoke(s)

(* on_transport_control() with "authorize"                                 *)
OnAuthorize(s, k) ==
    LET x == [a EXCEPT !.s[s].challenge = k]
        q == [Spoke(s) EXCEPT ![s].asked = IF k \in {"bad", "data", "offer"} THEN "none" ELSE k]
    IN  /\ Speaks(s)
        /\ IF k = "hostkey" THEN UNCHANGED a /\ p' = Spoke(s)
           ELSE IF Replies(x, s)
                THEN a' = Replied(x, s) /\ p' = IF Sends(x, s) THEN Reply(q, s, x) ELSE q
           ELSE a' = ReturnTask(x, s, TRUE) /\ p' = q

(* on_transport_control() with anything else                               *)
OnUnexpected(s) ==
    /\ Speaks(s) /\ "bad" \in Challenges
    /\ a' = ReturnTask([a EXCEPT !.s[s].tr = "closing"], s, TRUE)
    /\ p' = Spoke(s)

(* A session process ends, or its transport is closed.                     *)
Exits(s) ==
    /\ p[s].up /\ a.s[s].tr \in {"open", "closing"} /\ ~a.exited
    /\ p' = [p EXCEPT ![s].up = FALSE]
    /\ UNCHANGED a

(* A mutant of OnClosed: nobody tells the login.                           *)
OnClosedQuietly(s) ==
    LET x == [a EXCEPT !.s[s].tr = "closed"]
    IN  /\ a.s[s].tr = "closing" \/ (a.s[s].tr = "open" /\ ~p[s].up)
        /\ ~a.exited
        /\ a' = IF x.s[s].refs = 0 THEN x
                ELSE IF ~x.s[s].watch THEN OnDestroy(x, s)
                ELSE IF x.s[s].task # None THEN x ELSE Reset(x, s)
        /\ UNCHANGED p

(* on_transport_closed(), which runs before that of the web service;       *)
(* the latter disposes the service, so that "destroy" is emitted.          *)
OnClosed(s) ==
    LET x == [a EXCEPT !.s[s].tr = "closed"]
        x1 == IF ~x.s[s].watch THEN x
              ELSE IF x.s[s].task # None THEN ReturnTask(x, s, FALSE) ELSE Reset(x, s)
    IN  /\ a.s[s].tr = "closing" \/ (a.s[s].tr = "open" /\ ~p[s].up)
        /\ ~a.exited
        /\ a' = IF x.s[s].refs = 0 THEN x
                ELSE IF x1.s[s].refs > 0 THEN OnDestroy([x1 EXCEPT !.s[s].sv = "gone"], s)
                ELSE x1
        /\ UNCHANGED p

(* on_authorize_timeout()                                                  *)
OnAuthorizeTimeout(s) ==
    /\ a.s[s].timer \in {"auth", "client"} /\ ~a.exited
    /\ a' = [a EXCEPT !.s[s].timer = "none", !.s[s].tr = IF @ = "open" THEN "closing" ELSE @]
    /\ UNCHANGED p

-----------------------------------------------------------------------------
(* session_for_request() and session_for_cookie_value(): the session of a  *)
(* request with this cookie, or the local one.                             *)
SessionFor(c) ==
    IF c \in DOMAIN a.sessions /\ c # LocalCookie THEN a.sessions[c]
    ELSE IF LocalCookie \in DOMAIN a.sessions THEN a.sessions[LocalCookie] ELSE None

(* cockpit_auth_check_cookie(): a browser that was given a cookie uses it, *)
(* and its connections keep the web service from idling.                   *)
CheckCookie ==
    /\ ~a.exited
    /\ \E l \in Logins :
         /\ a.l[l].st = "ok"
         /\ LET s == SessionFor(a.l[l].cookie)
            IN  /\ s # None /\ a.s[s].sv = "idle"
                /\ a' = [a EXCEPT !.s[s].sv = "busy"]
    /\ UNCHANGED p

(* The last connection of a web service ends: it is idling; or the user    *)
(* logs out: it is disposed.                                               *)
ServiceIdles(s) ==
    /\ a.s[s].sv = "busy" /\ ~a.exited
    /\ a' = OnIdling([a EXCEPT !.s[s].sv = "idle"], s)
    /\ UNCHANGED p

LogsOut(s) ==
    /\ a.s[s].sv = "busy" /\ ~a.exited
    /\ a' = OnDestroy([a EXCEPT !.s[s].sv = "gone", !.s[s].tr = IF @ = "open" THEN "closing" ELSE @],
                      s)
    /\ UNCHANGED p

(* A mutant of OnSessionTimeout: also a session in use ends.               *)
OnSessionTimeoutUsed(s) ==
    /\ a.s[s].timer = "session" /\ ~a.exited
    /\ a' = Reset([a EXCEPT !.s[s].timer = "none"], s)
    /\ UNCHANGED p

(* on_session_timeout()                                                    *)
OnSessionTimeout(s) ==
    LET x == [a EXCEPT !.s[s].timer = "none"]
    IN  /\ a.s[s].timer = "session" /\ ~a.exited
        /\ a' = IF a.s[s].sv # "busy" THEN Reset(x, s) ELSE x
        /\ UNCHANGED p

(* on_process_timeout(): "idling" makes main() leave its loop.             *)
OnProcessTimeout ==
    /\ Expires /\ a.idle /\ ~a.exited
    /\ a' = [a EXCEPT !.idle = FALSE, !.exited = DOMAIN a.sessions = {}]
    /\ UNCHANGED p

Next ==
    \/ \E l \in Logins : LoginNew(l) \/ LoginFailed(l)
    \/ \E l \in Logins : \E t \in Offered : LoginContinue(l, t)
    \/ LocalAsync \/ CheckCookie \/ OnProcessTimeout
    \/ \E s \in Sessions : \E k \in Challenges : OnAuthorize(s, k)
    \/ \E s \in Sessions :
         \/ OnInit(s) \/ OnUnexpected(s) \/ Exits(s) \/ OnClosed(s)
         \/ OnAuthorizeTimeout(s) \/ ServiceIdles(s) \/ LogsOut(s) \/ OnSessionTimeout(s)

Spec == Init /\ [][Next]_vars

-----------------------------------------------------------------------------
TypeOK ==
    /\ a.startups \in 0..Cardinality(Logins) /\ a.nonce \in 0..MaxNonce
    /\ \A s \in Sessions : a.s[s].refs \in 0..3 /\ a.s[s].task \in Logins \cup {None, LocalTask}
    /\ a.gss \in {"unknown", "yes", "no"}

(* A session is held by the tables it is in and by the logins that are not *)
(* answered, and by nothing else: it is freed exactly when these let go,   *)
(* and never used afterwards.                                              *)
RefsCount ==
    /\ ~a.bad
    /\ \A s \in Sessions :
         a.s[s].refs = Cardinality({c \in DOMAIN a.sessions : a.sessions[c] = s})
                     + Cardinality({t \in DOMAIN a.conversations : a.conversations[t] = s})
                     + Cardinality({l \in Logins : a.l[l].st \in {"pending", "failing"}
                                                   /\ a.l[l].s = s})

(* The tables and the fields of the sessions agree.                        *)
TablesAgree ==
    \A s \in Sessions :
      /\ {c \in DOMAIN a.sessions : a.sessions[c] = s} = {a.s[s].cookie} \ {None}
      /\ {t \in DOMAIN a.conversations : a.conversations[t] = s} = {a.s[s].conv} \ {None}

(* startups counts the logins that are not answered yet, whichever way     *)
(* they end, so that the limit is neither lost nor used up.                *)
StartupsCount == a.startups = Cardinality({l \in Logins : a.l[l].st \in {"pending", "failing"}})

(* Never more logins wait for a session process than MaxStartups allows.   *)
LimitKept == Full > 0 => Cardinality({l \in Logins : a.l[l].st = "pending"}) <= Full

(* A cookie that works belongs to a session whose process said "init" and  *)
(* reported no problem, or to the local session.                           *)
CookieMeansInit ==
    \A c \in DOMAIN a.sessions \ {LocalCookie} :
      a.s[a.sessions[c]].init /\ ~a.s[a.sessions[c]].problem

(* A login that succeeded left its conversation behind, and a later one    *)
(* has used that: it resets the session.                                   *)
TakenUpAgain(s) ==
    \E k, l \in Logins : k < l /\ a.l[k].st = "ok" /\ a.l[k].s = s /\ a.l[l].s = s

(* A session that a browser uses is not freed under it while its process   *)
(* runs, and is found by its cookie until its web service is gone,         *)
(* although timers that were set when it was not used, or by a login       *)
(* before, run on and expire; and a session that is not used has a timer,  *)
(* so that it cannot stay for ever.                                        *)
UsedSessionStays ==
    \A s \in Sessions :
      /\ a.s[s].sv = "torn" => TakenUpAgain(s) \/ a.s[s].tr = "closed"
      /\ a.s[s].sv = "busy" /\ ~TakenUpAgain(s) =>
           a.s[s].cookie \in DOMAIN a.sessions /\ a.sessions[a.s[s].cookie] = s
      /\ a.s[s].refs > 0 /\ a.s[s].sv = "idle" /\ a.s[s].tr = "open" /\ a.s[s].cookie # LocalCookie
           => a.s[s].timer # "none"

(* Every login is answered: by its process, by the end of the process, or  *)
(* by the timer.  LoginWaits(l) ~> LoginAnswered(l).                       *)
LoginWaits(l) == a.l[l].st \in {"pending", "failing"}
LoginAnswered(l) == a.l[l].st \in {"ok", "again", "failed"} \/ a.exited

(* A session that nobody uses and no login waits for is freed in the end:  *)
(* Held(s) ~> FreedOrUsed(s).                                              *)
Held(s) == a.s[s].refs > 0 /\ a.s[s].cookie # LocalCookie
FreedOrUsed(s) == a.s[s].refs = 0 \/ a.s[s].sv = "busy" \/ a.exited

(* A login is answered with success only when the process reported no      *)
(* problem, also when the answer comes from the end of a session.          *)
SuccessIsReal ==
    \A l \in Logins : a.l[l].st = "ok" => ~a.s[a.l[l].s].problem

=============================================================================
