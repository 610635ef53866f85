------------------------------ MODULE SshLogin ------------------------------
(***************************************************************************)
(* How cockpit-ssh logs in, the first half of cockpitsshrelay.c            *)
(* (src/src/ssh): the credentials are asked for, the key of the host is    *)
(* looked up, asked for and verified, the methods of the server are tried  *)
(* one after the other with what there is, and what is missing is asked    *)
(* for on the way.  Every question may be left without a useful answer.    *)
(***************************************************************************)
EXTENDS Integers, TLAPS

CONSTANTS
    MaxPrompts,   \* bound on the prompts of keyboard-interactive
    Allow,        \* connect_to_unknown_hosts
    Whitelist,    \* whether the host is the one whose key is ignored
    Localhost     \* whether the host is another name of this one

(* What an instance has to satisfy.                                        *)
SshLoginAssumption ==
    MaxPrompts \in Nat /\ {Allow, Whitelist, Localhost} \subseteq BOOLEAN
ASSUME SshConstants == SshLoginAssumption

VARIABLES
    ssh,    \* CockpitSshData and where the login is
    sshd    \* the server, and what is known of its key

sshVars == <<ssh, sshd>>

SshMethods == {"public-key", "interactive", "password", "gssapi-mic"}
None == "none"

(* ssh: pc; type (auth_type), data (initial_auth_data); user; tmp: there   *)
(* is a temporary file of known hosts; known (host_known); connected;      *)
(* verified: the key is known, or accepted, or of no interest; try         *)
(* (methods_to_try); tried; final (have_final_result); results             *)
(* (auth_results); problem; pw: prompts answered with the password; given: *)
(* secrets that the server got; asked: how often "basic" was asked for     *)
(* sshd: methods; files: where the key of the host can be found; changed:  *)
(* it is not the known one; prompts: those of keyboard-interactive so far  *)
SshInit ==
    /\ ssh = [pc |-> "star", type |-> None, data |-> FALSE, user |-> FALSE, tmp |-> FALSE,
            known |-> FALSE, connected |-> FALSE, verified |-> FALSE, try |-> {}, tried |-> {},
            final |-> FALSE, results |-> [m \in {} |-> None], problem |-> None, pw |-> 0, given |-> {},
            asked |-> 0]
    /\ \E m \in SUBSET SshMethods, f \in SUBSET {"default", "option"}, d \in BOOLEAN :
         sshd = [methods |-> m, files |-> f, changed |-> d, prompts |-> 0]

(* out: the login is over.                                                 *)
Out(x, problem) == [x EXCEPT !.pc = "out", !.problem = problem]

(* challenge_for_auth_data(): a useful answer or none                      *)
SshAnswers == {"basic", "password", "private-key", "negotiate", None}
Challenge(x, type) == [x EXCEPT !.type = type, !.data = type # None]

(* prompt_with_authorize(): an answer of the conversation or none          *)
Prompted == BOOLEAN

(* prompt_for_host_key(): the fingerprint or the key, or something else    *)
HostKeyAnswers == {"fingerprint", "other"}

(* challenge_for_knownhosts_data(): the key of the host, or of another one *)
KnownHostsAnswers == {"key", "other", None}

(* session_has_known_host_in_file() for the files that are there           *)
HostKnown == sshd.files # {}

(* cockpit_ssh_relay_start()                                               *)
Star ==
    /\ ssh.pc = "star"
    /\ \E type \in SshAnswers : ssh' = [Challenge(ssh, type) EXCEPT !.pc = "host"]
    /\ UNCHANGED sshd

(* cockpit_ssh_connect(): the host is parsed; the user comes from it, from *)
(* the configuration or from "basic".                                      *)
ParseHost ==
    /\ ssh.pc = "host"
    /\ \E ok \in BOOLEAN, user \in BOOLEAN :
         ssh' = IF ~ok THEN Out(ssh, "no-host")
              ELSE IF user \/ ssh.type = "basic"
              THEN [ssh EXCEPT !.user = TRUE, !.pc = IF Whitelist THEN "connect" ELSE "files"]
              ELSE Out(ssh, "authentication-failed")
    /\ UNCHANGED sshd

(* set_knownhosts_file(), challenge_for_knownhosts_data() and              *)
(* write_tmp_knownhosts_file(): the default files, the file of the option, *)
(* or a key that is asked for                                              *)
SetKnownHosts ==
    /\ ssh.pc = "files"
    /\ IF HostKnown
       THEN ssh' = [ssh EXCEPT !.known = TRUE, !.pc = "connect"]
       ELSE \E answer \in KnownHostsAnswers, written \in BOOLEAN :
              LET x == [ssh EXCEPT !.tmp = answer # None, !.known = answer = "key" /\ written]
              IN  ssh' = IF answer # None /\ ~written THEN Out(x, "internal-error")
                       ELSE IF ~Allow /\ ~x.known /\ ~Localhost THEN Out(x, "unknown-host")
                       ELSE [x EXCEPT !.pc = "connect"]
    /\ UNCHANGED sshd

(* ssh_connect()                                                           *)
SshConnect ==
    /\ ssh.pc = "connect"
    /\ \E ok \in BOOLEAN :
         ssh' = IF ~ok THEN Out(ssh, "no-host")
              ELSE [ssh EXCEPT !.connected = TRUE, !.verified = Whitelist,
                             !.pc = IF Whitelist THEN "none" ELSE "verify"]
    /\ UNCHANGED sshd

(* verify_knownhost(), prompt_for_host_key(): only a key that is not known *)
(* is asked about; the answer is its fingerprint or the key itself.        *)
VerifyKnownHost ==
    /\ ssh.pc = "verify"
    /\ \/ ssh' = Out(ssh, "internal-error")
       \/ /\ ssh.known
          /\ ssh' = IF sshd.changed THEN Out(ssh, "invalid-hostkey")
                  ELSE [ssh EXCEPT !.verified = TRUE, !.pc = "none"]
       \/ /\ ~ssh.known
          /\ \E answer \in HostKeyAnswers :
               ssh' = IF answer = "fingerprint" THEN [ssh EXCEPT !.verified = TRUE, !.pc = "none"]
                    ELSE Out(ssh, "unknown-hostkey")
    /\ UNCHANGED sshd

(* cockpit_ssh_authenticate(): "none", and the methods to try              *)
AuthNone ==
    /\ ssh.pc = "none"
    /\ \E rc \in {"error", "success", "denied"} :
         ssh' = CASE rc = "error" -> Out(ssh, "internal-error")
                [] rc = "success" -> [ssh EXCEPT !.pc = "session"]
                [] OTHER -> [ssh EXCEPT !.pc = "method",
                                      !.try = {"public-key", "gssapi-mic"} \cup
                                                (IF "interactive" \in sshd.methods
                                                 THEN {"interactive"} ELSE {"password"})]
    /\ UNCHANGED sshd

(* The order in which the methods are tried                                *)
Method(try) ==
    CASE "public-key" \in try -> "public-key"
      [] "interactive" \in try -> "interactive"
      [] "password" \in try -> "password"
      [] OTHER -> "gssapi-mic"

(* has_password(): it is asked for when nothing came with "*".             *)
NeedsPassword(x, m) == m \in {"interactive", "password"} /\ x.type = None /\ ~x.data
HasCreds(x, m) == m \in {"public-key", "gssapi-mic"} \/ (x.data /\ x.type \in {"basic", "password"})

(* What cockpit_ssh_authenticate() makes of the result of a method; two of *)
(* them are final.                                                         *)
Conclusive == {"succeeded", "error"}
Result(x, m, rc) ==
    [x EXCEPT !.results = [n \in DOMAIN x.results \cup {m} |-> IF n = m THEN rc ELSE x.results[n]],
              !.final = x.final \/ rc \in Conclusive,
              !.problem = IF rc = "succeeded" THEN None
                          ELSE IF rc = "error" THEN "internal-error" ELSE x.problem]

(* One turn of the loop of cockpit_ssh_authenticate() up to auth_func()    *)
NextMethod ==
    /\ ssh.pc = "method" /\ ssh.try # {}
    /\ LET m == Method(ssh.try)
       IN  \E type \in IF NeedsPassword(ssh, m) THEN {"basic", "password", "negotiate", None}
                       ELSE {ssh.type} :
             LET x == [(IF NeedsPassword(ssh, m) THEN [Challenge(ssh, type) EXCEPT !.asked = @ + 1] ELSE ssh)
                         EXCEPT !.try = @ \ {m}]
             IN  ssh' = IF m \notin sshd.methods THEN Result(x, m, "no-server-support")
                      ELSE IF ~HasCreds(x, m)
                      THEN [Result(x, m, "not-provided") EXCEPT !.tried = @ \cup {m}]
                      ELSE IF x.final
                      THEN [Result(x, m, "not-tried") EXCEPT !.tried = @ \cup {m}]
                      ELSE [x EXCEPT !.tried = @ \cup {m}, !.pc = m]
    /\ UNCHANGED sshd

(* A method that is one call: it gives something to the server.            *)
AuthFunc(m) ==
    /\ ssh.pc = m
    /\ \E rc \in {"succeeded", "denied", "partial", "again", "error"} :
         ssh' = [Result(ssh, m, rc) EXCEPT !.pc = "method", !.given = @ \cup {m},
                                       !.pw = IF m = "password" THEN @ + 1 ELSE @]
    /\ UNCHANGED sshd

(* do_auto_auth() and do_key_auth(): the agent, the identities of the      *)
(* user, and the key that was given                                        *)
KeyAuth == AuthFunc("public-key")

(* do_password_auth()                                                      *)
PasswordAuth == AuthFunc("password")

(* do_gss_auth()                                                           *)
GssAuth == AuthFunc("gssapi-mic")

(* A mutant of Interactive: the password answers every prompt.             *)
InteractiveAgain ==
    /\ ssh.pc = "interactive" /\ sshd.prompts < MaxPrompts
    /\ ssh' = [ssh EXCEPT !.pw = @ + 1, !.given = @ \cup {"password"}]
    /\ sshd' = [sshd EXCEPT !.prompts = @ + 1]

(* do_interactive_auth(): the first prompt is answered with the password,  *)
(* the others are passed on; without an answer it fails.                   *)
Interactive ==
    /\ ssh.pc = "interactive" /\ sshd.prompts < MaxPrompts
    /\ IF ssh.pw = 0
       THEN ssh' = [ssh EXCEPT !.pw = 1, !.given = @ \cup {"password"}]
       ELSE \E answered \in Prompted :
              ssh' = IF answered THEN ssh ELSE [Result(ssh, ssh.pc, "error") EXCEPT !.pc = "method"]
    /\ sshd' = [sshd EXCEPT !.prompts = @ + 1]

InteractiveEnds ==
    /\ ssh.pc = "interactive"
    /\ \E rc \in {"succeeded", "denied", "partial", "again", "error"} :
         ssh' = [Result(ssh, ssh.pc, rc) EXCEPT !.pc = "method"]
    /\ UNCHANGED sshd

(* The end of cockpit_ssh_authenticate()                                   *)
AuthEnds ==
    /\ ssh.pc = "method" /\ ssh.try = {}
    /\ ssh' = IF ssh.final /\ ssh.problem = None THEN [ssh EXCEPT !.pc = "session"]
            ELSE Out(ssh, IF ssh.final THEN ssh.problem ELSE "authentication-failed")
    /\ UNCHANGED sshd

(* cockpit_ssh_connect(): the session                                      *)
OpenSession ==
    /\ ssh.pc = "session"
    /\ \E ok \in BOOLEAN : ssh' = Out(ssh, IF ok THEN None ELSE "internal-error")
    /\ UNCHANGED sshd

(* The process ends: cleanup_knownhosts_file()                             *)
AtExit ==
    /\ ssh.pc = "out"
    /\ ssh' = [ssh EXCEPT !.pc = "exited", !.tmp = FALSE]
    /\ UNCHANGED sshd

SshNext ==
    \/ Star \/ ParseHost \/ SetKnownHosts \/ SshConnect \/ VerifyKnownHost \/ AuthNone
    \/ NextMethod \/ KeyAuth \/ PasswordAuth \/ GssAuth \/ Interactive \/ InteractiveEnds \/ AuthEnds \/ OpenSession
    \/ AtExit

SshSpec == SshInit /\ [][SshNext]_sshVars
-----------------------------------------------------------------------------
(* What is kept of the methods is of methods there are, and none is tried  *)
(* that the server does not have; there is a credential or none.           *)
SshTypeOK ==
    /\ ssh.try \subseteq SshMethods /\ ssh.tried \subseteq sshd.methods
    /\ DOMAIN ssh.results \subseteq SshMethods
    /\ ssh.asked \in Nat /\ ssh.type \in SshAnswers /\ (ssh.data <=> ssh.type # None)

(* No secret goes to a server whose key is not the one that is known, or   *)
(* that the user accepted, unless its key is not to be checked.            *)
VerifiedFirst ==
    ssh.given # {} \/ (ssh.pc = "exited" /\ ssh.problem = None)
      => ssh.verified /\ (Whitelist \/ ~ssh.known \/ ~sshd.changed)

(* A connection is made to hosts that are known, allowed or local.         *)
KnownFirst == ssh.connected => ssh.known \/ Allow \/ Localhost \/ Whitelist

(* The password answers one question of the server.                        *)
PasswordOnce == ssh.pw <= 1

(* At most one method succeeds, and none does after an error.              *)
OneFinal ==
    \A m, n \in DOMAIN ssh.results :
      ssh.results[m] \in Conclusive /\ ssh.results[n] \in Conclusive => m = n

(* A login without a problem is one that the server agreed to: without any *)
(* method, or by one that succeeded.                                       *)
ServerAgreed ==
    DOMAIN ssh.results = {} \/ \E m \in DOMAIN ssh.results : ssh.results[m] = "succeeded"
Agreed == ssh.pc = "exited" /\ ssh.problem = None => ServerAgreed

(* The temporary file of known hosts goes with the process.                *)
NoFileLeft == ssh.pc = "exited" => ~ssh.tmp

(* All of this: no secret goes to a host that is not verified, the         *)
(* password answers one question, a login without a problem is one the     *)
(* server agreed to, and no file is left.                                  *)
SshLoginSafe ==
    /\ SshTypeOK /\ VerifiedFirst /\ KnownFirst /\ PasswordOnce /\ OneFinal /\ Agreed
    /\ NoFileLeft

(* The password is asked for at most once, and not when there is one.  (A  *)
(* step.)                                                                  *)
AskedOnce == ssh'.asked > ssh.asked => ssh.asked = 0 /\ ~ssh.data

(* After a final result the server is given nothing more.  (A step.)       *)
FinalStops == ssh.final => ssh'.given = ssh.given /\ ssh'.pw = ssh.pw

(* The login ends whatever is answered: <> SshOver.                        *)
SshOver == ssh.pc = "exited"
-----------------------------------------------------------------------------
(***************************************************************************)
(* The inductive invariant                                                 *)
(***************************************************************************)
Problems ==
    {None, "no-host", "authentication-failed", "internal-error", "unknown-host",
     "invalid-hostkey", "unknown-hostkey"}
Codes ==
    Conclusive \cup {"denied", "partial", "again", "no-server-support", "not-provided", "not-tried"}
Unsure == {"star", "host", "files", "connect", "verify"}
Loop == SshMethods \cup {"method"}
Sure == Loop \cup {"none", "session"}

SshState ==
    [pc : Unsure \cup Sure \cup {"out", "exited"}, type : SshAnswers, data : BOOLEAN,
     user : BOOLEAN, tmp : BOOLEAN, known : BOOLEAN, connected : BOOLEAN, verified : BOOLEAN,
     try : SUBSET SshMethods, tried : SUBSET SshMethods, final : BOOLEAN,
     results : UNION {[D -> Codes] : D \in SUBSET SshMethods}, problem : Problems,
     pw : {0, 1}, given : SUBSET SshMethods, asked : {0, 1}]
SshdState ==
    [methods : SUBSET SshMethods, files : SUBSET {"default", "option"}, changed : BOOLEAN,
     prompts : Nat]

(* Before the methods are tried nothing has come of them, and before the   *)
(* key is verified it is not.                                              *)
Nothing ==
    /\ ssh.pc \in Unsure \cup {"none"} =>
         /\ ssh.given = {} /\ DOMAIN ssh.results = {} /\ ~ssh.final /\ ssh.problem = None
         /\ ssh.pw = 0 /\ ssh.asked = 0 /\ ssh.try = {} /\ ssh.tried = {}
    /\ ssh.pc \in Unsure => ~ssh.verified
    /\ ssh.pc \in Unsure \ {"verify"} => ~ssh.connected

(* The key is verified wherever something may be given to the server, and  *)
(* stays so.                                                               *)
Verified ==
    /\ ssh.pc \in Sure \/ ssh.given # {} => ssh.verified
    /\ ssh.verified => Whitelist \/ ~ssh.known \/ ~sshd.changed
    /\ ssh.pc = "connect" \/ ssh.connected => ssh.known \/ Allow \/ Localhost \/ Whitelist

(* A method has a result or is still to be tried; a final result is in the *)
(* table, once, and no method is then under way.                           *)
Tried ==
    /\ ssh.final <=> \E m \in DOMAIN ssh.results : ssh.results[m] \in Conclusive
    /\ OneFinal
    /\ ssh.try \cap DOMAIN ssh.results = {}
    /\ ssh.pc \in SshMethods => /\ ~ssh.final
                                /\ ssh.pc \notin ssh.try \cup DOMAIN ssh.results
    /\ ssh.tried \subseteq sshd.methods

(* One of the two methods that need the password is tried, once: it is     *)
(* asked for, and given, when none of them is left.                        *)
Password ==
    /\ ssh.data <=> ssh.type # None
    /\ ~({"interactive", "password"} \subseteq ssh.try \cup {ssh.pc})
    /\ ssh.pw = 1 => "password" \notin ssh.try \cup {ssh.pc} /\ "interactive" \notin ssh.try
    /\ ssh.asked = 1 => ssh.try \cap {"interactive", "password"} = {}

(* What the problem says of the results, until the process ends.           *)
Told ==
    /\ ssh.pc \in Loop =>
         (ssh.problem = None <=>
            ~ssh.final \/ \E m \in DOMAIN ssh.results : ssh.results[m] = "succeeded")
    /\ ssh.pc = "session" => ServerAgreed
    /\ ssh.pc \in {"out", "exited"} /\ ssh.problem = None => ServerAgreed /\ ssh.verified

SshInv ==
    /\ ssh \in SshState /\ sshd \in SshdState
    /\ Nothing /\ Verified /\ Tried /\ Password /\ Told /\ NoFileLeft
-----------------------------------------------------------------------------
(***************************************************************************)
(* Proofs                                                                  *)
(***************************************************************************)

(* What Result() makes of the record: the table has one entry more, and    *)
(* only the outcome and the problem follow it.                             *)
LEMMA ResultIs ==
    ASSUME NEW x \in SshState, NEW m \in SshMethods, NEW rc \in Codes
    PROVE  LET y == Result(x, m, rc)
           IN  /\ y \in SshState
               /\ DOMAIN y.results = DOMAIN x.results \cup {m}
               /\ y.results[m] = rc
               /\ \A n \in DOMAIN x.results \ {m} : y.results[n] = x.results[n]
               /\ y.final <=> x.final \/ rc \in Conclusive
               /\ y.problem = IF rc = "succeeded" THEN None
                              ELSE IF rc = "error" THEN "internal-error" ELSE x.problem
               /\ y.pc = x.pc /\ y.type = x.type /\ y.data = x.data /\ y.tmp = x.tmp
               /\ y.known = x.known /\ y.connected = x.connected /\ y.verified = x.verified
               /\ y.try = x.try /\ y.tried = x.tried /\ y.pw = x.pw /\ y.given = x.given
               /\ y.asked = x.asked
<1> DEFINE t == [n \in DOMAIN x.results \cup {m} |-> IF n = m THEN rc ELSE x.results[n]]
           p == IF rc = "succeeded" THEN None
                ELSE IF rc = "error" THEN "internal-error" ELSE x.problem
           f == x.final \/ rc \in Conclusive
           y == [x EXCEPT !.results = t, !.final = f, !.problem = p]
<1>1. PICK D \in SUBSET SshMethods : x.results \in [D -> Codes]
  BY DEF SshState
<1>2. t \in [DOMAIN x.results \cup {m} -> Codes] /\ DOMAIN x.results \cup {m} \subseteq SshMethods
  BY <1>1
<1>3. t \in UNION {[E -> Codes] : E \in SUBSET SshMethods}
  BY <1>2
<1>4. p \in Problems
  BY DEF SshState, Problems, None
<1>5. f \in BOOLEAN
  BY DEF SshState
<1>6. /\ DOMAIN t = DOMAIN x.results \cup {m} /\ t[m] = rc
      /\ \A n \in DOMAIN x.results \ {m} : t[n] = x.results[n]
  OBVIOUS
<1>7. Result(x, m, rc) = y
  BY DEF Result
<1> HIDE DEF t, p, f
<1>8. y \in SshState
  BY <1>3, <1>4, <1>5 DEF SshState
<1>9. /\ y.results = t /\ y.final = f /\ y.problem = p
      /\ y.pc = x.pc /\ y.type = x.type /\ y.data = x.data /\ y.tmp = x.tmp
      /\ y.known = x.known /\ y.connected = x.connected /\ y.verified = x.verified
      /\ y.try = x.try /\ y.tried = x.tried /\ y.pw = x.pw /\ y.given = x.given
      /\ y.asked = x.asked
  BY DEF SshState
<1> HIDE DEF y
<1> QED
  BY <1>6, <1>7, <1>8, <1>9 DEF p, f

(* The login starts with nothing verified, tried or given.                 *)
LEMMA SshInitOK == SshInit => SshInv
<1> SUFFICES ASSUME SshInit PROVE SshInv
  OBVIOUS
<1>1. ssh \in SshState /\ sshd \in SshdState /\ DOMAIN ssh.results = {}
  <2> DEFINE t == [m \in {} |-> None]
  <2>1. t \in [{} -> Codes] /\ DOMAIN t = {}
    OBVIOUS
  <2>2. t \in UNION {[D -> Codes] : D \in SUBSET SshMethods}
    BY <2>1
  <2> HIDE DEF t
  <2>3. ssh = [pc |-> "star", type |-> None, data |-> FALSE, user |-> FALSE, tmp |-> FALSE,
            known |-> FALSE, connected |-> FALSE, verified |-> FALSE, try |-> {}, tried |-> {},
            final |-> FALSE, results |-> t, problem |-> None, pw |-> 0, given |-> {},
            asked |-> 0]
    BY DEF SshInit, t
  <2>4. ssh \in SshState /\ ssh.results = t
    BY <2>2, <2>3 DEF SshState, Unsure, SshAnswers, Problems, None
  <2>5. sshd \in SshdState
    BY DEF SshInit, SshdState
  <2> QED
    BY <2>1, <2>4, <2>5
<1>2. /\ ssh.pc = "star" /\ ssh.type = None /\ ~ssh.data /\ ~ssh.connected /\ ~ssh.verified
      /\ ssh.try = {} /\ ssh.tried = {} /\ ~ssh.final /\ ssh.problem = None /\ ssh.pw = 0
      /\ ssh.given = {} /\ ssh.asked = 0
  BY DEF SshInit
<1>3. Nothing /\ Verified /\ NoFileLeft
  BY <1>1, <1>2 DEF Nothing, Verified, NoFileLeft, Unsure, Sure, Loop, SshMethods
<1>4. Tried /\ Password /\ Told
  BY <1>1, <1>2 DEF Tried, OneFinal, Password, Told, ServerAgreed, SshMethods, Loop
<1> QED
  BY <1>1, <1>3, <1>4 DEF SshInv

(* A step that leaves what was tried alone keeps what the results say.     *)
LEMMA SameResults ==
    ASSUME SshInv, ssh' \in SshState, sshd'.methods = sshd.methods,
           ssh'.results = ssh.results, ssh'.final = ssh.final, ssh'.try = ssh.try,
           ssh'.tried = ssh.tried, ssh'.pc \notin SshMethods
    PROVE  Tried'
BY DEF SshInv, Tried, OneFinal

(* The end of a login that has a problem keeps the invariant.              *)
LEMMA OutOK ==
    ASSUME SshInv, NEW x \in SshState, NEW problem \in Problems \ {None}, ssh' = Out(x, problem),
           UNCHANGED sshd, ssh.pc \in Unsure \cup Sure,
           x.given = ssh.given, x.verified = ssh.verified, x.connected = ssh.connected,
           x.results = ssh.results, x.final = ssh.final, x.try = ssh.try, x.tried = ssh.tried,
           x.pw = ssh.pw, x.asked = ssh.asked, x.type = ssh.type, x.data = ssh.data,
           x.known = ssh.known \/ ssh.pc = "files"
    PROVE  SshInv'
<1>1. /\ ssh' \in SshState /\ sshd' = sshd
      /\ ssh'.pc = "out" /\ ssh'.problem = problem
      /\ ssh'.given = ssh.given /\ ssh'.verified = ssh.verified /\ ssh'.connected = ssh.connected
      /\ ssh'.results = ssh.results /\ ssh'.final = ssh.final /\ ssh'.try = ssh.try
      /\ ssh'.tried = ssh.tried /\ ssh'.pw = ssh.pw /\ ssh'.asked = ssh.asked
      /\ ssh'.type = ssh.type /\ ssh'.data = ssh.data /\ ssh'.known = x.known
  BY DEF Out, SshState
<1>2. Tried'
  BY <1>1, SameResults DEF SshMethods, SshInv
<1>3. Nothing' /\ NoFileLeft'
  BY <1>1 DEF Nothing, Unsure, NoFileLeft
<1>4. Verified'
  BY <1>1 DEF SshInv, Verified, Sure, Loop, SshMethods, Nothing, Unsure
<1>5. Password'
  BY <1>1 DEF SshInv, Password
<1>6. Told'
  BY <1>1 DEF Told, Loop, SshMethods
<1> QED
  BY <1>1, <1>2, <1>3, <1>4, <1>5, <1>6 DEF SshInv

(* cockpit_ssh_relay_start()                                               *)
LEMMA StarOK == ASSUME SshInv, Star PROVE SshInv'
<1> PICK type \in SshAnswers : ssh' = [Challenge(ssh, type) EXCEPT !.pc = "host"]
  BY DEF Star
<1> DEFINE d == type # None
<1>0. /\ ssh' = [ssh EXCEPT !.type = type, !.data = d, !.pc = "host"] /\ d \in BOOLEAN
      /\ ssh.pc = "star" /\ sshd' = sshd /\ ssh \in SshState
  BY DEF Star, Challenge, SshInv
<1> HIDE DEF d
<1>1. /\ ssh' \in SshState /\ sshd' = sshd /\ ssh.pc = "star"
      /\ ssh'.type = type /\ ssh'.data = d /\ ssh'.pc = "host"
      /\ ssh'.given = ssh.given /\ ssh'.verified = ssh.verified /\ ssh'.connected = ssh.connected
      /\ ssh'.results = ssh.results /\ ssh'.final = ssh.final /\ ssh'.try = ssh.try
      /\ ssh'.tried = ssh.tried /\ ssh'.pw = ssh.pw /\ ssh'.asked = ssh.asked
      /\ ssh'.problem = ssh.problem
  BY <1>0 DEF SshState, Unsure
<1>2. Tried'
  BY <1>1, SameResults DEF SshMethods
<1>3. Nothing' /\ Verified' /\ NoFileLeft'
  BY <1>1 DEF SshInv, Nothing, Verified, NoFileLeft, Unsure, Sure, Loop, SshMethods
<1>4. Password' /\ Told'
  BY <1>1 DEF SshInv, Nothing, Password, Told, Loop, SshMethods, Unsure, d
<1> QED
  BY <1>1, <1>2, <1>3, <1>4 DEF SshInv

(* The host is parsed.                                                     *)
LEMMA ParseHostOK == ASSUME SshInv, ParseHost PROVE SshInv'
<1>0. ssh.pc = "host" /\ sshd' = sshd /\ ssh \in SshState
  BY DEF ParseHost, SshInv
<1>1. CASE ssh' = Out(ssh, "no-host") \/ ssh' = Out(ssh, "authentication-failed")
  BY <1>0, <1>1, OutOK DEF Problems, Unsure, None
<1>2. CASE ssh' = [ssh EXCEPT !.user = TRUE, !.pc = IF Whitelist THEN "connect" ELSE "files"]
  <2> DEFINE pc == IF Whitelist THEN "connect" ELSE "files"
  <2>1. pc \in Unsure \ {"star", "host", "verify"} /\ (pc = "connect" => Whitelist)
    BY DEF Unsure
  <2>2. ssh' = [ssh EXCEPT !.user = TRUE, !.pc = pc]
    BY <1>2
  <2> HIDE DEF pc
  <2>3. ssh' \in SshState
    BY <1>0, <2>1, <2>2 DEF SshState
  <2>4. Tried'
    BY <1>0, <2>1, <2>2, <2>3, SameResults DEF SshMethods, SshState, Unsure
  <2>5. Nothing' /\ Verified' /\ NoFileLeft'
    BY <1>0, <2>1, <2>2 DEF SshInv, Nothing, Verified, NoFileLeft, Unsure, Sure, Loop, SshMethods,
                            SshState
  <2>6. Password' /\ Told'
    BY <1>0, <2>1, <2>2 DEF SshInv, Nothing, Password, Told, Loop, SshMethods, Unsure, SshState
  <2> QED
    BY <1>0, <2>3, <2>4, <2>5, <2>6 DEF SshInv
<1> QED
  BY <1>1, <1>2 DEF ParseHost

(* The key of the host is looked for, or asked for.                        *)
LEMMA SetKnownHostsOK == ASSUME SshInv, SetKnownHosts PROVE SshInv'
<1>0. ssh.pc = "files" /\ sshd' = sshd /\ ssh \in SshState
  BY DEF SetKnownHosts, SshInv
<1>1. ASSUME NEW tmp \in BOOLEAN, NEW known \in BOOLEAN,
             ssh' = [ssh EXCEPT !.tmp = tmp, !.known = known, !.pc = "connect"],
             known \/ Allow \/ Localhost
      PROVE  SshInv'
  <2>3. ssh' \in SshState
    BY <1>0, <1>1 DEF SshState, Unsure
  <2>4. Tried'
    BY <1>0, <1>1, <2>3, SameResults DEF SshMethods, SshState
  <2>5. Nothing' /\ Verified' /\ NoFileLeft'
    BY <1>0, <1>1 DEF SshInv, Nothing, Verified, NoFileLeft, Unsure, Sure, Loop, SshMethods, SshState
  <2>6. Password' /\ Told'
    BY <1>0, <1>1 DEF SshInv, Nothing, Password, Told, Loop, SshMethods, Unsure, SshState
  <2> QED
    BY <1>0, <2>3, <2>4, <2>5, <2>6 DEF SshInv
<1>2. CASE HostKnown
  <2>1. ssh' = [ssh EXCEPT !.known = TRUE, !.pc = "connect"]
    BY <1>2 DEF SetKnownHosts
  <2>2. ssh' = [ssh EXCEPT !.tmp = ssh.tmp, !.known = TRUE, !.pc = "connect"]
    BY <1>0, <2>1 DEF SshState
  <2> QED
    BY <1>0, <1>1, <2>2 DEF SshState
<1>3. CASE ~HostKnown
  <2>1. PICK answer \in KnownHostsAnswers, written \in BOOLEAN :
          LET x == [ssh EXCEPT !.tmp = answer # None, !.known = answer = "key" /\ written]
          IN  ssh' = IF answer # None /\ ~written THEN Out(x, "internal-error")
                     ELSE IF ~Allow /\ ~x.known /\ ~Localhost THEN Out(x, "unknown-host")
                     ELSE [x EXCEPT !.pc = "connect"]
    BY <1>3 DEF SetKnownHosts
  <2> DEFINE tmp == answer # None
             known == answer = "key" /\ written
             x == [ssh EXCEPT !.tmp = tmp, !.known = known]
  <2>2. tmp \in BOOLEAN /\ known \in BOOLEAN
    OBVIOUS
  <2>3. \/ ssh' = Out(x, "internal-error")
        \/ ssh' = Out(x, "unknown-host")
        \/ (x.known \/ Allow \/ Localhost) /\ ssh' = [x EXCEPT !.pc = "connect"]
    BY <2>1
  <2> HIDE DEF tmp, known
  <2>4. /\ x \in SshState /\ x.known = known
        /\ [x EXCEPT !.pc = "connect"] = [ssh EXCEPT !.tmp = tmp, !.known = known, !.pc = "connect"]
        /\ x.given = ssh.given /\ x.verified = ssh.verified /\ x.connected = ssh.connected
        /\ x.results = ssh.results /\ x.final = ssh.final /\ x.try = ssh.try /\ x.tried = ssh.tried
        /\ x.pw = ssh.pw /\ x.asked = ssh.asked /\ x.type = ssh.type /\ x.data = ssh.data
    BY <1>0, <2>2 DEF SshState
  <2> HIDE DEF x
  <2>5. CASE ssh' = Out(x, "internal-error") \/ ssh' = Out(x, "unknown-host")
    BY <1>0, <2>4, <2>5, OutOK DEF Problems, Unsure, None
  <2>6. CASE (x.known \/ Allow \/ Localhost) /\ ssh' = [x EXCEPT !.pc = "connect"]
    BY <2>2, <2>4, <2>6, <1>1
  <2> QED
    BY <2>3, <2>5, <2>6
<1> QED
  BY <1>2, <1>3

(* The connection is made.                                                 *)
LEMMA SshConnectOK == ASSUME SshInv, SshConnect PROVE SshInv'
<1>0. ssh.pc = "connect" /\ sshd' = sshd /\ ssh \in SshState
  BY DEF SshConnect, SshInv
<1>1. CASE ssh' = Out(ssh, "no-host")
  BY <1>0, <1>1, OutOK DEF Problems, Unsure, None
<1>2. CASE ssh' = [ssh EXCEPT !.connected = TRUE, !.verified = Whitelist,
                              !.pc = IF Whitelist THEN "none" ELSE "verify"]
  <2> DEFINE pc == IF Whitelist THEN "none" ELSE "verify"
  <2>1. /\ pc \in {"none", "verify"} /\ (pc = "none" <=> Whitelist)
        /\ Whitelist \in BOOLEAN
    BY SshConstants DEF SshLoginAssumption
  <2>2. ssh' = [ssh EXCEPT !.connected = TRUE, !.verified = Whitelist, !.pc = pc]
    BY <1>2
  <2> HIDE DEF pc
  <2>3. ssh' \in SshState
    BY <1>0, <2>1, <2>2 DEF SshState, Unsure, Sure
  <2>4. Tried'
    BY <1>0, <2>1, <2>2, <2>3, SameResults DEF SshMethods, SshState
  <2>5. Nothing' /\ Verified' /\ NoFileLeft'
    BY <1>0, <2>1, <2>2 DEF SshInv, Nothing, Verified, NoFileLeft, Unsure, Sure, Loop, SshMethods,
                            SshState
  <2>6. Password' /\ Told'
    BY <1>0, <2>1, <2>2 DEF SshInv, Nothing, Password, Told, Loop, SshMethods, Unsure, SshState
  <2> QED
    BY <1>0, <2>3, <2>4, <2>5, <2>6 DEF SshInv
<1> QED
  BY <1>1, <1>2 DEF SshConnect

(* The key of the host is compared with the known one, or accepted.        *)
LEMMA VerifyKnownHostOK == ASSUME SshInv, VerifyKnownHost PROVE SshInv'
<1>0. ssh.pc = "verify" /\ sshd' = sshd /\ ssh \in SshState
  BY DEF VerifyKnownHost, SshInv
<1>1. CASE \/ ssh' = Out(ssh, "internal-error") \/ ssh' = Out(ssh, "invalid-hostkey")
           \/ ssh' = Out(ssh, "unknown-hostkey")
  BY <1>0, <1>1, OutOK DEF Problems, Unsure, None
<1>2. CASE (ssh.known => ~sshd.changed) /\ ssh' = [ssh EXCEPT !.verified = TRUE, !.pc = "none"]
  <2>3. ssh' \in SshState
    BY <1>0, <1>2 DEF SshState, Unsure, Sure
  <2>4. Tried'
    BY <1>0, <1>2, <2>3, SameResults DEF SshMethods, SshState
  <2>5. Nothing' /\ Verified' /\ NoFileLeft'
    BY <1>0, <1>2 DEF SshInv, Nothing, Verified, NoFileLeft, Unsure, Sure, Loop, SshMethods, SshState
  <2>6. Password' /\ Told'
    BY <1>0, <1>2 DEF SshInv, Nothing, Password, Told, Loop, SshMethods, Unsure, SshState
  <2> QED
    BY <1>0, <2>3, <2>4, <2>5, <2>6 DEF SshInv
<1> QED
  BY <1>1, <1>2 DEF VerifyKnownHost

(* The methods to try are chosen.                                          *)
LEMMA AuthNoneOK == ASSUME SshInv, AuthNone PROVE SshInv'
<1>0. ssh.pc = "none" /\ sshd' = sshd /\ ssh \in SshState
  BY DEF AuthNone, SshInv
<1> DEFINE try == {"public-key", "gssapi-mic"} \cup
                    (IF "interactive" \in sshd.methods THEN {"interactive"} ELSE {"password"})
<1>1. /\ try \subseteq SshMethods
      /\ ~({"interactive", "password"} \subseteq try)
  BY DEF SshMethods
<1>2. PICK rc \in {"error", "success", "denied"} :
        ssh' = CASE rc = "error" -> Out(ssh, "internal-error")
                 [] rc = "success" -> [ssh EXCEPT !.pc = "session"]
                 [] OTHER -> [ssh EXCEPT !.pc = "method", !.try = try]
  BY DEF AuthNone
<1> HIDE DEF try
<1>3. \/ ssh' = Out(ssh, "internal-error")
      \/ ssh' = [ssh EXCEPT !.pc = "session"]
      \/ ssh' = [ssh EXCEPT !.pc = "method", !.try = try]
  BY <1>2
<1>4. CASE ssh' = Out(ssh, "internal-error")
  BY <1>0, <1>4, OutOK DEF Problems, Unsure, None, Sure
<1>5. CASE ssh' = [ssh EXCEPT !.pc = "session"]
  <2>3. ssh' \in SshState
    BY <1>0, <1>5 DEF SshState, Unsure, Sure
  <2>4. Tried'
    BY <1>0, <1>5, <2>3, SameResults DEF SshMethods, SshState
  <2>5. Nothing' /\ Verified' /\ NoFileLeft'
    BY <1>0, <1>5 DEF SshInv, Nothing, Verified, NoFileLeft, Unsure, Sure, Loop, SshMethods, SshState
  <2>6. Password' /\ Told'
    BY <1>0, <1>5 DEF SshInv, Nothing, Password, Told, Loop, SshMethods, Unsure, SshState,
                      ServerAgreed
  <2> QED
    BY <1>0, <2>3, <2>4, <2>5, <2>6 DEF SshInv
<1>6. CASE ssh' = [ssh EXCEPT !.pc = "method", !.try = try]
  <2>3. ssh' \in SshState
    BY <1>0, <1>1, <1>6 DEF SshState, Unsure, Sure, Loop
  <2>4. Tried'
    BY <1>0, <1>6 DEF SshInv, Nothing, Tried, OneFinal, SshMethods, SshState
  <2>5. Nothing' /\ Verified' /\ NoFileLeft'
    BY <1>0, <1>6 DEF SshInv, Nothing, Verified, NoFileLeft, Unsure, Sure, Loop, SshMethods, SshState
  <2>6. Password' /\ Told'
    BY <1>0, <1>1, <1>6 DEF SshInv, Nothing, Password, Told, Loop, SshMethods, Unsure, SshState
  <2> QED
    BY <1>0, <2>3, <2>4, <2>5, <2>6 DEF SshInv
<1> QED
  BY <1>3, <1>4, <1>5, <1>6

(* The methods are through.                                                *)
LEMMA AuthEndsOK == ASSUME SshInv, AuthEnds PROVE SshInv'
<1>0. ssh.pc = "method" /\ sshd' = sshd /\ ssh \in SshState
  BY DEF AuthEnds, SshInv
<1>1. CASE ssh.final /\ ssh.problem = None
  <2>1. ssh' = [ssh EXCEPT !.pc = "session"]
    BY <1>1 DEF AuthEnds
  <2>3. ssh' \in SshState
    BY <1>0, <2>1 DEF SshState, Unsure, Sure
  <2>4. Tried'
    BY <1>0, <2>1, <2>3, SameResults DEF SshMethods, SshState
  <2>5. Nothing' /\ Verified' /\ NoFileLeft'
    BY <1>0, <2>1 DEF SshInv, Nothing, Verified, NoFileLeft, Unsure, Sure, Loop, SshMethods, SshState
  <2>6. Password' /\ Told'
    BY <1>0, <1>1, <2>1 DEF SshInv, Password, Told, Loop, SshMethods, SshState, ServerAgreed
  <2> QED
    BY <1>0, <2>3, <2>4, <2>5, <2>6 DEF SshInv
<1>2. CASE ~(ssh.final /\ ssh.problem = None)
  <2> DEFINE p == IF ssh.final THEN ssh.problem ELSE "authentication-failed"
  <2>1. p \in Problems \ {None}
    BY <1>0, <1>2 DEF SshState, Problems, None
  <2>2. ssh' = Out(ssh, p)
    BY <1>2 DEF AuthEnds
  <2> HIDE DEF p
  <2> QED
    BY <1>0, <2>1, <2>2, OutOK DEF Sure, Loop
<1> QED
  BY <1>1, <1>2

(* The session is opened on the server, or not.                            *)
LEMMA OpenSessionOK == ASSUME SshInv, OpenSession PROVE SshInv'
<1>0. ssh.pc = "session" /\ sshd' = sshd /\ ssh \in SshState
  BY DEF OpenSession, SshInv
<1>1. CASE ssh' = Out(ssh, "internal-error")
  BY <1>0, <1>1, OutOK DEF Problems, Sure, None
<1>2. CASE ssh' = Out(ssh, None)
  <2>1. ssh' = [ssh EXCEPT !.pc = "out", !.problem = None]
    BY <1>2 DEF Out
  <2>3. ssh' \in SshState
    BY <1>0, <2>1 DEF SshState, Problems
  <2>4. Tried'
    BY <1>0, <2>1, <2>3, SameResults DEF SshMethods, SshState
  <2>5. Nothing' /\ Verified' /\ NoFileLeft'
    BY <1>0, <2>1 DEF SshInv, Nothing, Verified, NoFileLeft, Unsure, Sure, Loop, SshMethods, SshState
  <2>6. Password' /\ Told'
    BY <1>0, <2>1 DEF SshInv, Verified, Password, Told, Loop, Sure, SshMethods, SshState, ServerAgreed
  <2> QED
    BY <1>0, <2>3, <2>4, <2>5, <2>6 DEF SshInv
<1> QED
  BY <1>1, <1>2 DEF OpenSession

(* The process ends.                                                       *)
LEMMA AtExitOK == ASSUME SshInv, AtExit PROVE SshInv'
<1>0. ssh.pc = "out" /\ sshd' = sshd /\ ssh \in SshState
      /\ ssh' = [ssh EXCEPT !.pc = "exited", !.tmp = FALSE]
  BY DEF AtExit, SshInv
<1>3. ssh' \in SshState
  BY <1>0 DEF SshState
<1>4. Tried'
  BY <1>0, <1>3, SameResults DEF SshMethods, SshState
<1>5. Nothing' /\ Verified' /\ NoFileLeft'
  BY <1>0 DEF SshInv, Nothing, Verified, NoFileLeft, Unsure, Sure, Loop, SshMethods, SshState
<1>6. Password' /\ Told'
  BY <1>0 DEF SshInv, Password, Told, Loop, SshMethods, SshState, ServerAgreed
<1> QED
  BY <1>0, <1>3, <1>4, <1>5, <1>6 DEF SshInv

(* The method under way comes to a result: it is the first final one if it *)
(* is final, and no other method for the password is left.                 *)
LEMMA MethodDone ==
    ASSUME SshInv, NEW m \in SshMethods, ssh.pc = m, NEW rc \in Codes,
           NEW given \in SUBSET SshMethods, NEW pw \in {0, 1},
           pw = 1 => m \in {"interactive", "password"} \/ ssh.pw = 1,
           ssh' = [Result(ssh, m, rc) EXCEPT !.pc = "method", !.given = given, !.pw = pw],
           sshd' \in SshdState, sshd'.methods = sshd.methods, sshd'.changed = sshd.changed
    PROVE  SshInv'
<1> DEFINE y == Result(ssh, m, rc)
<1>0. ssh \in SshState
  BY DEF SshInv
<1>1. /\ y \in SshState
      /\ DOMAIN y.results = DOMAIN ssh.results \cup {m}
      /\ y.results[m] = rc
      /\ \A n \in DOMAIN ssh.results \ {m} : y.results[n] = ssh.results[n]
      /\ y.final <=> ssh.final \/ rc \in Conclusive
      /\ y.problem = IF rc = "succeeded" THEN None
                     ELSE IF rc = "error" THEN "internal-error" ELSE ssh.problem
      /\ y.type = ssh.type /\ y.data = ssh.data
      /\ y.known = ssh.known /\ y.connected = ssh.connected /\ y.verified = ssh.verified
      /\ y.try = ssh.try /\ y.tried = ssh.tried /\ y.asked = ssh.asked
  BY <1>0, ResultIs
<1>2. ssh' = [y EXCEPT !.pc = "method", !.given = given, !.pw = pw]
  OBVIOUS
<1> HIDE DEF y
<1>3. /\ ssh' \in SshState
      /\ ssh'.results = y.results /\ ssh'.final = y.final /\ ssh'.problem = y.problem
      /\ ssh'.type = y.type /\ ssh'.data = y.data /\ ssh'.known = y.known
      /\ ssh'.connected = y.connected /\ ssh'.verified = y.verified /\ ssh'.try = y.try
      /\ ssh'.tried = y.tried /\ ssh'.asked = y.asked
      /\ ssh'.pc = "method" /\ ssh'.given = given /\ ssh'.pw = pw
  <2>1. y \in SshState /\ "method" \in Unsure \cup Sure \cup {"out", "exited"}
    BY <1>1 DEF Sure, Loop
  <2>2. ssh' \in SshState
    BY <1>2, <2>1 DEF SshState
  <2> QED
    BY <1>2, <2>1, <2>2 DEF SshState
<1>4. ~ssh.final /\ m \notin ssh.try \cup DOMAIN ssh.results
  BY DEF SshInv, Tried
<1>5. \A n \in DOMAIN ssh.results : ssh.results[n] \notin Conclusive
  BY <1>4 DEF SshInv, Tried
<1>6. Tried'
  <2>1. ssh'.final <=> \E n \in DOMAIN ssh'.results : ssh'.results[n] \in Conclusive
    BY <1>1, <1>3, <1>4, <1>5
  <2>2. OneFinal'
    BY <1>1, <1>3, <1>4, <1>5 DEF OneFinal
  <2>3. ssh'.try \cap DOMAIN ssh'.results = {} /\ ssh'.tried \subseteq sshd'.methods
    BY <1>1, <1>3, <1>4 DEF SshInv, Tried
  <2> QED
    BY <1>3, <2>1, <2>2, <2>3 DEF Tried, SshMethods
<1>7. Nothing' /\ Verified' /\ NoFileLeft'
  BY <1>1, <1>3 DEF SshInv, Nothing, Verified, NoFileLeft, Unsure, Sure, Loop, SshMethods
<1>8. Password'
  BY <1>1, <1>3, <1>4 DEF SshInv, Password
<1>9. Told'
  <2>1. ssh.problem = None
    BY <1>4 DEF SshInv, Told, Loop
  <2>2. (\E n \in DOMAIN ssh'.results : ssh'.results[n] = "succeeded") <=> rc = "succeeded"
    BY <1>1, <1>3, <1>4, <1>5 DEF Conclusive
  <2>3. ssh'.final <=> rc \in {"succeeded", "error"}
    BY <1>1, <1>3, <1>4 DEF Conclusive
  <2>4. ssh'.problem = None <=> rc # "error"
    BY <1>1, <1>3, <2>1 DEF None
  <2> QED
    BY <1>3, <2>2, <2>3, <2>4 DEF Told
<1> QED
  BY <1>3, <1>6, <1>7, <1>8, <1>9 DEF SshInv

(* The methods that are one call                                           *)
LEMMA AuthFuncOK ==
    ASSUME SshInv, NEW m \in {"public-key", "password", "gssapi-mic"}, AuthFunc(m)
    PROVE  SshInv'
<1>1. PICK rc \in {"succeeded", "denied", "partial", "again", "error"} :
        ssh' = [Result(ssh, m, rc) EXCEPT !.pc = "method", !.given = @ \cup {m},
                                          !.pw = IF m = "password" THEN @ + 1 ELSE @]
  BY DEF AuthFunc
<1>2. ssh.pc = m /\ sshd' = sshd /\ rc \in Codes /\ m \in SshMethods /\ ssh \in SshState
      /\ sshd \in SshdState
  BY DEF AuthFunc, Codes, Conclusive, SshMethods, SshInv
<1> DEFINE y == Result(ssh, m, rc)
           given == y.given \cup {m}
           pw == IF m = "password" THEN y.pw + 1 ELSE y.pw
<1>3. y.given = ssh.given /\ y.pw = ssh.pw
  BY <1>2, ResultIs
<1>4. given \in SUBSET SshMethods
  BY <1>2, <1>3 DEF SshState
<1>5. pw \in {0, 1} /\ (pw = 1 => m \in {"interactive", "password"} \/ ssh.pw = 1)
  <2>1. m = "password" => ssh.pw = 0
    BY <1>2 DEF SshInv, Password, SshState
  <2>2. ssh.pw \in {0, 1}
    BY <1>2 DEF SshState
  <2> QED
    BY <2>1, <2>2, <1>3
<1>6. ssh' = [Result(ssh, m, rc) EXCEPT !.pc = "method", !.given = given, !.pw = pw]
  BY <1>1
<1> HIDE DEF given, pw, y
<1> QED
  BY <1>2, <1>4, <1>5, <1>6, MethodDone

(* A turn of the keyboard-interactive method: the first prompt gets the    *)
(* password, and no other.                                                 *)
LEMMA InteractiveOK == ASSUME SshInv, Interactive \/ InteractiveEnds PROVE SshInv'
<1>0. ssh.pc = "interactive" /\ ssh \in SshState /\ sshd \in SshdState
      /\ ssh.given \in SUBSET SshMethods /\ ssh.pw \in {0, 1}
  BY DEF Interactive, InteractiveEnds, SshInv, SshState
<1>1. /\ sshd' \in SshdState /\ sshd'.methods = sshd.methods /\ sshd'.changed = sshd.changed
  BY <1>0 DEF Interactive, InteractiveEnds, SshdState
<1>2. ASSUME NEW rc \in Codes, ssh' = [Result(ssh, ssh.pc, rc) EXCEPT !.pc = "method"]
      PROVE  SshInv'
  <2> DEFINE y == Result(ssh, "interactive", rc)
  <2>1. y \in SshState /\ y.given = ssh.given /\ y.pw = ssh.pw
    BY <1>0, ResultIs DEF SshMethods
  <2>2. ssh' = [y EXCEPT !.pc = "method"]
    BY <1>0, <1>2
  <2> HIDE DEF y
  <2>3. ssh' = [y EXCEPT !.pc = "method", !.given = ssh.given, !.pw = ssh.pw]
    BY <2>1, <2>2 DEF SshState
  <2> QED
    BY <1>0, <1>1, <2>3, MethodDone DEF y, SshMethods
<1>3. CASE Interactive /\ ssh' = ssh
  BY <1>0, <1>1, <1>3 DEF SshInv, Nothing, Verified, Tried, OneFinal, Password, Told, NoFileLeft,
                          ServerAgreed
<1>4. CASE Interactive /\ ssh.pw = 0
  <2>1. ssh' = [ssh EXCEPT !.pw = 1, !.given = ssh.given \cup {"password"}]
    BY <1>4 DEF Interactive
  <2>2. /\ ssh' \in SshState
        /\ ssh'.results = ssh.results /\ ssh'.final = ssh.final /\ ssh'.problem = ssh.problem
        /\ ssh'.type = ssh.type /\ ssh'.data = ssh.data /\ ssh'.known = ssh.known
        /\ ssh'.connected = ssh.connected /\ ssh'.verified = ssh.verified /\ ssh'.try = ssh.try
        /\ ssh'.tried = ssh.tried /\ ssh'.asked = ssh.asked
        /\ ssh'.pc = "interactive" /\ ssh'.pw = 1
    BY <1>0, <2>1 DEF SshState, SshMethods
  <2>3. Tried'
    BY <1>0, <1>1, <2>2 DEF SshInv, Tried, OneFinal
  <2>4. Nothing' /\ Verified' /\ NoFileLeft'
    BY <1>0, <1>1, <2>2 DEF SshInv, Nothing, Verified, NoFileLeft, Unsure, Sure, Loop, SshMethods
  <2>5. Password'
    BY <1>0, <2>2 DEF SshInv, Tried, Password, SshMethods
  <2>6. Told'
    BY <1>0, <2>2 DEF SshInv, Told, ServerAgreed
  <2> QED
    BY <1>1, <2>2, <2>3, <2>4, <2>5, <2>6 DEF SshInv
<1>5. CASE Interactive /\ ssh.pw # 0 /\ ssh' # ssh
  <2>1. ssh' = [Result(ssh, ssh.pc, "error") EXCEPT !.pc = "method"]
    BY <1>5 DEF Interactive
  <2> QED
    BY <1>2, <2>1 DEF Codes, Conclusive
<1>6. CASE InteractiveEnds
  <2>1. PICK rc \in {"succeeded", "denied", "partial", "again", "error"} :
          ssh' = [Result(ssh, ssh.pc, rc) EXCEPT !.pc = "method"]
    BY <1>6 DEF InteractiveEnds
  <2> QED
    BY <1>2, <2>1 DEF Codes, Conclusive
<1> QED
  BY <1>3, <1>4, <1>5, <1>6

(* The method that is tried next is one of those to try.                   *)
LEMMA MethodChosen ==
    ASSUME NEW try \in SUBSET SshMethods, try # {}
    PROVE  Method(try) \in try
BY DEF Method, SshMethods

(* The next method begins, or is passed over: what it needs is asked for   *)
(* when it was not yet.                                                    *)
LEMMA NextMethodOK == ASSUME SshInv, NextMethod PROVE SshInv'
<1> DEFINE m == Method(ssh.try)
<1>0. ssh.pc = "method" /\ ssh.try # {} /\ sshd' = sshd /\ ssh \in SshState
  BY DEF NextMethod, SshInv
<1>1. m \in ssh.try /\ m \in SshMethods
  BY <1>0, MethodChosen DEF SshState
<1>2. PICK type \in IF NeedsPassword(ssh, m) THEN {"basic", "password", "negotiate", None}
                    ELSE {ssh.type} :
        LET x == [(IF NeedsPassword(ssh, m) THEN [Challenge(ssh, type) EXCEPT !.asked = @ + 1] ELSE ssh)
                    EXCEPT !.try = @ \ {m}]
        IN  ssh' = IF m \notin sshd.methods THEN Result(x, m, "no-server-support")
                   ELSE IF ~HasCreds(x, m)
                   THEN [Result(x, m, "not-provided") EXCEPT !.tried = @ \cup {m}]
                   ELSE IF x.final
                   THEN [Result(x, m, "not-tried") EXCEPT !.tried = @ \cup {m}]
                   ELSE [x EXCEPT !.tried = @ \cup {m}, !.pc = m]
  BY DEF NextMethod
<1> DEFINE z == IF NeedsPassword(ssh, m) THEN [Challenge(ssh, type) EXCEPT !.asked = @ + 1] ELSE ssh
           x == [z EXCEPT !.try = @ \ {m}]
<1>3. /\ z \in SshState /\ (z.data <=> z.type # None)
      /\ z.pc = "method" /\ z.known = ssh.known /\ z.connected = ssh.connected
      /\ z.verified = ssh.verified /\ z.try = ssh.try /\ z.tried = ssh.tried
      /\ z.final = ssh.final /\ z.results = ssh.results /\ z.problem = ssh.problem
      /\ z.pw = ssh.pw /\ z.given = ssh.given
      /\ z.asked = 1 => m \in {"interactive", "password"} \/ ssh.asked = 1
  <2>1. CASE NeedsPassword(ssh, m)
    <3>1. m \in {"interactive", "password"} /\ ssh.asked = 0 /\ type \in SshAnswers
      BY <1>0, <1>1, <1>2, <2>1 DEF NeedsPassword, SshInv, Password, SshState, SshAnswers
    <3> DEFINE c == Challenge(ssh, type)
               d == type # None
    <3>3. c = [ssh EXCEPT !.type = type, !.data = d] /\ d \in BOOLEAN
      BY DEF Challenge
    <3>4. z = [c EXCEPT !.asked = c.asked + 1]
      BY <2>1
    <3> HIDE DEF z, c, d
    <3>5. c \in SshState /\ c.asked = 0
      BY <1>0, <3>1, <3>3 DEF SshState
    <3>6. z = [c EXCEPT !.asked = 1]
      BY <3>4, <3>5
    <3>2. z = [ssh EXCEPT !.type = type, !.data = d, !.asked = 1]
      BY <1>0, <3>1, <3>3, <3>5, <3>6 DEF SshState
    <3>7. /\ z \in SshState /\ z.data = d /\ z.type = type /\ z.asked = 1
          /\ z.pc = ssh.pc /\ z.known = ssh.known /\ z.connected = ssh.connected
          /\ z.verified = ssh.verified /\ z.try = ssh.try /\ z.tried = ssh.tried
          /\ z.final = ssh.final /\ z.results = ssh.results /\ z.problem = ssh.problem
          /\ z.pw = ssh.pw /\ z.given = ssh.given
      <4>1. type \in SshAnswers /\ d \in BOOLEAN /\ ssh \in SshState
        BY <1>0, <3>1, <3>3
      <4>2. z \in SshState
        BY <3>2, <4>1 DEF SshState
      <4>3. z.data = d /\ z.type = type /\ z.asked = 1
        BY <3>2, <4>1 DEF SshState
      <4> QED
        BY <3>2, <4>1, <4>2, <4>3 DEF SshState
    <3> QED
      BY <1>0, <3>1, <3>7 DEF d
  <2>2. CASE ~NeedsPassword(ssh, m)
    BY <1>0, <2>2 DEF SshInv, Password
  <2> QED
    BY <2>1, <2>2
<1>4. ssh' = IF m \notin sshd.methods THEN Result(x, m, "no-server-support")
             ELSE IF ~HasCreds(x, m)
             THEN [Result(x, m, "not-provided") EXCEPT !.tried = @ \cup {m}]
             ELSE IF x.final
             THEN [Result(x, m, "not-tried") EXCEPT !.tried = @ \cup {m}]
             ELSE [x EXCEPT !.tried = @ \cup {m}, !.pc = m]
  BY <1>2
<1> HIDE DEF m, z
<1>5. /\ x \in SshState /\ (x.data <=> x.type # None)
      /\ x.pc = "method" /\ x.known = ssh.known /\ x.connected = ssh.connected
      /\ x.verified = ssh.verified /\ x.try = ssh.try \ {m} /\ x.tried = ssh.tried
      /\ x.final = ssh.final /\ x.results = ssh.results /\ x.problem = ssh.problem
      /\ x.pw = ssh.pw /\ x.given = ssh.given /\ x.asked = z.asked
  BY <1>3 DEF SshState
<1> HIDE DEF x
<1>6. m \notin DOMAIN ssh.results
  BY <1>1 DEF SshInv, Tried
<1>7. ASSUME ssh' \in SshState, ssh'.type = x.type, ssh'.data = x.data, ssh'.known = x.known,
             ssh'.connected = x.connected, ssh'.verified = x.verified, ssh'.try = x.try,
             ssh'.pw = x.pw, ssh'.given = x.given, ssh'.asked = x.asked,
             ssh'.pc \in {"method", m}
      PROVE  Nothing' /\ Verified' /\ NoFileLeft' /\ Password'
  <2>1. Nothing' /\ NoFileLeft'
    BY <1>1, <1>7 DEF Nothing, NoFileLeft, Unsure, SshMethods
  <2>2. Verified'
    BY <1>0, <1>1, <1>5, <1>7 DEF SshInv, Verified, Sure, Loop, SshMethods
  <2>3. Password'
    <3>1. ~({"interactive", "password"} \subseteq ssh.try)
      BY DEF SshInv, Password
    <3>2. ssh'.data <=> ssh'.type # None
      BY <1>5, <1>7
    <3>3. ~({"interactive", "password"} \subseteq ssh'.try \cup {ssh'.pc})
      BY <3>1, <1>1, <1>5, <1>7
    <3>4. ssh'.pw = 1 => "password" \notin ssh'.try \cup {ssh'.pc} /\ "interactive" \notin ssh'.try
      BY <1>1, <1>5, <1>7 DEF SshInv, Password
    <3>5. ssh'.asked = 1 => ssh'.try \cap {"interactive", "password"} = {}
      <4>1. CASE m \in {"interactive", "password"}
        BY <4>1, <3>1, <1>1, <1>5, <1>7
      <4>2. CASE m \notin {"interactive", "password"}
        BY <4>2, <1>3, <1>5, <1>7 DEF SshInv, Password
      <4> QED
        BY <4>1, <4>2
    <3> QED
      BY <3>2, <3>3, <3>4, <3>5 DEF Password
  <2> QED
    BY <2>1, <2>2, <2>3
<1>8. ASSUME NEW rc \in Codes \ Conclusive, NEW tried \in SUBSET SshMethods,
             tried \subseteq sshd.methods,
             ssh' = [Result(x, m, rc) EXCEPT !.tried = tried]
      PROVE  SshInv'
  <2> DEFINE y == Result(x, m, rc)
  <2>1. /\ y \in SshState
        /\ DOMAIN y.results = DOMAIN ssh.results \cup {m}
        /\ y.results[m] = rc
        /\ \A n \in DOMAIN ssh.results \ {m} : y.results[n] = ssh.results[n]
        /\ y.final <=> ssh.final
        /\ y.problem = ssh.problem
        /\ y.pc = "method" /\ y.type = x.type /\ y.data = x.data /\ y.known = x.known
        /\ y.connected = x.connected /\ y.verified = x.verified
        /\ y.try = x.try /\ y.pw = x.pw /\ y.given = x.given /\ y.asked = x.asked
    BY <1>1, <1>5, <1>8, ResultIs DEF Conclusive
  <2>2. ssh' = [y EXCEPT !.tried = tried]
    BY <1>8
  <2> HIDE DEF y
  <2>3. /\ ssh' \in SshState /\ ssh'.tried = tried
        /\ ssh'.results = y.results /\ ssh'.final = y.final /\ ssh'.problem = y.problem
        /\ ssh'.pc = "method" /\ ssh'.type = y.type /\ ssh'.data = y.data /\ ssh'.known = y.known
        /\ ssh'.connected = y.connected /\ ssh'.verified = y.verified
        /\ ssh'.try = y.try /\ ssh'.pw = y.pw /\ ssh'.given = y.given /\ ssh'.asked = y.asked
    BY <2>1, <2>2 DEF SshState
  <2>4. Nothing' /\ Verified' /\ NoFileLeft' /\ Password'
    BY <1>7, <2>1, <2>3
  <2>5. Tried'
    <3>1. ssh'.final <=> \E n \in DOMAIN ssh'.results : ssh'.results[n] \in Conclusive
      BY <1>6, <1>8, <2>1, <2>3 DEF SshInv, Tried
    <3>2. OneFinal'
      BY <1>6, <1>8, <2>1, <2>3 DEF SshInv, Tried, OneFinal
    <3>3. ssh'.try \cap DOMAIN ssh'.results = {}
      BY <1>5, <2>1, <2>3 DEF SshInv, Tried
    <3> QED
      BY <1>0, <1>8, <2>3, <3>1, <3>2, <3>3 DEF Tried, SshMethods
  <2>6. Told'
    <3>1. (\E n \in DOMAIN ssh'.results : ssh'.results[n] = "succeeded")
            <=> \E n \in DOMAIN ssh.results : ssh.results[n] = "succeeded"
      BY <1>6, <1>8, <2>1, <2>3 DEF Conclusive
    <3> QED
      BY <1>0, <2>1, <2>3, <3>1 DEF SshInv, Told, Loop
  <2> QED
    BY <1>0, <2>3, <2>4, <2>5, <2>6 DEF SshInv
<1>9. CASE m \notin sshd.methods
  <2>1. ssh' = Result(x, m, "no-server-support")
    BY <1>4, <1>9
  <2> DEFINE y == Result(x, m, "no-server-support")
  <2>2. y \in SshState /\ y.tried = ssh.tried
    BY <1>1, <1>5, ResultIs DEF Codes
  <2>3. y = [y EXCEPT !.tried = ssh.tried]
    BY <2>2 DEF SshState
  <2>4. ssh.tried \in SUBSET SshMethods /\ ssh.tried \subseteq sshd.methods
    BY <1>0 DEF SshInv, Tried, SshState
  <2> QED
    BY <1>8, <2>1, <2>3, <2>4 DEF Codes, Conclusive
<1>10. CASE m \in sshd.methods /\ (~HasCreds(x, m) \/ x.final)
  <2>1. PICK rc \in {"not-provided", "not-tried"} :
          ssh' = [Result(x, m, rc) EXCEPT !.tried = @ \cup {m}]
    BY <1>4, <1>10
  <2>2. Result(x, m, rc).tried = ssh.tried
    BY <1>1, <1>5, <2>1, ResultIs DEF Codes
  <2>3. ssh' = [Result(x, m, rc) EXCEPT !.tried = ssh.tried \cup {m}]
    BY <2>1, <2>2
  <2>4. ssh.tried \cup {m} \in SUBSET SshMethods /\ ssh.tried \cup {m} \subseteq sshd.methods
    BY <1>0, <1>1, <1>10 DEF SshInv, Tried, SshState
  <2>5. rc \in Codes \ Conclusive
    BY DEF Codes, Conclusive
  <2> QED
    BY <1>8, <2>3, <2>4, <2>5
<1>11. CASE m \in sshd.methods /\ HasCreds(x, m) /\ ~x.final
  <2>1. ssh' = [x EXCEPT !.tried = @ \cup {m}, !.pc = m]
    BY <1>4, <1>11
  <2>2. /\ ssh' \in SshState /\ ssh'.pc = m /\ ssh'.tried = ssh.tried \cup {m}
        /\ ssh'.results = x.results /\ ssh'.final = x.final /\ ssh'.problem = x.problem
        /\ ssh'.type = x.type /\ ssh'.data = x.data /\ ssh'.known = x.known
        /\ ssh'.connected = x.connected /\ ssh'.verified = x.verified
        /\ ssh'.try = x.try /\ ssh'.pw = x.pw /\ ssh'.given = x.given /\ ssh'.asked = x.asked
    BY <1>1, <1>5, <2>1 DEF SshState, Sure, Loop
  <2>3. Nothing' /\ Verified' /\ NoFileLeft' /\ Password'
    BY <1>7, <2>2
  <2>4. Tried'
    BY <1>0, <1>1, <1>5, <1>6, <1>11, <2>2 DEF SshInv, Tried, OneFinal
  <2>5. Told'
    BY <1>0, <1>1, <1>5, <2>2 DEF SshInv, Told, Loop, SshMethods
  <2> QED
    BY <1>0, <2>2, <2>3, <2>4, <2>5 DEF SshInv
<1> QED
  BY <1>9, <1>10, <1>11

(* Every step keeps the invariant.                                         *)
LEMMA SshNextOK == SshInv /\ [SshNext]_sshVars => SshInv'
<1> SUFFICES ASSUME SshInv, [SshNext]_sshVars PROVE SshInv'
  OBVIOUS
<1>1. CASE UNCHANGED sshVars
  BY <1>1 DEF sshVars, SshInv, Nothing, Verified, Tried, OneFinal, Password, Told, NoFileLeft,
              ServerAgreed
<1>2. CASE SshNext
  <2>1. CASE KeyAuth \/ PasswordAuth \/ GssAuth
    BY <2>1, AuthFuncOK DEF KeyAuth, PasswordAuth, GssAuth
  <2> QED
    BY <1>2, <2>1, StarOK, ParseHostOK, SetKnownHostsOK, SshConnectOK, VerifyKnownHostOK,
       AuthNoneOK, NextMethodOK, InteractiveOK, AuthEndsOK, OpenSessionOK, AtExitOK DEF SshNext
<1> QED
  BY <1>1, <1>2

(* cockpit-ssh gives no secret to a host that is not verified, answers one *)
(* question with the password, reports no problem only of a login that the *)
(* server agreed to, and leaves no file: on every path, for every set of   *)
(* methods and whatever is answered.                                       *)
THEOREM SshLoginSafety == SshSpec => []SshLoginSafe
<1>1. SshInv => SshLoginSafe
  <2> SUFFICES ASSUME SshInv PROVE SshLoginSafe
    OBVIOUS
  <2>1. ssh \in SshState
    BY DEF SshInv
  <2>2. SshTypeOK
    <3>1. DOMAIN ssh.results \subseteq SshMethods
      BY <2>1 DEF SshState
    <3> QED
      BY <2>1, <3>1 DEF SshTypeOK, SshInv, Tried, Password, SshState
  <2>3. VerifiedFirst /\ KnownFirst
    BY <2>1 DEF SshInv, Verified, Told, VerifiedFirst, KnownFirst, SshState
  <2>4. PasswordOnce /\ OneFinal /\ Agreed /\ NoFileLeft
    BY <2>1 DEF SshInv, Tried, Told, PasswordOnce, Agreed, SshState
  <2> QED
    BY <2>2, <2>3, <2>4 DEF SshLoginSafe
<1> QED
  BY <1>1, SshInitOK, SshNextOK, PTL DEF SshSpec

(* Only the choice of the next method may ask for the password, which it   *)
(* does when there is none; and nothing is given once there is a final     *)
(* result.                                                                 *)
LEMMA StepsOK == ASSUME SshInv, SshNext PROVE AskedOnce /\ FinalStops
<1>0. ssh \in SshState
  BY DEF SshInv
<1>1. ASSUME ssh'.asked = ssh.asked, ~ssh.final \/ (ssh'.given = ssh.given /\ ssh'.pw = ssh.pw)
      PROVE  AskedOnce /\ FinalStops
  BY <1>0, <1>1 DEF AskedOnce, FinalStops, SshState
<1>2. ASSUME NEW problem, ssh' = Out(ssh, problem)
      PROVE  AskedOnce /\ FinalStops
  BY <1>0, <1>1, <1>2 DEF Out, SshState
<1>3. CASE Star
  <2>1. PICK type \in SshAnswers : ssh' = [Challenge(ssh, type) EXCEPT !.pc = "host"]
    BY <1>3 DEF Star
  <2>2. ssh'.asked = ssh.asked /\ ssh'.given = ssh.given /\ ssh'.pw = ssh.pw
    BY <1>0, <2>1 DEF Challenge, SshState
  <2> QED
    BY <1>1, <2>2
<1>4. CASE ParseHost
  <2>1. CASE ssh' = Out(ssh, "no-host") \/ ssh' = Out(ssh, "authentication-failed")
    BY <2>1, <1>2
  <2>2. CASE ssh' = [ssh EXCEPT !.user = TRUE, !.pc = IF Whitelist THEN "connect" ELSE "files"]
    <3> DEFINE pc == IF Whitelist THEN "connect" ELSE "files"
    <3>1. ssh' = [ssh EXCEPT !.user = TRUE, !.pc = pc]
      BY <2>2
    <3> HIDE DEF pc
    <3>2. ssh'.asked = ssh.asked /\ ssh'.given = ssh.given /\ ssh'.pw = ssh.pw
      BY <1>0, <3>1 DEF SshState
    <3> QED
      BY <1>1, <3>2
  <2> QED
    BY <1>4, <2>1, <2>2 DEF ParseHost
<1>5. CASE SetKnownHosts
  <2>1. CASE HostKnown
    <3>1. ssh' = [ssh EXCEPT !.known = TRUE, !.pc = "connect"]
      BY <1>5, <2>1 DEF SetKnownHosts
    <3>2. ssh'.asked = ssh.asked /\ ssh'.given = ssh.given /\ ssh'.pw = ssh.pw
      BY <1>0, <3>1 DEF SshState
    <3> QED
      BY <1>1, <3>2
  <2>2. CASE ~HostKnown
    <3>1. PICK answer \in KnownHostsAnswers, written \in BOOLEAN :
            LET x == [ssh EXCEPT !.tmp = answer # None, !.known = answer = "key" /\ written]
            IN  ssh' = IF answer # None /\ ~written THEN Out(x, "internal-error")
                       ELSE IF ~Allow /\ ~x.known /\ ~Localhost THEN Out(x, "unknown-host")
                       ELSE [x EXCEPT !.pc = "connect"]
      BY <1>5, <2>2 DEF SetKnownHosts
    <3> DEFINE tmp == answer # None
               known == answer = "key" /\ written
               x == [ssh EXCEPT !.tmp = tmp, !.known = known]
    <3>2. \/ ssh' = Out(x, "internal-error")
          \/ ssh' = Out(x, "unknown-host")
          \/ ssh' = [x EXCEPT !.pc = "connect"]
      BY <3>1
    <3>3. tmp \in BOOLEAN /\ known \in BOOLEAN
      OBVIOUS
    <3> HIDE DEF tmp, known
    <3>4. x \in SshState /\ x.asked = ssh.asked /\ x.given = ssh.given /\ x.pw = ssh.pw
      BY <1>0, <3>3 DEF SshState
    <3> HIDE DEF x
    <3>5. ssh'.asked = ssh.asked /\ ssh'.given = ssh.given /\ ssh'.pw = ssh.pw
      BY <3>2, <3>4 DEF SshState, Out
    <3> QED
      BY <1>1, <3>5
  <2> QED
    BY <2>1, <2>2
<1>6. CASE SshConnect
  <2>1. CASE ssh' = Out(ssh, "no-host")
    BY <2>1, <1>2
  <2>2. CASE ssh' = [ssh EXCEPT !.connected = TRUE, !.verified = Whitelist,
                                !.pc = IF Whitelist THEN "none" ELSE "verify"]
    <3> DEFINE pc == IF Whitelist THEN "none" ELSE "verify"
    <3>1. ssh' = [ssh EXCEPT !.connected = TRUE, !.verified = Whitelist, !.pc = pc]
      BY <2>2
    <3> HIDE DEF pc
    <3>2. ssh'.asked = ssh.asked /\ ssh'.given = ssh.given /\ ssh'.pw = ssh.pw
      BY <1>0, <3>1 DEF SshState
    <3> QED
      BY <1>1, <3>2
  <2> QED
    BY <1>6, <2>1, <2>2 DEF SshConnect
<1>7. CASE VerifyKnownHost
  <2>1. CASE \E p \in Problems : ssh' = Out(ssh, p)
    BY <2>1, <1>2
  <2>2. CASE ssh' = [ssh EXCEPT !.verified = TRUE, !.pc = "none"]
    BY <1>0, <1>1, <2>2 DEF SshState
  <2> QED
    BY <1>7, <2>1, <2>2 DEF VerifyKnownHost, Problems
<1>8. CASE AuthNone
  <2> DEFINE try == {"public-key", "gssapi-mic"} \cup
                      (IF "interactive" \in sshd.methods THEN {"interactive"} ELSE {"password"})
  <2>1. PICK rc \in {"error", "success", "denied"} :
          ssh' = CASE rc = "error" -> Out(ssh, "internal-error")
                   [] rc = "success" -> [ssh EXCEPT !.pc = "session"]
                   [] OTHER -> [ssh EXCEPT !.pc = "method", !.try = try]
    BY <1>8 DEF AuthNone
  <2> HIDE DEF try
  <2>2. CASE ssh' = Out(ssh, "internal-error")
    BY <2>2, <1>2
  <2>3. CASE ssh' = [ssh EXCEPT !.pc = "session"] \/ ssh' = [ssh EXCEPT !.pc = "method", !.try = try]
    BY <1>0, <1>1, <2>3 DEF SshState
  <2> QED
    BY <2>1, <2>2, <2>3
<1>9. CASE NextMethod
  <2> DEFINE m == Method(ssh.try)
  <2>1. m \in SshMethods
    BY <1>0, <1>9, MethodChosen DEF SshState, NextMethod
  <2>2. PICK type \in IF NeedsPassword(ssh, m) THEN {"basic", "password", "negotiate", None}
                      ELSE {ssh.type} :
          LET x == [(IF NeedsPassword(ssh, m) THEN [Challenge(ssh, type) EXCEPT !.asked = @ + 1]
                     ELSE ssh) EXCEPT !.try = @ \ {m}]
          IN  ssh' = IF m \notin sshd.methods THEN Result(x, m, "no-server-support")
                     ELSE IF ~HasCreds(x, m)
                     THEN [Result(x, m, "not-provided") EXCEPT !.tried = @ \cup {m}]
                     ELSE IF x.final
                     THEN [Result(x, m, "not-tried") EXCEPT !.tried = @ \cup {m}]
                     ELSE [x EXCEPT !.tried = @ \cup {m}, !.pc = m]
    BY <1>9 DEF NextMethod
  <2> DEFINE z == IF NeedsPassword(ssh, m) THEN [Challenge(ssh, type) EXCEPT !.asked = @ + 1]
                  ELSE ssh
             x == [z EXCEPT !.try = @ \ {m}]
  <2>3. \/ \E rc \in {"no-server-support", "not-provided", "not-tried"} :
             ssh' = Result(x, m, rc) \/ ssh' = [Result(x, m, rc) EXCEPT !.tried = @ \cup {m}]
        \/ ssh' = [x EXCEPT !.tried = @ \cup {m}, !.pc = m]
    BY <2>2
  <2>4. \/ z = ssh
        \/ /\ ssh.type = None /\ ~ssh.data /\ m \in ssh.try \cap {"interactive", "password"}
           /\ type \in SshAnswers
           /\ z = [Challenge(ssh, type) EXCEPT !.asked = @ + 1]
    BY <1>0, <1>9, <2>2, MethodChosen DEF NeedsPassword, NextMethod, SshState, SshAnswers
  <2> HIDE DEF z, m
  <2>5. /\ z \in SshState /\ z.given = ssh.given /\ z.pw = ssh.pw
        /\ z.asked = ssh.asked \/ (ssh.asked = 0 /\ ~ssh.data)
    <3>1. CASE z = ssh
      BY <1>0, <3>1
    <3>2. CASE z # ssh
      <4>1. ssh.asked = 0 /\ ~ssh.data /\ type \in SshAnswers
        BY <1>0, <2>4, <3>2 DEF SshInv, Password, SshState
      <4> DEFINE c == Challenge(ssh, type)
                 d == type # None
      <4>2. c = [ssh EXCEPT !.type = type, !.data = d] /\ d \in BOOLEAN
        BY DEF Challenge
      <4>3. z = [c EXCEPT !.asked = c.asked + 1]
        BY <2>4, <3>2
      <4> HIDE DEF c, d
      <4>4. c \in SshState /\ c.asked = 0 /\ c.given = ssh.given /\ c.pw = ssh.pw
        BY <1>0, <4>1, <4>2 DEF SshState
      <4>5. z = [c EXCEPT !.asked = 1]
        BY <4>3, <4>4
      <4> QED
        BY <4>1, <4>4, <4>5 DEF SshState
    <3> QED
      BY <3>1, <3>2
  <2>6. x \in SshState /\ x.given = ssh.given /\ x.pw = ssh.pw /\ x.asked = z.asked
    BY <2>5 DEF SshState
  <2> HIDE DEF x
  <2>7. ssh'.given = ssh.given /\ ssh'.pw = ssh.pw /\ ssh'.asked = z.asked
    <3>1. CASE ssh' = [x EXCEPT !.tried = @ \cup {m}, !.pc = m]
      BY <2>6, <3>1 DEF SshState
    <3>2. CASE \E rc \in {"no-server-support", "not-provided", "not-tried"} :
                 ssh' = Result(x, m, rc) \/ ssh' = [Result(x, m, rc) EXCEPT !.tried = @ \cup {m}]
      <4>1. PICK rc \in {"no-server-support", "not-provided", "not-tried"} :
                 ssh' = Result(x, m, rc) \/ ssh' = [Result(x, m, rc) EXCEPT !.tried = @ \cup {m}]
        BY <3>2
      <4> DEFINE y == Result(x, m, rc)
      <4>2. y \in SshState /\ y.given = ssh.given /\ y.pw = ssh.pw /\ y.asked = z.asked
        BY <2>1, <2>6, ResultIs DEF Codes
      <4>3. ssh' = y \/ ssh' = [y EXCEPT !.tried = @ \cup {m}]
        BY <4>1
      <4> HIDE DEF y
      <4> QED
        BY <4>2, <4>3 DEF SshState
    <3> QED
      BY <2>3, <3>1, <3>2
  <2> QED
    BY <1>0, <2>5, <2>7 DEF AskedOnce, FinalStops, SshState
<1>10. CASE KeyAuth \/ PasswordAuth \/ GssAuth \/ Interactive \/ InteractiveEnds
  <2>1. ssh.pc \in SshMethods /\ ~ssh.final
    BY <1>10 DEF KeyAuth, PasswordAuth, GssAuth, AuthFunc, Interactive, InteractiveEnds, SshInv, Tried,
                 SshMethods
  <2>2. ASSUME NEW rc \in Codes, NEW y, y = Result(ssh, ssh.pc, rc)
        PROVE  y \in SshState /\ y.asked = ssh.asked
    BY <1>0, <2>1, <2>2, ResultIs
  <2>3. CASE \E m \in SshMethods : AuthFunc(m)
    <3>1. PICK m \in SshMethods, rc \in {"succeeded", "denied", "partial", "again", "error"} :
            /\ ssh.pc = m
            /\ ssh' = [Result(ssh, m, rc) EXCEPT !.pc = "method", !.given = @ \cup {m},
                                                 !.pw = IF m = "password" THEN @ + 1 ELSE @]
      BY <2>3 DEF AuthFunc
    <3> DEFINE y == Result(ssh, m, rc)
               pw == IF m = "password" THEN y.pw + 1 ELSE y.pw
    <3>2. ssh' = [y EXCEPT !.pc = "method", !.given = @ \cup {m}, !.pw = pw]
      BY <3>1
    <3>3. y \in SshState /\ y.asked = ssh.asked
      BY <2>2, <3>1 DEF Codes, Conclusive
    <3> HIDE DEF y, pw
    <3>4. ssh'.asked = ssh.asked
      BY <3>2, <3>3 DEF SshState
    <3> QED
      BY <1>1, <2>1, <3>4
  <2>4. CASE Interactive \/ InteractiveEnds
    <3>1. CASE \E rc \in Codes : ssh' = [Result(ssh, ssh.pc, rc) EXCEPT !.pc = "method"]
      <4>1. PICK rc \in Codes : ssh' = [Result(ssh, ssh.pc, rc) EXCEPT !.pc = "method"]
        BY <3>1
      <4> DEFINE y == Result(ssh, ssh.pc, rc)
      <4>2. ssh' = [y EXCEPT !.pc = "method"] /\ y \in SshState /\ y.asked = ssh.asked
        BY <4>1, <2>2
      <4> HIDE DEF y
      <4>3. ssh'.asked = ssh.asked
        BY <4>2 DEF SshState
      <4> QED
        BY <1>1, <2>1, <4>3
    <3>2. CASE ssh' = ssh \/ ssh' = [ssh EXCEPT !.pw = 1, !.given = @ \cup {"password"}]
      BY <1>0, <1>1, <2>1, <3>2 DEF SshState
    <3> QED
      BY <2>4, <3>1, <3>2 DEF Interactive, InteractiveEnds, Codes, Conclusive
  <2> QED
    BY <1>10, <2>3, <2>4 DEF KeyAuth, PasswordAuth, GssAuth, SshMethods
<1>11. CASE AuthEnds
  <2>1. CASE ssh' = [ssh EXCEPT !.pc = "session"]
    BY <1>0, <1>1, <2>1 DEF SshState
  <2>2. CASE ssh' = Out(ssh, IF ssh.final THEN ssh.problem ELSE "authentication-failed")
    BY <1>2, <2>2
  <2> QED
    BY <1>11, <2>1, <2>2 DEF AuthEnds
<1>12. CASE OpenSession
  BY <1>2, <1>12 DEF OpenSession
<1>13. CASE AtExit
  BY <1>0, <1>1, <1>13 DEF AtExit, SshState
<1> QED
  BY <1>3, <1>4, <1>5, <1>6, <1>7, <1>8, <1>9, <1>10, <1>11, <1>12, <1>13 DEF SshNext

(* The password is asked for once, and after a final result the server is  *)
(* given nothing more.                                                     *)
THEOREM SshLoginSteps == SshSpec => [][AskedOnce /\ FinalStops]_sshVars
<1>1. SshInv /\ [SshNext]_sshVars => [AskedOnce /\ FinalStops]_sshVars
  BY StepsOK
<1> QED
  BY <1>1, SshInitOK, SshNextOK, PTL DEF SshSpec

=============================================================================
