------------------------------ MODULE WebServer -----------------------------
(***************************************************************************)
(* One connection of a browser to the web server of cockpit-ws:            *)
(* cockpitwebserver.c (src/src/common), and which of the handlers in       *)
(* cockpithandlers.c (src/src/ws) a request reaches.  The connection       *)
(* belongs in turn to a request that is being read, to the response to it, *)
(* or to a web socket.                                                     *)
(***************************************************************************)
EXTENDS Integers, Sequences, SequencesExt, FiniteSets

CONSTANTS
    Requests,      \* the requests that browsers send, see Request
    MaxRequests,   \* bound on the requests of a connection
    Maximum,       \* cockpit_webserver_request_maximum, in units of a request
    Certificate,   \* whether a certificate is configured
    RedirectTls,   \* COCKPIT_WEB_SERVER_REDIRECT_TLS
    Loopback,      \* whether the connection comes in on the loopback address
    Pipelines,     \* whether the browser sends a request before the last answer
    Faults         \* whether the connection may fail or time out

(* A request: its request line and its headers are valid or not; method;   *)
(* host, whether there is a Host header; length, the Content-Length; path, *)
(* what is asked for; auth, whether its cookie is that of a session; open, *)
(* whether the query of an external channel makes sense; upgrade, whether  *)
(* it asks for a web socket.                                               *)
Request ==
    [line : BOOLEAN, headers : BOOLEAN, method : {"GET", "HEAD", "POST"}, host : BOOLEAN,
     length : Nat, path : {"outside", "exempt", "socket", "channel", "login", "static",
                           "resource", "html", "shell", "invalid"},
     auth : BOOLEAN, open : BOOLEAN, upgrade : BOOLEAN]

(* What an instance has to satisfy.                                       *)
WebServerAssumption ==
    /\ Requests \subseteq Request /\ MaxRequests \in Nat /\ Maximum \in Nat \ {0, 1}
    /\ {Certificate, RedirectTls, Loopback, Pipelines, Faults} \subseteq BOOLEAN

VARIABLES
    c,   \* the connection in the server, with its CockpitWebRequest
    b    \* the browser

vars == <<c, b>>

(* c: owner; buffer (units, each the number of its request and its place); *)
(* eofok (eof_okay), redirect (check_tls_redirect), tls; of: the request   *)
(* that the owner answers; served: what the handlers did, in order; lost:  *)
(* the requests of which something was read and dropped; torn: the one of  *)
(* which a later part was taken for the begin of a request                 *)
(* b: sent, the requests that were begun; units, how many units of the     *)
(* last one are sent; wire, what was not read yet; eof                     *)
Init ==
    /\ c = [owner |-> "peek", buffer |-> <<>>, eofok |-> TRUE, redirect |-> FALSE, tls |-> FALSE,
            of |-> 0, served |-> <<>>, lost |-> {}, torn |-> 0]
    /\ \E tls \in BOOLEAN :
         b = [sent |-> <<>>, units |-> 0, wire |-> <<>>, eof |-> FALSE, tls |-> tls]

(* The units of a request: the request line, the headers, the body.        *)
Size(r) == 2 + r.length

-----------------------------------------------------------------------------
(* handle_login() and on_login_complete() without the right password       *)
HandleLogin(r) == IF r.auth THEN 200 ELSE 401

(* cockpit_handler_default(), handle_resource(), handle_shell(): the       *)
(* status of the response                                                  *)
HandlerDefault(r) ==
    CASE r.path = "login" -> HandleLogin(r)
      [] r.path = "static" -> 200
      [] r.path = "resource" -> IF r.auth THEN 200 ELSE 401
      [] r.path = "html" -> 200
      [] r.path \in {"socket", "channel", "invalid"} -> 404
      [] OTHER -> 200

(* cockpit_handler_socket(): a web socket, or not for it                   *)
HandlerSocket(r) == r.path = "socket" /\ r.method = "GET"

(* cockpit_handler_external(): a channel, for those who have a session     *)
HandlerExternal(r) == r.path = "channel" /\ r.auth

(* The handlers of "handle-stream", and                                    *)
(* cockpit_web_server_default_handle_stream() when none of them claims it  *)
HandleStream(r) ==
    IF HandlerSocket(r) THEN 0
    ELSE IF HandlerExternal(r) THEN IF ~r.open THEN 400 ELSE IF r.upgrade THEN 0 ELSE 200
    ELSE HandlerDefault(r)

(* cockpit_web_request_process(): 0 makes the connection one of a web      *)
(* socket, everything else is the status of a response.                    *)
Process(r, delayed) ==
    LET d == IF r.path = "outside" THEN 404
             ELSE IF delayed # 0 THEN delayed
             ELSE IF c.redirect /\ r.path # "exempt" /\ ~Loopback THEN 301 ELSE 0
    IN  IF d # 0 THEN d ELSE HandleStream(r)

(* cockpit_web_request_finish() and cockpit_web_request_free()             *)
Finish(x) == [x EXCEPT !.owner = "closed", !.buffer = <<>>, !.redirect = FALSE]

(* cockpit_web_request_start() on a connection that is used again          *)
Start(x) == [x EXCEPT !.owner = "input", !.buffer = <<>>, !.eofok = TRUE, !.redirect = FALSE]

(* The status that cockpit_web_request_parse_and_process() has for a       *)
(* request that it can read: the last one that applies.                    *)
Delayed(r) ==
    IF ~r.host THEN 400
    ELSE IF r.method \notin {"GET", "HEAD"} THEN 405
    ELSE IF r.length # 0 THEN 413 ELSE 0

(* The request r at the front of the buffer is answered.  What else was    *)
(* read goes to the web socket, or is freed with the CockpitWebRequest.    *)
Reply(x, r) ==
    LET i == x.buffer[1][1]
        rest == SubSeq(x.buffer, Size(r) + 1, Len(x.buffer))
        status == Process(r, Delayed(r))
    IN  IF status = 0
        THEN [x EXCEPT !.owner = "stream", !.of = i, !.buffer = rest, !.redirect = FALSE,
                       !.served = Append(@, <<i, status>>)]
        ELSE [x EXCEPT !.owner = "response", !.of = i, !.buffer = <<>>, !.redirect = FALSE,
                       !.served = Append(@, <<i, status>>),
                       !.lost = @ \cup {rest[k][1] : k \in 1..Len(rest)}]

(* A mutant of Parse: the body is not waited for.                          *)
ParseEarly(x) ==
    LET r == b.sent[x.buffer[1][1]]
    IN  IF Len(x.buffer) > 2 * Maximum THEN Finish(x)
        ELSE IF x.buffer[1][2] # 1 THEN Finish([x EXCEPT !.torn = x.buffer[1][1]])
        ELSE IF ~r.line THEN Finish(x)
        ELSE IF Len(x.buffer) < 2 THEN x
        ELSE IF ~r.headers THEN Finish(x)
        ELSE Reply(x, r)

(* cockpit_web_request_parse_and_process().  What comes after the first    *)
(* unit of a request is no request line.                                   *)
Parse(x) ==
    LET r == b.sent[x.buffer[1][1]]
    IN  IF Len(x.buffer) > 2 * Maximum THEN Finish(x)
        ELSE IF x.buffer[1][2] # 1 THEN Finish([x EXCEPT !.torn = x.buffer[1][1]])
        ELSE IF ~r.line THEN Finish(x)
        ELSE IF Len(x.buffer) < 2 THEN x
        ELSE IF ~r.headers THEN Finish(x)
        ELSE IF Len(x.buffer) < Size(r) THEN x
        ELSE Reply(x, r)

-----------------------------------------------------------------------------
(* cockpit_web_request_on_socket_input(): the first byte tells TLS; it is  *)
(* not set when the browser closed without one.                            *)
OnSocketInput ==
    /\ c.owner = "peek" /\ (b.wire # <<>> \/ b.eof)
    /\ \E tls \in IF b.wire # <<>> THEN {b.tls} ELSE BOOLEAN :
         c' = IF tls /\ ~Certificate THEN Finish(c)
              ELSE [c EXCEPT !.owner = "input", !.tls = tls, !.redirect = ~tls /\ RedirectTls]
    /\ UNCHANGED b

(* cockpit_web_request_on_input(): a read of at most this size             *)
OnInput ==
    /\ c.owner = "input" /\ b.wire # <<>>
    /\ \E n \in 1..Len(b.wire) :
         /\ n <= Maximum + 1
         /\ c' = Parse([c EXCEPT !.buffer = @ \o SubSeq(b.wire, 1, n), !.eofok = FALSE])
         /\ b' = [b EXCEPT !.wire = SubSeq(@, n + 1, Len(@))]

(* cockpit_web_request_on_input() that fails, or finds the end             *)
OnInputEnds ==
    /\ c.owner = "input" /\ b.wire = <<>> /\ (b.eof \/ Faults)
    /\ c' = Finish(c)
    /\ UNCHANGED b

(* cockpit_web_request_on_timeout()                                        *)
OnTimeout ==
    /\ Faults /\ c.owner \in {"peek", "input"}
    /\ c' = Finish(c)
    /\ UNCHANGED b

(* on_web_response_done() with a connection that may be used again or not  *)
OnResponseDone ==
    /\ c.owner = "response"
    /\ \/ c' = Start([c EXCEPT !.of = 0])
       \/ c' = Finish([c EXCEPT !.of = 0])
    /\ UNCHANGED b

(* The web socket is over.                                                 *)
StreamEnds ==
    /\ c.owner = "stream"
    /\ c' = Finish([c EXCEPT !.of = 0])
    /\ UNCHANGED b

-----------------------------------------------------------------------------
Answered == IF c.served = <<>> THEN 0 ELSE Last(c.served)[1]  \* the last request that was
Writes == c.owner # "closed" /\ ~b.eof

(* The browser begins a request, goes on with it, or goes away.            *)
BrowserBegins ==
    /\ Writes /\ Len(b.sent) < MaxRequests
    /\ b.sent # <<>> => b.units = Size(Last(b.sent))
    /\ ~Pipelines => Answered = Len(b.sent) /\ c.owner \in {"peek", "input"}
    /\ \E r \in Requests :
         b' = [b EXCEPT !.sent = Append(@, r), !.units = 1,
                        !.wire = Append(@, <<Len(b.sent) + 1, 1>>)]
    /\ UNCHANGED c

BrowserGoesOn ==
    /\ Writes /\ b.sent # <<>> /\ b.units < Size(Last(b.sent))
    /\ b' = [b EXCEPT !.units = @ + 1, !.wire = Append(@, <<Len(b.sent), b.units + 1>>)]
    /\ UNCHANGED c

BrowserLeaves ==
    /\ Writes /\ Faults
    /\ b' = [b EXCEPT !.eof = TRUE]
    /\ UNCHANGED c

Next ==
    \/ OnSocketInput \/ OnInput \/ OnInputEnds \/ OnTimeout \/ OnResponseDone \/ StreamEnds
    \/ BrowserBegins \/ BrowserGoesOn \/ BrowserLeaves

Spec == Init /\ [][Next]_vars

-----------------------------------------------------------------------------
TypeOK ==
    /\ c.owner \in {"peek", "input", "response", "stream", "closed"}
    /\ Len(c.buffer) <= 2 * Maximum /\ c.of \in 0..MaxRequests

(* Requests are answered in the order they were sent and each at most      *)
(* once, however they are cut into reads and sent ahead of answers; none   *)
(* is passed over, but for one that was read together with the request     *)
(* before it.                                                              *)
AnsweredInOrder ==
    /\ \A i \in 2..Len(c.served) : c.served[i - 1][1] < c.served[i][1]
    /\ \A k \in 1..Answered : k \in c.lost \/ \E i \in 1..Len(c.served) : c.served[i][1] = k

(* What is left of a request that was answered is never taken for another  *)
(* request on the connection.                                              *)
BodyNotTakenForRequest == \A i \in 1..Len(c.served) : c.served[i][1] # c.torn

(* Content that a request brings along never reaches a handler.            *)
NoContent == \A i \in 1..Len(c.served) : b.sent[c.served[i][1]].length > 0 => c.served[i][2] >= 400

(* A complete request is answered, or its connection is closed, without    *)
(* the help of a timer: Complete ~> RequestOver.                           *)
Complete == b.sent # <<>> /\ b.units = Size(Last(b.sent))
RequestOver == Answered = Len(b.sent) \/ c.owner = "closed"

(* A request that never becomes complete does not keep its connection:     *)
(* Reading ~> ~Reading.                                                    *)
Reading == c.owner = "input"

=============================================================================
