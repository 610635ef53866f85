----------------------------- MODULE HttpStream -----------------------------
(***************************************************************************)
(* HTTP requests of the C bridge (bridge/cockpithttpstream.c).  A channel  *)
(* is one request and its response.  Channels with the same "connection"   *)
(* option share a client, which keeps the stream of a finished request for *)
(* the next one.                                                           *)
(*                                                                         *)
(* A stream (module Stream) appears here as what is on its way and what is *)
(* in its buffer.  A response is a head, which says how the body ends, and *)
(* pieces of the body; each is tagged with the channel it is meant for.    *)
(***************************************************************************)
EXTENDS Naturals, Sequences, FiniteSets, SequencesExt

CONSTANTS
    Channels,    \* the channels of one client
    Kinds,       \* the responses of the server: see Response
    Body,        \* the number of pieces of a body
    Aborts,      \* may a channel be closed, without a problem, during its response
    Faults,      \* may streams fail
    Hangups      \* may the server close a connection after a response

(* What an instance has to satisfy.                                       *)
HttpAssumption == Body \in Nat

VARIABLE h  \* the channels, their streams and the client, a record with the fields
    \* ch       the channels
    \* streams  the streams, in the order they were made
    \* saved    the stream that the client keeps, or 0

vars == h

NewChannel ==
    [state |-> "new", ready |-> FALSE, stream |-> 0, chunked |-> FALSE, length |-> 0, sized |-> FALSE,
     keep |-> FALSE, got |-> <<>>, closed |-> FALSE, problem |-> FALSE, late |-> 0, answered |-> FALSE]

NewStream(c) ==
    [owner |-> {c}, open |-> FALSE, dead |-> FALSE, requests |-> <<>>, wire |-> <<>>, buffer |-> <<>>,
     eof |-> FALSE, ended |-> FALSE]

Piece(c) == [k |-> "data", of |-> c]
Pieces(c) == [i \in 1..Body |-> Piece(c)]
Head1(c, kind, keep) == [k |-> "head", of |-> c, kind |-> kind, keep |-> keep]

\* What a server sends: a body with a length, in chunks, or up to the end of the connection;
\* the length of a body that is not sent, for the method HEAD; or no HTTP.
Response(c, kind, keep) ==
    CASE kind = "length" -> <<Head1(c, kind, keep)>> \o Pieces(c)
      [] kind = "chunked" -> <<Head1(c, kind, keep)>> \o Pieces(c) \o <<[k |-> "end", of |-> c]>>
      [] kind = "open" -> <<Head1(c, kind, keep)>> \o Pieces(c)
      [] kind = "head" -> <<Head1(c, "length", keep)>>
      [] kind = "bad" -> <<[k |-> "bad", of |-> c]>> \o Pieces(c)

(***************************************************************************)
(* The client.                                                             *)
(***************************************************************************)
\* cockpit_http_client_reset: the stream that was kept is let go, and with it its connection.
ClientReset(s) ==
    IF s.saved = 0 THEN s ELSE [s EXCEPT !.streams[s.saved].dead = TRUE, !.saved = 0]

\* cockpit_http_client_checkin, by a channel that gives its stream away.
ClientCheckin(s, c) ==
    LET r == ClientReset(s)
    IN  [r EXCEPT !.saved = s.ch[c].stream, !.streams[s.ch[c].stream].owner = {}, !.ch[c].stream = 0]

\* cockpit_http_client_checkout: the channel is ready at once.
ClientCheckout(s, c) ==
    [s EXCEPT !.ch[c].state = "buffer", !.ch[c].ready = TRUE, !.ch[c].stream = s.saved,
              !.streams[s.saved].owner = {c}, !.saved = 0]

(***************************************************************************)
(* Closing.                                                                *)
(***************************************************************************)
\* The "close" message is sent once.
RealClose(s, c, problem) ==
    IF s.ch[c].closed THEN s ELSE [s EXCEPT !.ch[c].closed = TRUE, !.ch[c].problem = problem]

\* A mutant of HttpClose: the stream is kept also after a problem.
CloseKeeps(s, c, problem) ==
    IF s.ch[c].state = "data"
       THEN LET r == [s EXCEPT !.ch[c].state = "finished"]
            IN  RealClose(IF s.ch[c].keep THEN ClientCheckin(r, c) ELSE r, c, problem)
       ELSE IF s.ch[c].state = "finished" THEN s
       ELSE RealClose([s EXCEPT !.ch[c].state = "finished"], c, TRUE)

\* cockpit_http_stream_close: after a response "done" is sent, and a stream that can be used
\* again is kept; an orderly close at any other time is a problem.
HttpClose(s, c, problem) ==
    CASE problem -> RealClose([s EXCEPT !.ch[c].state = "finished"], c, TRUE)
      [] ~problem /\ s.ch[c].state = "data" ->
            LET r == [s EXCEPT !.ch[c].state = "finished"]
            IN  RealClose(IF s.ch[c].keep THEN ClientCheckin(r, c) ELSE r, c, FALSE)
      [] ~problem /\ s.ch[c].state \notin {"data", "finished"} ->
            RealClose([s EXCEPT !.ch[c].state = "finished"], c, TRUE)
      [] OTHER -> s

Fail(s, c) == HttpClose(s, c, TRUE)

\* cockpit_http_stream_dispose: a closed channel is let go when its handler returns.
Settle(s, c) ==
    IF s.ch[c].closed /\ s.ch[c].stream # 0
       THEN [s EXCEPT !.streams[s.ch[c].stream].dead = TRUE, !.streams[s.ch[c].stream].owner = {},
                      !.ch[c].stream = 0]
       ELSE s

(***************************************************************************)
(* The response.                                                           *)
(***************************************************************************)
Buffer(s, c) == s.streams[s.ch[c].stream].buffer
Consume(s, c) == [s EXCEPT !.streams[s.ch[c].stream].buffer = Tail(@)]

\* relay_data: a piece goes to the client.
RelayData(s, c) ==
    LET r == Consume(s, c)
    IN  [r EXCEPT !.ch[c].got = Append(@, Head(Buffer(s, c))),
                  !.ch[c].late = IF s.ch[c].closed THEN @ + 1 ELSE @]

\* parse_transfer_encoding, parse_content_length and parse_keep_alive: how the body ends, and
\* whether the stream can be used again.
ParseHead(s, c, head) ==
    [s EXCEPT !.ch[c].chunked = (head.kind = "chunked"), !.ch[c].sized = (head.kind = "length"),
              !.ch[c].length = IF head.kind = "length" THEN Body ELSE 0, !.ch[c].keep = head.keep]

\* relay_headers: whether the head is there, and what it says.  The channel goes on to the data
\* also when it has just failed.
RelayHeaders(s, c) ==
    LET first == Head(Buffer(s, c))
        r == IF first.k = "head"
                THEN [ParseHead(Consume(s, c), c, first) EXCEPT !.ch[c].got = <<first>>]
                ELSE Fail(s, c)
    IN  [r EXCEPT !.ch[c].state = "data"]

\* relay_chunked
RelayChunked(s, c) ==
    LET first == Head(Buffer(s, c))
    IN  CASE Buffer(s, c) = <<>> -> s
          [] Buffer(s, c) # <<>> /\ first.k = "data" -> RelayData(s, c)
          [] Buffer(s, c) # <<>> /\ first.k = "end" -> HttpClose(Consume(s, c), c, FALSE)
          [] OTHER -> Fail(s, c)

\* relay_length
RelayLength(s, c) ==
    CASE s.ch[c].length = 0 -> HttpClose(s, c, FALSE)
      [] s.ch[c].length > 0 /\ Buffer(s, c) = <<>> -> s
      [] OTHER -> [RelayData(s, c) EXCEPT !.ch[c].length = @ - 1]

\* relay_all
RelayAll(s, c) == IF Buffer(s, c) = <<>> THEN s ELSE RelayData(s, c)

\* One turn of the loop of on_stream_read.
Relay(s, c) ==
    CASE s.ch[c].state # "data" \/ s.ch[c].stream = 0 -> s
      [] s.ch[c].state = "data" /\ s.ch[c].stream # 0 /\ s.ch[c].chunked -> RelayChunked(s, c)
      [] s.ch[c].state = "data" /\ s.ch[c].stream # 0 /\ ~s.ch[c].chunked /\ s.ch[c].sized -> RelayLength(s, c)
      [] OTHER -> RelayAll(s, c)

\* on_stream_read
StreamRead(s, c) ==
    LET size == Len(Buffer(s, c))
        r == CASE s.ch[c].state = "buffer" /\ size > 0 -> Fail(s, c)
               [] s.ch[c].state = "request" /\ size > 0 -> RelayHeaders(s, c)
               [] s.ch[c].state = "request" /\ size = 0 /\ s.streams[s.ch[c].stream].ended -> Fail(s, c)
               [] OTHER -> s
    IN  Settle(FoldLeft(LAMBDA t, i : Relay(t, c), r, [i \in 1..size + 1 |-> i]), c)

\* on_stream_close, for a stream that failed, and on_client_close.
StreamClose(s, id) ==
    LET r == [s EXCEPT !.streams[id].dead = TRUE, !.saved = IF @ = id THEN 0 ELSE @]
    IN  FoldLeft(LAMBDA t, c : Settle(Fail([t EXCEPT !.ch[c].keep = FALSE], c), c), r,
                 SetToSeq(s.streams[id].owner))

(***************************************************************************)
(* Actions.                                                                *)
(***************************************************************************)
\* cockpit_http_stream_prepare: take the stream of the client, or connect.
Prepare(c) ==
    /\ h.ch[c].state = "new"
    /\ h' = IF h.saved # 0 THEN ClientCheckout(h, c)
               ELSE [h EXCEPT !.ch[c].state = "buffer", !.ch[c].stream = Len(h.streams) + 1,
                              !.streams = Append(@, NewStream(c))]

\* Options that are not valid.
PrepareFails(c) ==
    /\ h.ch[c].state = "new"
    /\ h' = Fail(h, c)

\* on_stream_open
StreamOpen(id) ==
    /\ ~h.streams[id].open /\ ~h.streams[id].dead
    /\ LET c == CHOOSE c \in h.streams[id].owner : TRUE
       IN  h' = [h EXCEPT !.streams[id].open = TRUE, !.ch[c].ready = TRUE]

\* cockpit_http_stream_control, "done", with send_http_request.
Done(c) ==
    /\ h.ch[c].state = "buffer" /\ h.ch[c].ready /\ ~h.ch[c].closed
    /\ h' = [h EXCEPT !.ch[c].state = "request",
                      !.streams[h.ch[c].stream].requests = Append(@, c)]

\* disallowed_header, and everything else that cannot be sent.
RequestRefused(c) ==
    /\ h.ch[c].state = "buffer" /\ h.ch[c].ready /\ ~h.ch[c].closed
    /\ h' = Settle(Fail(h, c), c)

\* The client closes the channel; without Aborts, only with a problem.
ClientCloses(c, problem) ==
    /\ h.ch[c].state \in {"buffer", "request", "data"} /\ ~h.ch[c].closed
    /\ problem \/ Aborts \/ h.ch[c].state # "data"
    /\ h' = Settle(HttpClose(h, c, problem), c)

\* dispatch_input: a part of what is on the way, and the end if that is all.
Read(id, n) ==
    /\ h.streams[id].open /\ ~h.streams[id].dead /\ ~h.streams[id].ended
    /\ n <= Len(h.streams[id].wire)
    /\ n > 0 \/ h.streams[id].eof
    /\ LET st == h.streams[id]
           r == [h EXCEPT !.streams[id].buffer = @ \o SubSeq(st.wire, 1, n),
                          !.streams[id].wire = SubSeq(@, n + 1, Len(@)),
                          !.streams[id].ended = st.eof /\ n = Len(st.wire)]
       IN  h' = FoldLeft(LAMBDA t, c : StreamRead(t, c), r, SetToSeq(st.owner))

\* A stream ends with a problem.
StreamFails(id) ==
    /\ Faults /\ ~h.streams[id].dead
    /\ h' = StreamClose(h, id)

\* on_client_timeout, after ten seconds.
ClientTimeout ==
    /\ h.saved # 0
    /\ h' = ClientReset(h)

\* The server answers the next request, and may then close the connection.
ServerAnswers(id, kind, keep) ==
    /\ h.streams[id].requests # <<>> /\ ~h.streams[id].dead /\ ~h.streams[id].eof
    /\ LET c == Head(h.streams[id].requests)
       IN  h' = [h EXCEPT !.streams[id].requests = Tail(@), !.ch[c].answered = TRUE,
                          !.streams[id].wire = @ \o Response(c, kind, keep /\ kind # "open"),
                          !.streams[id].eof = (kind = "open")]

ServerHangsUp(id) ==
    /\ Hangups /\ ~h.streams[id].eof /\ h.streams[id].open
    /\ h' = [h EXCEPT !.streams[id].eof = TRUE]

Init == h = [ch |-> [c \in Channels |-> NewChannel], streams |-> <<>>, saved |-> 0]

Next ==
    \/ \E c \in Channels :
        \/ Prepare(c) \/ PrepareFails(c) \/ Done(c) \/ RequestRefused(c)
        \/ \E problem \in BOOLEAN : ClientCloses(c, problem)
    \/ ClientTimeout
    \/ \E id \in DOMAIN h.streams :
        \/ StreamOpen(id) \/ StreamFails(id) \/ ServerHangsUp(id)
        \/ \E n \in 0..Len(h.streams[id].wire) : Read(id, n)
        \/ \E kind \in Kinds, keep \in BOOLEAN : ServerAnswers(id, kind, keep)

Spec == Init /\ [][Next]_vars

Unread ==
    \E id \in DOMAIN h.streams :
        LET st == h.streams[id] IN ~st.dead /\ (st.wire # <<>> \/ (st.eof /\ ~st.ended))
ReadStep ==
    \E id \in DOMAIN h.streams :
        LET st == h.streams[id]
        IN  Len(h'.streams[id].wire) < Len(st.wire) \/ (h'.streams[id].ended /\ ~st.ended)

(***************************************************************************)
(* Properties.                                                             *)
(***************************************************************************)
\* A stream has the channel that has it, and the one that is kept has none.
TypeOK ==
    /\ \A id \in DOMAIN h.streams : h.streams[id].owner = {c \in Channels : h.ch[c].stream = id}
    /\ h.saved # 0 => h.streams[h.saved].owner = {} /\ ~h.streams[h.saved].dead

\* A channel is sent the response to its own request and nothing else, also when streams are
\* used again.
OwnResponse == \A c \in Channels : \A i \in DOMAIN h.ch[c].got : h.ch[c].got[i].of = c

\* A channel that ends without a problem was sent the whole response.
CompleteResponse ==
    \A c \in Channels :
        h.ch[c].closed /\ ~h.ch[c].problem =>
            h.ch[c].got # <<>> /\ Cardinality({i \in DOMAIN h.ch[c].got : h.ch[c].got[i].k = "data"}) = Body

\* A stream that is kept has nothing on it that belongs to an earlier request.
KeptClean ==
    h.saved # 0 => h.streams[h.saved].buffer = <<>> /\ h.streams[h.saved].wire = <<>>

\* A request that the server has answered comes to an end: Answered(c) ~> AnswerOver(c).
Answered(c) == h.ch[c].answered
AnswerOver(c) == h.ch[c].closed

=============================================================================
