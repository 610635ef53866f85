---------------------------- MODULE TlsConnection ---------------------------
(***************************************************************************)
(* The loop of one connection of cockpit-tls, connection.c (src/src/tls):  *)
(* two ring buffers between the browser and a cockpit-ws instance, with    *)
(* half-closed sockets, partial reads and writes, TLS records that do not  *)
(* fit, and the metadata that is passed along with the first bytes.        *)
(***************************************************************************)
EXTENDS Integers, Sequences, SequencesExt

CONSTANTS
    Size,        \* BUFFER_SIZE
    Wrap,        \* the values of an unsigned int
    MaxUp,       \* bound on the bytes of the client
    MaxDown,     \* bound on the bytes of cockpit-ws
    MaxRecord,   \* bound on the bytes of a TLS record
    Room,        \* bytes that a socket takes before it is read
    Tls,         \* whether the client uses TLS
    Faults       \* whether sockets fail

(* What an instance has to satisfy.                                       *)
TlsConnectionAssumption ==
    /\ Size \in Nat \ {0} /\ Wrap \in Nat /\ Wrap % Size = 0 /\ Wrap > Size
    /\ MaxUp \in Nat /\ MaxDown \in Nat /\ MaxRecord \in 1..Size /\ Room \in Nat \ {0}
    /\ Tls \in BOOLEAN /\ Faults \in BOOLEAN

VARIABLE x   \* the Connection and the sockets at its ends

(* A buffer: start, end (unsigned), eof, rd (shut_rd), wr (shut_wr) and    *)
(* ring, the bytes.  The bytes of each side are numbered from 1.           *)
(* x: up (client_to_ws_buffer), down (ws_to_client_buffer), done; cs, ws:  *)
(* how many bytes each side sent; wire: the records of the client, pending *)
(* what GnuTLS decrypted of one and nobody read; wsWire; cfin, wfin: open, *)
(* fin (no more is sent) or gone; toClient, toWs: what was passed on, and  *)
(* cread, wread: how much of it is read; cend, wend: the proxy shut down   *)
(* that way; fd: metadata_fd; fdAt: where in toWs it was attached          *)
NewBuffer ==
    [start |-> 0, end |-> 0, eof |-> FALSE, rd |-> FALSE, wr |-> FALSE,
     ring |-> [i \in 0..Size - 1 |-> 0]]

Init ==
    x = [up |-> NewBuffer, down |-> NewBuffer, done |-> FALSE, cs |-> 0, ws |-> 0,
         wire |-> <<>>, pending |-> <<>>, wsWire |-> <<>>, cfin |-> "open", wfin |-> "open",
         toClient |-> <<>>, toWs |-> <<>>, cread |-> 0, wread |-> 0, cend |-> FALSE,
         wend |-> FALSE, fd |-> TRUE, fdAt |-> {}]

-----------------------------------------------------------------------------
(* Ring buffers                                                            *)

Fill(b) == (b.end - b.start) % Wrap
Full(b) == Fill(b) = Size
Empty(b) == b.end = b.start

CanRead(b) == ~b.rd /\ ~Full(b)
CanWrite(b) == ~b.wr /\ ~Empty(b)
NeedsShutRd(b) == b.eof /\ ~b.rd

NeedsShutWr(b) == b.eof /\ Empty(b) /\ ~b.wr

Alive(b) == ~b.rd \/ ~b.wr
Valid(b) == Fill(b) <= Size

Eof(b) == [b EXCEPT !.eof = TRUE]
Epipe(b) == [b EXCEPT !.start = b.end, !.eof = TRUE]

(* get_iovecs(): the first piece, up to the end of the array               *)
Contiguous(from, to) ==
    LET room == (to - from) % Wrap  rest == Size - (from % Size)
    IN  IF room < rest THEN room ELSE rest

Contents(b, n) == [i \in 1..n |-> b.ring[(b.start + i - 1) % Size]]
Took(b, n) == [b EXCEPT !.start = (@ + n) % Wrap]

Put(b, bytes) ==
    [b EXCEPT !.end = (@ + Len(bytes)) % Wrap,
              !.ring = [i \in 0..Size - 1 |->
                          LET k == (i - b.end) % Size IN IF k < Len(bytes) THEN bytes[k + 1] ELSE @[i]]]

-----------------------------------------------------------------------------
(* The operations of the loop: from a state to the states it may lead to.  *)
(* A socket that would block leaves things as they are (EAGAIN).           *)

Least(m, n) == IF m < n THEN m ELSE n

(* buffer_write_to_fd() to the instance                                    *)
WriteToWs(s) ==
    LET n == Least(Fill(s.up), Room - (Len(s.toWs) - s.wread))
        sent == IF s.wfin = "gone" /\ ~Empty(s.up) THEN {[s EXCEPT !.up = Epipe(@)]}
                ELSE IF n <= 0 THEN {s}
                ELSE {[s EXCEPT !.up = Took(@, k), !.toWs = @ \o Contents(s.up, k),
                                !.fdAt = IF s.fd THEN @ \cup {Len(s.toWs) + 1} ELSE @,
                                !.fd = FALSE] : k \in 1..n}
    IN  {IF NeedsShutWr(t.up) THEN [t EXCEPT !.up.wr = TRUE, !.wend = TRUE] ELSE t : t \in sent}

(* buffer_write_to_fd() to the client, and buffer_write_to_tls(), which    *)
(* sends one piece                                                         *)
WriteToClient(s) ==
    LET piece == IF Tls THEN Contiguous(s.down.start, s.down.end) ELSE Fill(s.down)
        n == Least(piece, Room - (Len(s.toClient) - s.cread))
        sent == IF s.cfin = "gone" /\ ~Empty(s.down) THEN {[s EXCEPT !.down = Epipe(@)]}
                ELSE IF n <= 0 THEN {s}
                ELSE {[s EXCEPT !.down = Took(@, k), !.toClient = @ \o Contents(s.down, k)] :
                        k \in 1..n}
    IN  {IF NeedsShutWr(t.down) THEN [t EXCEPT !.down.wr = TRUE, !.cend = TRUE] ELSE t : t \in sent}

(* buffer_read_from_fd() from the instance                                 *)
ReadFromWs(s) ==
    LET n == Least(Size - Fill(s.down), Len(s.wsWire))
    IN  IF NeedsShutRd(s.down) THEN {[s EXCEPT !.down.rd = TRUE]}
        ELSE IF s.wsWire = <<>>
        THEN {IF s.wfin = "open" THEN s ELSE [s EXCEPT !.down = Eof(@)]}
        ELSE {[s EXCEPT !.down = Put(@, SubSeq(s.wsWire, 1, k)),
                        !.wsWire = SubSeq(@, k + 1, Len(@))] : k \in 1..n}

(* buffer_read_from_fd() from a client without TLS: its records have one   *)
(* byte each.                                                              *)
ReadFromFd(s) ==
    LET n == Least(Size - Fill(s.up), Len(s.wire))
    IN  IF NeedsShutRd(s.up) THEN {[s EXCEPT !.up.rd = TRUE]}
        ELSE IF s.wire = <<>>
        THEN {IF s.cfin = "open" THEN s ELSE [s EXCEPT !.up = Eof(@)]}
        ELSE {[s EXCEPT !.up = Put(@, FlattenSeq(SubSeq(s.wire, 1, k))),
                        !.wire = SubSeq(@, k + 1, Len(@))] : k \in 1..n}

(* A mutant of ReadFromTls: what does not fit is forgotten.                *)
ReadFromTlsRest(s) ==
    LET n == Least(Contiguous(s.up.end, s.up.start + Size), Len(Head(s.wire)))
    IN  IF NeedsShutRd(s.up) THEN {[s EXCEPT !.up.rd = TRUE]}
        ELSE IF s.wire = <<>>
        THEN {IF s.cfin = "open" THEN s ELSE [s EXCEPT !.up = Epipe(@)]}
        ELSE {[s EXCEPT !.up = Put(@, SubSeq(Head(s.wire), 1, n)), !.wire = Tail(@)]}

(* buffer_read_from_tls(): what is pending, or one record, as far as it    *)
(* fits; the end of the session also drops what is in the buffer.          *)
ReadFromTls(s) ==
    LET room == Contiguous(s.up.end, s.up.start + Size)
        new == s.pending = <<>>
        record == IF new THEN Head(s.wire) ELSE s.pending
        n == Least(room, Len(record))
    IN  IF NeedsShutRd(s.up) THEN {[s EXCEPT !.up.rd = TRUE]}
        ELSE IF new /\ s.wire = <<>>
        THEN {IF s.cfin = "open" THEN s ELSE [s EXCEPT !.up = Epipe(@)]}
        ELSE {[s EXCEPT !.up = Put(@, SubSeq(record, 1, n)),
                        !.pending = SubSeq(record, n + 1, Len(record)),
                        !.wire = IF new THEN Tail(@) ELSE @]}

-----------------------------------------------------------------------------
(* calculate_events()                                                      *)
Events(reader, writer) ==
    (IF CanRead(reader) THEN {"in"} ELSE {}) \cup (IF CanWrite(writer) THEN {"out"} ELSE {})

(* calculate_revents()                                                     *)
Revents(reader, writer) ==
    (IF NeedsShutRd(reader) THEN {"in"} ELSE {})
      \cup (IF NeedsShutWr(writer) THEN {"out"} ELSE {})

(* POLLIN * gnutls_record_check_pending(): the number of bytes is taken    *)
(* for a set of events, POLLIN = 1 and POLLOUT = 4.                        *)
Pending(n) ==
    (IF n % 2 = 1 THEN {"in"} ELSE {}) \cup (IF (n \div 4) % 2 = 1 THEN {"out"} ELSE {})

(* poll(): what a socket is ready for                                      *)
ClientReady(s) ==
    (IF s.wire # <<>> \/ s.cfin # "open" THEN {"in"} ELSE {})
      \cup (IF s.cfin = "gone" \/ Len(s.toClient) - s.cread < Room THEN {"out"} ELSE {})

WsReady(s) ==
    (IF s.wsWire # <<>> \/ s.wfin # "open" THEN {"in"} ELSE {})
      \cup (IF s.wfin = "gone" \/ Len(s.toWs) - s.wread < Room THEN {"out"} ELSE {})

ClientRevents(s) ==
    Revents(s.up, s.down)
      \cup (IF Tls /\ CanRead(s.up) THEN Pending(Len(s.pending)) ELSE {})
      \cup (Events(s.up, s.down) \cap ClientReady(s))

WsRevents(s) == Revents(s.down, s.up) \cup (Events(s.down, s.up) \cap WsReady(s))

ReadClient(s) == IF Tls THEN ReadFromTls(s) ELSE ReadFromFd(s)
When(wanted, S, Op(_)) == IF wanted THEN UNION {Op(s) : s \in S} ELSE S

(* One turn of connection_thread_loop()                                    *)
ThreadLoop ==
    /\ ~x.done /\ (Alive(x.up) \/ Alive(x.down))
    /\ LET c == ClientRevents(x)
           w == WsRevents(x)
       IN  /\ c \cup w # {}
           /\ x' \in When("out" \in w,
                       When("in" \in w,
                         When("out" \in c,
                           When("in" \in c, {x}, ReadClient), WriteToClient), ReadFromWs),
                       WriteToWs)

(* connection_thread_main() closes both sockets.                           *)
ThreadEnds ==
    /\ ~x.done /\ (Faults \/ (~Alive(x.up) /\ ~Alive(x.down)))   \* EINVAL: out of fds
    /\ x' = [x EXCEPT !.done = TRUE, !.cend = TRUE, !.wend = TRUE]

-----------------------------------------------------------------------------
(* The browser and cockpit-ws                                              *)

ClientSends ==
    /\ x.cfin = "open" /\ ~x.done
    /\ \E n \in 1..(IF Tls THEN MaxRecord ELSE 1) :
         /\ x.cs + n <= MaxUp
         /\ x' = [x EXCEPT !.cs = @ + n, !.wire = Append(@, [i \in 1..n |-> x.cs + i])]

WsSends ==
    /\ x.wfin = "open" /\ ~x.done /\ x.ws < MaxDown
    /\ x' = [x EXCEPT !.ws = @ + 1, !.wsWire = Append(@, x.ws + 1)]

ClientReads ==
    /\ x.cread < Len(x.toClient) /\ x.cfin # "gone"
    /\ x' = [x EXCEPT !.cread = Len(x.toClient)]

WsReads ==
    /\ x.wread < Len(x.toWs) /\ x.wfin # "gone"
    /\ x' = [x EXCEPT !.wread = Len(x.toWs)]

(* Each side ends its half; a fault is the whole socket going away.        *)
ClientEnds ==
    /\ ~x.done
    /\ \/ x.cfin = "open" /\ x' = [x EXCEPT !.cfin = "fin"]
       \/ Faults /\ x.cfin # "gone" /\ x' = [x EXCEPT !.cfin = "gone"]

WsEnds ==
    /\ ~x.done
    /\ \/ x.wfin = "open" /\ x' = [x EXCEPT !.wfin = "fin"]
       \/ Faults /\ x.wfin # "gone" /\ x' = [x EXCEPT !.wfin = "gone"]

Next ==
    \/ ThreadLoop \/ ThreadEnds \/ ClientSends \/ WsSends \/ ClientReads \/ WsReads
    \/ ClientEnds \/ WsEnds

Spec == Init /\ [][Next]_x

-----------------------------------------------------------------------------
(* The indices are unsigned, and assert (buffer_valid (self)): a buffer    *)
(* never holds more than its size.                                         *)
TypeOK ==
    \A b \in {x.up, x.down} : b.start \in 0..Wrap - 1 /\ b.end \in 0..Wrap - 1 /\ Valid(b)

(* What reaches the other side is a prefix of what was sent: nothing is    *)
(* reordered, duplicated or left out, also when the indices wrap.          *)
InOrder ==
    /\ \A i \in 1..Len(x.toWs) : x.toWs[i] = i
    /\ \A i \in 1..Len(x.toClient) : x.toClient[i] = i

(* The metadata (who the client is) comes with the first byte, once.       *)
MetadataFirst == x.fdAt = IF x.toWs = <<>> THEN {} ELSE {1}

(* A half is shut down for writing only when its source ended or failed    *)
(* and everything that was taken from it is passed on.                     *)
ShutWhenDrained ==
    /\ x.wend /\ ~x.done => x.up.eof /\ Empty(x.up) /\ (x.cfin # "open" \/ x.wfin = "gone")
    /\ x.cend /\ ~x.done => x.down.eof /\ Empty(x.down) /\ (x.wfin # "open" \/ x.cfin = "gone")

(* Without faults and TLS both sides get all that the other one sent       *)
(* before they are told that it ended.                                     *)
NothingLost ==
    /\ x.wend => Len(x.toWs) = x.cs
    /\ x.cend => Len(x.toClient) = x.ws

(* Bytes do not stay in the proxy: InProxy ~> ~InProxy.                    *)
InProxy == Len(x.toWs) < x.cs \/ Len(x.toClient) < x.ws

(* When both sides ended the thread ends: BothEnded ~> ThreadOver.         *)
BothEnded == x.cfin # "open" /\ x.wfin # "open"
ThreadOver == x.done

=============================================================================
