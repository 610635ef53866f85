---------------------------- MODULE FlowControl -----------------------------
(***************************************************************************)
(* Send-side flow control of a channel (send_bytes(), do_pong() and        *)
(* AsyncChannel.write() of src/src/cockpit/channel.py), with the client    *)
(* that reads the channel and answers its pings.                           *)
(*                                                                         *)
(* Data and pings reach the client in the order they were written, so a    *)
(* ping with sequence s lies between byte s and byte s + 1; pongs come     *)
(* back in the order they were sent.  Both are sets of sequence numbers,   *)
(* with the smallest number in front.                                      *)
(***************************************************************************)
EXTENDS Integers, TLAPS

CONSTANTS
    BLOCK_SIZE,   \* a ping is sent each time this many bytes are crossed
    SEND_WINDOW,  \* how far the writer may be ahead of the last pong
    MaxFrame,     \* largest frame that run() passes to write()
    Total         \* bound on the bytes written in a behaviour

ASSUME FlowAssumption ==
    /\ BLOCK_SIZE \in Nat \ {0} /\ SEND_WINDOW \in Nat /\ BLOCK_SIZE <= SEND_WINDOW
    /\ MaxFrame \in Nat \ {0} /\ Total \in Nat

VARIABLES
    sendPings,    \* _send_pings: the client asked for flow control
    outSequence,  \* _out_sequence
    outWindow,    \* _out_window
    task,         \* run(): running, waiting in write(), cancelled, or gone
    waiter,       \* write_waiter: None, a pending future or a cancelled one
    raised,       \* handling a frame has raised InvalidStateError
    written,      \* bytes of data written to the client
    pings,        \* pings on their way to the client
    received,     \* bytes of data the client has read
    answered,     \* sequence of the last ping the client has answered
    pongs,        \* pongs on their way to the bridge
    close,        \* the client's "close": "no", "sent" or "handled"
    closeAt       \* the last ping it had answered before its "close"

vars == <<sendPings, outSequence, outWindow, task, waiter, raised,
          written, pings, received, answered, pongs, close, closeAt>>

channelVars == <<sendPings, outSequence, outWindow, task, waiter, raised>>
clientVars == <<received, answered, close, closeAt>>

TypeOK ==
    /\ sendPings \in BOOLEAN
    /\ outSequence \in Nat /\ outWindow \in Nat
    /\ task \in {"run", "wait", "cancelled", "gone"}
    /\ waiter \in {"none", "pending", "cancelled"}
    /\ raised \in BOOLEAN
    /\ written \in Nat /\ received \in Nat /\ answered \in Nat
    /\ pings \in SUBSET Nat /\ pongs \in SUBSET Nat
    /\ close \in {"no", "sent", "handled"} /\ closeAt \in Nat

Init ==
    /\ sendPings \in BOOLEAN
    /\ outSequence = 0 /\ outWindow = SEND_WINDOW
    /\ task = "run" /\ waiter = "none" /\ raised = FALSE
    /\ written = 0 /\ pings = {}
    /\ received = 0 /\ answered = 0 /\ pongs = {}
    /\ close = "no" /\ closeAt = 0

-----------------------------------------------------------------------------
(* A mutant of Crosses: a ping only when a block is exactly full.          *)
CrossesExactly(n) == sendPings /\ (outSequence + n) % BLOCK_SIZE = 0

(* The sequence number after sending n bytes, and whether they cross into  *)
(* another block.                                                          *)
NextSequence(n) == IF sendPings THEN outSequence + n ELSE outSequence
Crosses(n) == outSequence \div BLOCK_SIZE # NextSequence(n) \div BLOCK_SIZE

(* A mutant of WindowOpen: the frame itself is not counted.                *)
WindowOpenBefore(n) == outSequence < outWindow

(* What send_bytes() returns: may the sender go on after n more bytes?     *)
WindowOpen(n) == NextSequence(n) < outWindow

(* write(): send_bytes() sends at once, advisory window or not; when it    *)
(* reports that the window is full, write() waits.                         *)
Write(n) ==
    /\ task = "run"
    /\ written + n <= Total
    /\ written' = written + n
    /\ pings' = IF sendPings /\ Crosses(n) THEN pings \cup {NextSequence(n)} ELSE pings
    /\ outSequence' = NextSequence(n)
    /\ IF WindowOpen(n)
       THEN UNCHANGED <<task, waiter>>
       ELSE task' = "wait" /\ waiter' = "pending"
    /\ UNCHANGED <<sendPings, outWindow, raised, clientVars, pongs>>

(* run() returns, or gets the CancelledError: run_wrapper() calls close(), *)
(* and from then on do_channel_control() ignores every frame.              *)
TaskEnds ==
    /\ task \in {"run", "cancelled"}
    /\ task' = "gone"
    /\ UNCHANGED <<sendPings, outSequence, outWindow, waiter, raised,
                   written, pings, clientVars, pongs>>

(* The window that a pong for sequence s opens.                            *)
Opened(s) == s + SEND_WINDOW

(* A mutant of Resumes: the window before this pong is compared.           *)
ResumesLate(s) == outSequence < outWindow

(* Whether that lets the sender go on.                                     *)
Resumes(s) == outSequence < Opened(s)

(* do_pong() and do_resume_send() of the frame in front.  set_result() on  *)
(* the future that Task.cancel() has cancelled raises InvalidStateError:   *)
(* the frame then stays in the router's buffer.                            *)
HandlePong(s) ==
    /\ s \in pongs /\ \A t \in pongs : s <= t
    /\ close = "sent" => s <= closeAt
    /\ IF task = "gone"
       THEN pongs' = pongs \ {s} /\ UNCHANGED channelVars
       ELSE /\ outWindow' = Opened(s)
            /\ LET resume == Resumes(s)
               IN  /\ task' = IF resume /\ waiter = "pending" THEN "run" ELSE task
                   /\ waiter' = IF resume /\ waiter = "pending" THEN "none" ELSE waiter
                   /\ raised' = (raised \/ (resume /\ waiter = "cancelled"))
                   /\ pongs' = IF resume /\ waiter = "cancelled" THEN pongs ELSE pongs \ {s}
            /\ UNCHANGED <<sendPings, outSequence>>
    /\ UNCHANGED <<written, pings, clientVars>>

(* do_close(): Task.cancel(), which cancels the future the task waits for. *)
(* The pongs that the client sent before the "close" come before it.       *)
HandleClose ==
    /\ close = "sent" /\ \A s \in pongs : closeAt < s
    /\ close' = "handled"
    /\ IF task \in {"run", "wait"}
       THEN /\ task' = "cancelled"
            /\ waiter' = IF waiter = "pending" THEN "cancelled" ELSE waiter
       ELSE UNCHANGED <<task, waiter>>
    /\ UNCHANGED <<sendPings, outSequence, outWindow, raised, written, pings,
                   received, answered, pongs, closeAt>>

-----------------------------------------------------------------------------
(* The client (src/pkg/lib/cockpit/_internal/transport.ts) reads data up   *)
(* to the next ping, answers pings when they come to the front, also after *)
(* it has closed the channel, and may close the channel.                   *)
ClientReads(n) ==
    /\ received < n /\ n <= written
    /\ \A s \in pings : n <= s
    /\ received' = n
    /\ UNCHANGED <<channelVars, written, pings, answered, pongs, close, closeAt>>

ClientPongs(s) ==
    /\ s \in pings /\ \A t \in pings : s <= t
    /\ s <= received
    /\ pings' = pings \ {s}
    /\ pongs' = pongs \cup {s}
    /\ answered' = s
    /\ UNCHANGED <<channelVars, written, received, close, closeAt>>

ClientCloses ==
    /\ close = "no"
    /\ close' = "sent"
    /\ closeAt' = answered
    /\ UNCHANGED <<channelVars, written, pings, received, answered, pongs>>

-----------------------------------------------------------------------------
Next ==
    \/ \E n \in 1..MaxFrame : Write(n)
    \/ TaskEnds
    \/ \E s \in pongs : HandlePong(s)
    \/ HandleClose
    \/ \E n \in (received + 1)..written : ClientReads(n)
    \/ \E s \in pings : ClientPongs(s)
    \/ ClientCloses

Spec == Init /\ [][Next]_vars

(* The event loop handles frames that have arrived and resumes a task that *)
(* was cancelled; the client reads what it is sent and answers pings.      *)
(* Nothing makes run() write, return or the client close.                  *)
Fairness ==
    /\ WF_vars(\E s \in pongs : HandlePong(s)) /\ WF_vars(HandleClose)
    /\ WF_vars(task = "cancelled" /\ TaskEnds)
    /\ WF_vars(\E n \in (received + 1)..written : ClientReads(n))
    /\ WF_vars(\E s \in pings : ClientPongs(s))

FairSpec == Spec /\ Fairness

-----------------------------------------------------------------------------
(* A writer that waits will be woken: a ping or its pong is on its way     *)
(* that opens the window far enough for the data already sent.  (Pings are *)
(* only sent at block boundaries and frames have any size, so the last     *)
(* ping may be behind the last byte.)                                      *)
NoStall ==
    task = "wait" => \E s \in pings \cup pongs : outSequence < s + SEND_WINDOW

(* The client's backlog is bounded by the window and one frame.            *)
Backpressure == sendPings => written - received < SEND_WINDOW + MaxFrame

(* The writer proceeds (or is cancelled) after every wait.                 *)
WriterResumes == task = "wait" ~> task # "wait"

(* Frames for a channel are handled: what goes wrong in one channel is     *)
(* turned into its close and never leaves data_received() as an exception. *)
ErrorsBecomeClose == ~raised

-----------------------------------------------------------------------------
(* The invariant that the first two properties follow from.                *)

(* The sequence number the window was last opened for.                     *)
Acked == outWindow - SEND_WINDOW

(* Sequence numbers on their way come in order: the last one acknowledged, *)
(* then pongs, then pings, none of them past what was sent.                *)
InOrder ==
    /\ 0 <= Acked /\ Acked <= answered /\ answered <= received /\ received <= written
    /\ \A s \in pongs : Acked <= s /\ s <= answered
    /\ \A s \in pings : answered < s /\ s <= written

(* The block that the last byte sent is in has been pinged, or pinged and  *)
(* answered, or acknowledged.                                              *)
BlockPinged ==
    \E s \in {Acked} \cup pongs \cup pings :
        s \div BLOCK_SIZE = outSequence \div BLOCK_SIZE

(* run() writes only into an open window and waits only at a full one.     *)
WindowKept ==
    /\ task = "run" => outSequence < outWindow /\ waiter = "none"
    /\ task = "wait" => outSequence >= outWindow /\ waiter = "pending"
    /\ task \in {"cancelled", "gone"} => waiter # "pending"
    /\ outSequence < outWindow + MaxFrame

FlowInv ==
    /\ WindowKept
    /\ InOrder
    /\ IF sendPings THEN outSequence = written ELSE outSequence = 0 /\ pings = {} /\ pongs = {}
    /\ task # "gone" => BlockPinged

-----------------------------------------------------------------------------
(* Proofs, for every block size, window, frame size and length of the data. *)

(* What \div means.                                                        *)
LEMMA DivBounds ==
    ASSUME NEW B \in Nat \ {0}, NEW x \in Nat
    PROVE  /\ x \div B \in Nat
           /\ B * (x \div B) <= x
           /\ x < B * (x \div B) + B
OBVIOUS

(* The block that byte x is in.                                            *)
Block(x) == x \div BLOCK_SIZE

(* Two bytes of one block are less than a block apart ...                  *)
LEMMA SameBlock ==
    ASSUME NEW x \in Nat, NEW y \in Nat, Block(x) = Block(y)
    PROVE  y < x + BLOCK_SIZE
BY FlowAssumption, DivBounds DEF Block

(* ... and every byte between them is in that block too.                   *)
LEMMA BlockConvex ==
    ASSUME NEW x \in Nat, NEW y \in Nat, NEW z \in Nat,
           x <= y, y <= z, Block(x) = Block(z)
    PROVE  Block(y) = Block(z)
<1> DEFINE B == BLOCK_SIZE
           q == Block(x)
           r == Block(y)
<1>1. /\ B \in Nat \ {0} /\ q \in Nat /\ r \in Nat
      /\ B * q <= x /\ x < B * q + B /\ B * r <= y /\ y < B * r + B
      /\ B * q <= z /\ z < B * q + B
  BY FlowAssumption, DivBounds DEF Block
<1> HIDE DEF q, r, B
<1>2. B * r < B * (q + 1) /\ B * q < B * (r + 1)
  BY <1>1
<1>3. r = q
  BY <1>1, <1>2
<1> QED
  BY <1>3 DEF q, r

-----------------------------------------------------------------------------
(* The initial states satisfy the invariant.                               *)
LEMMA FlowInit == Init => TypeOK /\ FlowInv
<1> SUFFICES ASSUME Init PROVE TypeOK /\ FlowInv
  OBVIOUS
<1> USE FlowAssumption DEF Init
<1>1. TypeOK
  BY DEF TypeOK
<1>2. Acked = 0 /\ outSequence = 0
  BY DEF Acked
<1>3. WindowKept /\ InOrder
  BY <1>2 DEF WindowKept, InOrder
<1>4. BlockPinged
  BY <1>2 DEF BlockPinged
<1> QED
  BY <1>1, <1>3, <1>4 DEF FlowInv

(* Every step keeps the variables in their types.                          *)
LEMMA FlowType == TypeOK /\ [Next]_vars => TypeOK'
<1> SUFFICES ASSUME TypeOK, [Next]_vars PROVE TypeOK'
  OBVIOUS
<1> USE FlowAssumption DEF TypeOK
<1>1. ASSUME NEW n \in 1..MaxFrame, Write(n) PROVE TypeOK'
  BY <1>1 DEF Write, WindowOpen, NextSequence, clientVars
<1>2. CASE TaskEnds
  BY <1>2 DEF TaskEnds, clientVars
<1>3. ASSUME NEW s \in pongs, HandlePong(s) PROVE TypeOK'
  <2>1. CASE task = "gone"
    BY <1>3, <2>1 DEF HandlePong, Opened, Resumes, clientVars, channelVars
  <2>2. CASE task # "gone"
    <3>1. s \in Nat /\ s + SEND_WINDOW \in Nat
      OBVIOUS
    <3>2. raised' \in BOOLEAN
      BY <1>3, <2>2 DEF HandlePong, Opened, Resumes
    <3> QED
      BY <1>3, <2>2, <3>1, <3>2 DEF HandlePong, Opened, Resumes, clientVars
  <2> QED
    BY <2>1, <2>2
<1>4. CASE HandleClose
  BY <1>4 DEF HandleClose
<1>5. ASSUME NEW n \in (received + 1)..written, ClientReads(n) PROVE TypeOK'
  BY <1>5 DEF ClientReads, channelVars
<1>6. ASSUME NEW s \in pings, ClientPongs(s) PROVE TypeOK'
  BY <1>6 DEF ClientPongs, channelVars
<1>7. CASE ClientCloses
  BY <1>7 DEF ClientCloses, channelVars
<1>8. CASE UNCHANGED vars
  BY <1>8 DEF vars
<1> QED
  BY <1>1, <1>2, <1>3, <1>4, <1>5, <1>6, <1>7, <1>8 DEF Next

(* A write of n bytes keeps the invariant: if it crosses into a block, the *)
(* new ping covers that block, else the old witness still does.            *)
LEMMA WriteInv ==
    ASSUME TypeOK, FlowInv, NEW n \in 1..MaxFrame, Write(n)
    PROVE  FlowInv'
<1> USE FlowAssumption DEF TypeOK
<1>a. UNCHANGED <<sendPings, outWindow, received, answered, pongs>>
  BY DEF Write, WindowOpen, clientVars
<1>1. WindowKept'
  BY <1>a DEF Write, WindowOpen, NextSequence, FlowInv, WindowKept
<1>2. CASE sendPings
  <2>1. outSequence = written /\ outSequence' = written + n /\ written' = written + n
    BY <1>2 DEF Write, WindowOpen, NextSequence, FlowInv
  <2>2. pings' \subseteq pings \cup {written + n}
    BY <1>2, <2>1 DEF Write, WindowOpen, NextSequence
  <2>3. InOrder'
    BY <1>a, <2>1, <2>2 DEF FlowInv, InOrder, Acked
  <2>4. BlockPinged'
    <3>1. CASE Crosses(n)
      BY <1>2, <2>1, <3>1 DEF Write, WindowOpen, NextSequence, BlockPinged
    <3>2. CASE ~Crosses(n)
      <4>1. outSequence' \div BLOCK_SIZE = outSequence \div BLOCK_SIZE
        BY <1>2, <2>1, <3>2 DEF Crosses, NextSequence
      <4>2. pings' = pings /\ BlockPinged
        BY <3>2 DEF Write, WindowOpen, FlowInv
      <4> QED
        BY <1>a, <4>1, <4>2 DEF BlockPinged, Acked
    <3> QED
      BY <3>1, <3>2
  <2> QED
    BY <1>1, <1>a, <1>2, <2>1, <2>3, <2>4 DEF FlowInv
<1>3. CASE ~sendPings
  <2>1. outSequence' = outSequence /\ pings' = pings /\ written' = written + n
    BY <1>3 DEF Write, WindowOpen, NextSequence
  <2>2. InOrder'
    BY <1>a, <2>1 DEF FlowInv, InOrder, Acked
  <2>3. BlockPinged'
    BY <1>a, <2>1 DEF Write, WindowOpen, FlowInv, BlockPinged, Acked
  <2> QED
    BY <1>1, <1>a, <1>3, <2>1, <2>2, <2>3 DEF FlowInv
<1> QED
  BY <1>2, <1>3

(* A pong moves the acknowledged position forward, to itself; it stays in  *)
(* the block of the last byte if the old position was in it.               *)
LEMMA PongInv ==
    ASSUME TypeOK, FlowInv, NEW s \in pongs, HandlePong(s)
    PROVE  FlowInv'
<1> USE FlowAssumption DEF TypeOK
<1>a. UNCHANGED <<sendPings, outSequence, written, pings, received, answered>>
  BY DEF HandlePong, Opened, Resumes, clientVars, channelVars
<1>b. s \in Nat /\ pongs' \subseteq pongs /\ \A t \in pongs : s <= t
  BY DEF HandlePong, Opened, Resumes
<1>c. sendPings /\ outSequence = written
  BY DEF FlowInv
<1>1. CASE task = "gone"
  <2>1. UNCHANGED <<outWindow, task, waiter>>
    BY <1>1 DEF HandlePong, Opened, Resumes, channelVars
  <2> QED
    BY <1>a, <1>b, <1>1, <2>1 DEF FlowInv, WindowKept, InOrder, Acked
<1>2. CASE task # "gone"
  <2>1. outWindow' = s + SEND_WINDOW /\ Acked' = s
    BY <1>2, <1>b DEF HandlePong, Opened, Resumes, Acked
  <2>2. Acked <= s /\ s <= outSequence /\ s <= answered
    BY <1>c DEF FlowInv, InOrder
  <2>3. InOrder'
    BY <1>a, <1>b, <2>1, <2>2 DEF FlowInv, InOrder
  <2>4. WindowKept'
    <3>1. outWindow <= outWindow'
      BY <2>1, <2>2 DEF Acked
    <3> QED
      BY <1>a, <1>2, <2>1, <3>1 DEF HandlePong, Opened, Resumes, FlowInv, WindowKept
  <2>5. BlockPinged'
    <3>1. PICK t \in {Acked} \cup pongs \cup pings :
                 t \div BLOCK_SIZE = outSequence \div BLOCK_SIZE
      BY <1>2 DEF FlowInv, BlockPinged
    <3>2. CASE t = Acked \/ t = s
      <4>1. Acked \in Nat
        BY DEF FlowInv, InOrder, Acked
      <4>2. s \div BLOCK_SIZE = outSequence \div BLOCK_SIZE
        <5>1. CASE t = Acked
          <6>1. Block(Acked) = Block(outSequence)
            BY <3>1, <5>1 DEF Block
          <6>2. Block(s) = Block(outSequence)
            BY <1>b, <2>2, <4>1, <6>1, BlockConvex
          <6> QED
            BY <6>2 DEF Block
        <5>2. CASE t = s
          BY <3>1, <5>2
        <5> QED
          BY <3>2, <5>1, <5>2
      <4> QED
        BY <1>a, <2>1, <4>2 DEF BlockPinged
    <3>3. CASE t \in (pongs \cup pings) \ {s}
      <4>1. t \in pongs' \cup pings'
        BY <1>a, <1>2, <3>3 DEF HandlePong, Opened, Resumes
      <4> QED
        BY <1>a, <3>1, <4>1 DEF BlockPinged
    <3> QED
      BY <3>2, <3>3
  <2> QED
    BY <1>a, <1>c, <2>3, <2>4, <2>5 DEF FlowInv
<1> QED
  BY <1>1, <1>2

(* Every step keeps the invariant.                                         *)
LEMMA FlowStep == TypeOK /\ FlowInv /\ [Next]_vars => FlowInv'
<1> SUFFICES ASSUME TypeOK, FlowInv, [Next]_vars PROVE FlowInv'
  OBVIOUS
<1> USE FlowAssumption DEF TypeOK
<1>1. ASSUME NEW n \in 1..MaxFrame, Write(n) PROVE FlowInv'
  BY <1>1, WriteInv
<1>2. CASE TaskEnds
  BY <1>2 DEF TaskEnds, clientVars, FlowInv, WindowKept, InOrder, Acked
<1>3. ASSUME NEW s \in pongs, HandlePong(s) PROVE FlowInv'
  BY <1>3, PongInv
<1>4. CASE HandleClose
  BY <1>4 DEF HandleClose, FlowInv, WindowKept, InOrder, BlockPinged, Acked
<1>5. ASSUME NEW n \in (received + 1)..written, ClientReads(n) PROVE FlowInv'
  BY <1>5 DEF ClientReads, channelVars, FlowInv, WindowKept, InOrder, BlockPinged, Acked
<1>6. ASSUME NEW s \in pings, ClientPongs(s) PROVE FlowInv'
  <2>1. UNCHANGED channelVars /\ UNCHANGED <<written, received>>
    BY <1>6 DEF ClientPongs
  <2>2. pongs' \cup pings' = pongs \cup pings /\ answered' = s /\ answered < s
        /\ sendPings
    BY <1>6 DEF ClientPongs, FlowInv, InOrder
  <2>3. InOrder'
    <3>1. \A t \in pings' : s < t
      BY <1>6 DEF ClientPongs
    <3> QED
      BY <1>6, <2>1, <2>2, <3>1 DEF ClientPongs, channelVars, FlowInv, InOrder, Acked
  <2>4. BlockPinged => BlockPinged'
    BY <2>1, <2>2 DEF channelVars, BlockPinged, Acked
  <2> QED
    BY <2>1, <2>2, <2>3, <2>4 DEF channelVars, FlowInv, WindowKept
<1>7. CASE ClientCloses
  BY <1>7 DEF ClientCloses, channelVars, FlowInv, WindowKept, InOrder, BlockPinged, Acked
<1>8. CASE UNCHANGED vars
  BY <1>8 DEF vars, FlowInv, WindowKept, InOrder, BlockPinged, Acked
<1> QED
  BY <1>1, <1>2, <1>3, <1>4, <1>5, <1>6, <1>7, <1>8 DEF Next

(* The invariant gives the two properties: the witness of a waiting writer *)
(* cannot be the acknowledged position, which is a whole window behind.    *)
LEMMA FlowImplies == TypeOK /\ FlowInv => NoStall /\ Backpressure
<1> SUFFICES ASSUME TypeOK, FlowInv PROVE NoStall /\ Backpressure
  OBVIOUS
<1> USE FlowAssumption DEF TypeOK
<1>1. Backpressure
  BY DEF FlowInv, WindowKept, InOrder, Acked, Backpressure
<1>2. ASSUME task = "wait"
      PROVE  \E s \in pings \cup pongs : outSequence < s + SEND_WINDOW
  <2>1. PICK s \in {Acked} \cup pongs \cup pings :
               s \div BLOCK_SIZE = outSequence \div BLOCK_SIZE
    BY <1>2 DEF FlowInv, BlockPinged
  <2>2. Acked \in Nat /\ Acked + SEND_WINDOW <= outSequence
    BY <1>2 DEF FlowInv, WindowKept, InOrder, Acked
  <2>3. s \in Nat /\ outSequence < s + BLOCK_SIZE
    BY <2>1, <2>2, SameBlock DEF Block
  <2> QED
    BY <2>1, <2>2, <2>3
<1> QED
  BY <1>1, <1>2 DEF NoStall

-----------------------------------------------------------------------------
(* Type correctness of flow control, for every block size and window.      *)
THEOREM FlowTypeCorrect == Spec => []TypeOK
<1>1. Init => TypeOK
  BY FlowInit
<1> QED
  BY <1>1, FlowType, PTL DEF Spec

(* The window invariant holds in every state: acknowledgements, pongs and  *)
(* pings stay in order and cover the block of the last byte sent.          *)
THEOREM FlowInvariant == Spec => []FlowInv
BY FlowInit, FlowType, FlowStep, PTL DEF Spec

(* A writer blocked in AsyncChannel.write() always has a ping or pong on   *)
(* its way that will let it proceed, whatever the sizes of its frames.     *)
THEOREM WriterNeverStalls == Spec => []NoStall
BY FlowInit, FlowType, FlowStep, FlowImplies, PTL DEF Spec

(* With flow control, the client is never more than a window and one frame *)
(* behind.                                                                 *)
THEOREM BacklogBounded == Spec => []Backpressure
BY FlowInit, FlowType, FlowStep, FlowImplies, PTL DEF Spec
=============================================================================
