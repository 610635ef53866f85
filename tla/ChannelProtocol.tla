-------------------------- MODULE ChannelProtocol ---------------------------
(***************************************************************************)
(* What a client of the bridge may rely on (src/doc/protocol.md): of each  *)
(* channel it opens, the messages come in the order "ready", "done",       *)
(* "close", each at most once, and nothing comes after "close".  One       *)
(* message is written at a time, except that channels may close together.  *)
(***************************************************************************)
EXTENDS Naturals

CONSTANT Channels

VARIABLES
    view,   \* how far each channel has come, as the client sees it
    stray   \* channels with a message after their close

Rank(v) == CASE v = "unused" -> 0 [] v = "open" -> 1 [] v = "ready" -> 2
             [] v = "done" -> 3 [] v = "closed" -> 4

Init == view = [c \in Channels |-> "unused"] /\ stray = {}

(* A channel that is ready inside its "open" goes from unused to ready.    *)
Advance(c, v) ==
    /\ Rank(v) > Rank(view[c])
    /\ v = "done" => view[c] # "unused"
    /\ view' = [view EXCEPT ![c] = v]
    /\ UNCHANGED stray

CloseTogether(S) ==
    /\ \A c \in S : view[c] \notin {"unused", "closed"}
    /\ view' = [c \in Channels |-> IF c \in S THEN "closed" ELSE view[c]]
    /\ UNCHANGED stray

Next ==
    \/ \E c \in Channels, v \in {"open", "ready", "done", "closed"} : Advance(c, v)
    \/ \E S \in SUBSET Channels : CloseTogether(S)

Spec == Init /\ [][Next]_<<view, stray>>
=============================================================================
