-------------------------------- MODULE Metrics --------------------------------
(***************************************************************************)
(* The metrics channels of the C bridge (src/src/bridge/cockpitmetrics.c,  *)
(* cockpitinternalmetrics.c).  At every tick of a metronome samples are    *)
(* taken; when the instances of a metric have come or gone a "meta"        *)
(* message tells the new layout.  Values are interpolated to the points in *)
(* time the interval prescribes, a difference or rate is taken from the    *)
(* previous value of the same instance, and only what changed is sent.     *)
(*                                                                         *)
(* There are two metrics: one without and one with instances.  The unit of *)
(* time is the interval, of one millisecond.  Values are multiples of a    *)
(* power of two, so that interpolation stays exact.                        *)
(***************************************************************************)
EXTENDS Integers, FiniteSets, SequencesExt

CONSTANTS
    Insts,     \* names of instances
    Omit,      \* the "omit-instances" option
    Values,    \* values that are sampled
    MaxTicks,  \* bound on the ticks
    Derives,   \* the "derive" options: "none", "delta", "rate", or another
    Lags,      \* by how many intervals a sample may come after the last point
    Batching   \* points in time may be gathered in one message

(* What an instance has to satisfy.                                       *)
MetricsAssumption == Omit \subseteq Insts /\ Values \subseteq Nat /\ Lags \subseteq Int

VARIABLES
    m,       \* the channel
    buf,     \* its buffers
    client,  \* what the client was told
    ref      \* values by instance: the last, and what they ought to give

vars == <<m, buf, client, ref>>

NAN == -1000000   \* sent as false
INF == 1000000
NULL == -2000000  \* the same as before

Init ==
    /\ \E d \in Derives :
          m = [at |-> "new", derive |-> d, table |-> {}, need |-> FALSE, timeout |-> FALSE,
               ticks |-> 0, wild |-> FALSE]
    /\ buf = [next |-> <<>>, last |-> <<>>, nextOne |-> NAN, lastOne |-> NAN,
              derived |-> <<>>, derivedOne |-> NAN, valid |-> FALSE,
              nextMeta |-> <<>>, lastMeta |-> <<>>, same |-> FALSE, reset |-> TRUE,
              there |-> FALSE, message |-> <<>>]
    /\ client = [meta |-> <<>>, one |-> NAN, many |-> <<>>, wrong |-> FALSE]
    /\ ref = [vals |-> [i \in {} |-> 0], one |-> NAN, many |-> [i \in {} |-> 0], oneOut |-> NAN, fresh |-> TRUE]

Orders(S) == {s \in [1..Cardinality(S) -> S] : ToSet(s) = S}

(***************************************************************************)
(* What the client makes of a message.  What the message stands for goes   *)
(* with it, so that a point in time that is decoded to something else is   *)
(* seen.                                                                   *)
(***************************************************************************)
Decode(cl, msg) ==
    LET At(d, old, i) == IF i <= Len(d) /\ d[i] # NULL THEN d[i] ELSE IF i <= Len(old) THEN old[i] ELSE NAN
        one == IF msg.one # NULL THEN msg.one ELSE cl.one
        many == [i \in 1..Len(cl.meta) |-> At(msg.many, cl.many, i)]
    IN [cl EXCEPT !.one = one, !.many = many,
                  !.wrong = @ \/ one # msg.is.one \/ cl.meta # msg.is.meta \/ many # msg.is.many]

DecodeAll(cl, msgs) == FoldLeft(Decode, cl, msgs)

(***************************************************************************)
(* Layout                                                                  *)
(***************************************************************************)
\* update_for_meta(): new buffers, whose content is not valid.
UpdateForMeta(b, order) ==
    [b EXCEPT !.nextMeta = order, !.same = FALSE, !.there = TRUE, !.valid = FALSE,
              !.next = [i \in DOMAIN order |-> NAN], !.derived = [i \in DOMAIN order |-> NAN]]

Supported(d) == d \in {"none", "delta", "rate"}

\* cockpit_metrics_send_meta(): what was gathered goes first.
SendMeta(b, cl, order) ==
    [b |-> [UpdateForMeta(b, order) EXCEPT !.message = <<>>],
     cl |-> [DecodeAll(cl, b.message) EXCEPT !.meta = order]]

(***************************************************************************)
(* Values                                                                  *)
(***************************************************************************)
\* A mutant of FindLastInstance: the index is the same as before.
FindLastIndex(b, i) == IF b.reset \/ i > Len(b.last) THEN 0 ELSE i

\* find_last_instance(): 0 if there is none.
FindLastInstance(b, i) ==
    IF b.reset THEN 0
    ELSE IF b.same THEN i
    ELSE LET at == {k \in DOMAIN b.lastMeta : b.lastMeta[k] = b.nextMeta[i]}
         IN IF at = {} THEN 0 ELSE CHOOSE k \in at : TRUE

Interpolate(last, val, lag) ==
    IF last = NAN \/ val = NAN \/ lag <= 1 THEN val ELSE (last * (lag - 1) + val) \div lag

\* The difference or the rate, per second; points in time are dt apart.
Derive(d, val, last, dt) ==
    CASE d = "none" -> val
      [] d # "none" /\ (last = NAN \/ val = NAN) -> NAN
      [] d = "delta" /\ last # NAN /\ val # NAN -> val - last
      [] OTHER -> IF dt # 0 THEN ((val - last) * 1000) \div dt
                  ELSE IF val = last THEN NAN ELSE INF

\* compute_and_maybe_push_value(): what is the same is not sent, and NaN is
\* never the same.
Pushed(b, i, last, val, old) == i # last \/ ~b.valid \/ val # old \/ val = NAN

\* push_array_at(): nothing follows the last value that is sent.
Trimmed(s) ==
    LET sent == {i \in DOMAIN s : s[i] # NULL}
    IN IF sent = {} THEN <<>> ELSE SubSeq(s, 1, CHOOSE i \in sent : \A j \in sent : j <= i)

\* cockpit_metrics_send_data(): the point in time, the values, and the buffers
\* for the next round.
SendData(b, d, lag) ==
    LET dt == IF b.reset \/ lag > 0 THEN 1 ELSE lag
        LastOf(i) == FindLastInstance(b, i)
        LastVal(i) == IF LastOf(i) = 0 THEN NAN ELSE b.last[LastOf(i)]
        vals == [i \in DOMAIN b.next |-> Interpolate(LastVal(i), b.next[i], lag)]
        outs == [i \in DOMAIN b.next |-> Derive(d, vals[i], LastVal(i), dt)]
        lastOne == IF b.reset THEN NAN ELSE b.lastOne
        one == Interpolate(lastOne, b.nextOne, lag)
        outOne == Derive(d, one, lastOne, dt)
        msg == [one |-> IF Pushed(b, 1, IF b.reset THEN 0 ELSE 1, outOne, b.derivedOne) THEN outOne ELSE NULL,
                many |-> Trimmed([i \in DOMAIN outs |->
                            IF Pushed(b, i, LastOf(i), outs[i], b.derived[i]) THEN outs[i] ELSE NULL]),
                is |-> [meta |-> b.nextMeta, one |-> outOne, many |-> outs]]
    IN [b EXCEPT !.message = Append(@, msg), !.derived = outs, !.derivedOne = outOne, !.valid = TRUE,
                 !.last = vals, !.lastOne = one, !.lastMeta = b.nextMeta, !.same = TRUE, !.reset = FALSE]

(***************************************************************************)
(* The channel                                                             *)
(***************************************************************************)
\* cockpit_internal_metrics_prepare(): the first tick follows at once.
Prepare ==
    /\ m.at = "new"
    /\ \/ m' = [m EXCEPT !.at = "first", !.need = TRUE, !.timeout = TRUE]
       \/ m' = [m EXCEPT !.at = "closed"]
    /\ UNCHANGED <<buf, client, ref>>

\* cockpit_internal_metrics_sample() adds, and those not seen are removed.
Instances(t, sampled) == sampled \ Omit

\* cockpit_internal_metrics_tick() with a supported derivation.  The order of
\* a hash table may be another one each time.
TickSends(one, sample, lag, order, flush) ==
    LET table == Instances(m.table, DOMAIN sample)
        need == m.need \/ table # m.table
        laid == IF need THEN SendMeta(buf, client, order) ELSE [b |-> buf, cl |-> client]
        filled == [laid.b EXCEPT !.nextOne = one,
                     !.next = [i \in DOMAIN laid.b.nextMeta |->
                                 IF laid.b.nextMeta[i] \in DOMAIN sample THEN sample[laid.b.nextMeta[i]] ELSE NAN]]
        sent == SendData(filled, m.derive, lag)
    IN /\ (need => order \in Orders(table)) /\ (~need => order = buf.nextMeta)
       /\ m' = [m EXCEPT !.table = table, !.need = FALSE, !.ticks = @ + 1, !.timeout = TRUE, !.at = "open"]
       /\ buf' = IF flush THEN [sent EXCEPT !.message = <<>>] ELSE sent
       /\ client' = IF flush THEN DecodeAll(laid.cl, sent.message) ELSE laid.cl
       /\ LET seen == (DOMAIN sample) \ Omit
              Old(i) == IF i \in DOMAIN ref.vals THEN ref.vals[i] ELSE NAN
              dt == IF ref.fresh \/ lag > 0 THEN 1 ELSE lag
              New(i) == Interpolate(Old(i), sample[i], lag)
              one2 == Interpolate(ref.one, one, lag)
          IN ref' = [vals |-> [i \in seen |-> New(i)], one |-> one2, fresh |-> FALSE,
                     many |-> [i \in seen |-> IF m.derive # "none" /\ Old(i) = NAN THEN NAN
                                              ELSE IF m.derive = "none" THEN New(i)
                                              ELSE IF m.derive = "delta" THEN New(i) - Old(i)
                                              ELSE IF dt = 0 THEN IF New(i) = Old(i) THEN NAN ELSE INF
                                              ELSE ((New(i) - Old(i)) * 1000) \div dt],
                     oneOut |-> IF m.derive = "none" THEN one2
                                ELSE IF ref.one = NAN \/ one2 = NAN THEN NAN
                                ELSE IF m.derive = "delta" THEN one2 - ref.one
                                ELSE IF dt = 0 THEN IF one2 = ref.one THEN NAN ELSE INF
                                ELSE ((one2 - ref.one) * 1000) \div dt]

\* The same with another derivation: update_for_meta() closes the channel and
\* makes no buffers, the samples are written nevertheless (wild: through null
\* pointers, which ends the process on most machines), and if that goes well
\* so does the metronome.
TickFails ==
    /\ m' = [m EXCEPT !.at = "closed", !.ticks = @ + 1, !.timeout = TRUE, !.wild = ~buf.there]
    /\ UNCHANGED <<buf, client, ref>>

\* on_timeout_tick()
Tick ==
    /\ m.timeout /\ m.ticks < MaxTicks
    /\ IF Supported(m.derive)
       THEN /\ m.at \in {"first", "open"}
            /\ \E S \in SUBSET Insts, one \in Values \cup {NAN}, lag \in Lags,
                  flush \in IF Batching THEN BOOLEAN ELSE {TRUE} :
                  \E sample \in [S -> Values], order \in Orders(S) \cup Orders(S \ Omit) \cup {buf.nextMeta} :
                     TickSends(one, sample, lag, order, flush)
       ELSE TickFails

\* cockpit_metrics_close(): by the client, the transport, or because of a
\* message, which is not expected.
Close == m' = [m EXCEPT !.at = "closed", !.timeout = FALSE]

Closes == m.at = "open" /\ Close /\ UNCHANGED <<buf, client, ref>>

Next == Prepare \/ Tick \/ Closes

Spec == Init /\ [][Next]_vars

(***************************************************************************)
(* Properties                                                              *)
(***************************************************************************)
Told == m.at = "open" /\ buf.there /\ buf.message = <<>>

\* The state has its type, and buffers have the layout of the last "meta".
TypeOK ==
    /\ m.at \in {"new", "first", "open", "closed"} /\ m.table \subseteq Insts \ Omit
    /\ Len(buf.derived) = Len(buf.nextMeta) /\ Len(buf.last) = Len(buf.lastMeta)
    /\ buf.there => ToSet(buf.nextMeta) = m.table

\* The client decodes every point in time to what was derived for it: nothing
\* is left out that it could not know, and no point in time is read under
\* another layout, whatever came and went.
DecodeExact == ~client.wrong

\* What is derived for an instance is taken from its own last value, wherever
\* that was in the last layout, and from none if it was not there.  A rate is
\* per second.
DerivedTrue ==
    Told => /\ buf.derivedOne = ref.oneOut
            /\ \A i \in DOMAIN buf.nextMeta : buf.derived[i] = ref.many[buf.nextMeta[i]]

\* The client knows the instances, and the values are in their order.
LayoutTold == Told => client.meta = buf.nextMeta /\ ToSet(client.meta) = DOMAIN ref.many

\* The metronome runs as long as the channel is open, and no longer, except
\* for a derivation that is not supported: it is found out at the first tick,
\* which samples and goes on although the channel is closed.
TicksWhileOpen ==
    IF m.wild THEN m.at = "closed" /\ ~Supported(m.derive) /\ client.meta = <<>>
    ELSE m.timeout <=> m.at \in {"first", "open"}

=============================================================================
