---------------------------- MODULE HealthHistory ----------------------------
(***************************************************************************)
(* The backend health gauges of control-topology: one shared history of    *)
(* the b_status and ping series, written by the probes of several          *)
(* observers (the dynamic source and each static namespace) and trimmed by *)
(* each observer's own retention clock.  A dial takes its sequence when it *)
(* returns and reaches the history later, so observations arrive out of    *)
(* order and after the series they belong to was retired.  The retained    *)
(* maps are bounded; what does not fit is shed.                            *)
(***************************************************************************)
EXTENDS Integers, FiniteSets, TLC, Functions, FiniteSetsExt

CONSTANTS
    Observers,     \* the health loops that share the history
    Addresses,     \* the addresses they watch
    WatchedSets,   \* the sets of addresses a source of theirs may hold
    MaxDials,      \* dials made (DIAL_SEQUENCE)
    Capacity       \* MAX_RETAINED_BACKENDS

ASSUME HistoryAssumption ==
    /\ IsFiniteSet(Addresses) /\ WatchedSets \subseteq SUBSET Addresses
    /\ MaxDials \in Nat /\ Capacity \in Nat \ {0}

VARIABLES
    sequence,   \* the next dial sequence of the process
    dialling,   \* per observer: dials that have returned and are not written
    ping,       \* address -> sequence of the dial the series shows
    status,     \* address -> healthy
    retired,    \* retired_above: address -> highest sequence it had reached
    floor,      \* retired_above_floor, -1 for none
    current,    \* per observer: address -> healthy, the last applied round
    down,       \* per observer: address -> "running" or "expired" timer
    shown       \* history: the highest sequence each address ever showed

historyVars == <<sequence, dialling, ping, status, retired, floor, current, down,
          shown>>

None == -1
Empty == [a \in {} |-> 0]

HistoryInit ==
    /\ sequence = 0
    /\ dialling = [o \in Observers |-> {}]
    /\ ping = Empty /\ status = Empty /\ retired = Empty
    /\ floor = None
    /\ current = [o \in Observers |-> Empty]
    /\ down = [o \in Observers |-> Empty]
    /\ shown = [a \in Addresses |-> None]

Overwrite(f, as, value) == [a \in DOMAIN f \cup as |-> IF a \in as THEN value ELSE f[a]]
Without(f, a) == Restrict(f, DOMAIN f \ {a})
Full(f) == Cardinality(DOMAIN f) >= Capacity
Value(f, a) == IF a \in DOMAIN f THEN f[a] ELSE None

-----------------------------------------------------------------------------
\* The connect of a probe returns: the dial takes its place in the order.
DialReturns(o, a) ==
    /\ sequence < MaxDials
    /\ sequence' = sequence + 1
    /\ dialling' = [dialling EXCEPT
                      ![o] = @ \cup {[address |-> a, seq |-> sequence]}]
    /\ UNCHANGED <<ping, status, retired, floor, current, down, shown>>

\* The sequence an address without a series must exceed.
Watermark(a) == Max({Value(retired, a), floor})

\* What observe_dial does to the series of an address: nothing for an older
\* dial, nothing when a new series does not fit.
observe_dial(a, seq) ==
    IF a \in DOMAIN ping
    THEN /\ ping' = [ping EXCEPT ![a] = Max({@, seq})]
         /\ UNCHANGED retired
    ELSE IF seq <= Watermark(a) \/ Full(ping)
         THEN UNCHANGED <<ping, retired>>
         ELSE /\ ping' = Overwrite(ping, {a}, seq)
              /\ retired' = Without(retired, a)

\* The dial reaches the history, under the gate of a live source.
PublishDial(o) ==
    \E d \in dialling[o] :
        /\ dialling' = [dialling EXCEPT ![o] = @ \ {d}]
        /\ observe_dial(d.address, d.seq)
        /\ shown' = [shown EXCEPT ![d.address] = Max({@, Value(ping', d.address)})]
        /\ UNCHANGED <<sequence, status, floor, current, down>>

\* The source was superseded: its gate refuses the write.
RefuseDial(o) ==
    \E d \in dialling[o] :
        /\ dialling' = [dialling EXCEPT ![o] = @ \ {d}]
        /\ UNCHANGED <<sequence, ping, status, retired, floor, current, down,
                       shown>>

\* set_status for every address of a set: a new series needs a place, so of the
\* new ones only as many as fit are written, whichever come first.
set_status(addresses, before) ==
    LET new == addresses \ DOMAIN before
        places == Min({Cardinality(new), Capacity - Cardinality(DOMAIN before)})
    IN  {addresses \ (new \ admitted) : admitted \in
            {s \in SUBSET new : Cardinality(s) = places}}

\* (mutant) A recovery leaves the retention clock running.
RecoveryKeepsTimer(timers, rising) == timers

Recovered(timers, rising) == Restrict(timers, DOMAIN timers \ rising)

\* apply_round: the addresses that turn healthy are written and lose their
\* timer, those that were healthy and are now unhealthy or absent are written
\* and start one; the rest is left alone.
Rising(o, verdict) ==
    {a \in DOMAIN verdict : verdict[a] /\ ~(a \in DOMAIN current[o] /\ current[o][a])}
Falling(o, verdict) ==
    {a \in DOMAIN current[o] : current[o][a] /\ ~(a \in DOMAIN verdict /\ verdict[a])}

apply_round(o, verdict) ==
    \E up \in set_status(Rising(o, verdict), status) :
        LET risen == Overwrite(status, up, TRUE)
        IN  \E fall \in set_status(Falling(o, verdict), risen) :
              /\ status' = Overwrite(risen, fall, FALSE)
              /\ down' = [down EXCEPT ![o] =
                            Overwrite(Recovered(@, Rising(o, verdict)),
                                      Falling(o, verdict), "running")]
              /\ current' = [current EXCEPT ![o] = verdict]
              /\ UNCHANGED <<sequence, dialling, ping, retired, floor, shown>>

\* A round is applied, and a purge is made, when the probes of the round have
\* all been joined; the probes of the other observers go on.
Quiet(o) == dialling[o] = {}

Round(o) ==
    /\ Quiet(o)
    /\ \E as \in WatchedSets : \E verdict \in [as -> BOOLEAN] :
         apply_round(o, verdict)

\* The retention of a backend that is down runs out.
Expire(o) ==
    /\ \E a \in DOMAIN down[o] :
         /\ down[o][a] = "running"
         /\ down' = [down EXCEPT ![o][a] = "expired"]
    /\ UNCHANGED <<sequence, dialling, ping, status, retired, floor, current,
                   shown>>

\* (mutant) A watermark that has no place of its own is dropped.
ForgetDropping(a) ==
    /\ status' = Without(status, a)
    /\ ping' = Without(ping, a)
    /\ retired' = IF a \in DOMAIN ping /\ (~Full(retired) \/ a \in DOMAIN retired)
                  THEN Overwrite(retired, {a}, Max({Value(retired, a), ping[a]}))
                  ELSE retired
    /\ UNCHANGED floor

\* forget_backend: the series go, the sequence the ping had reached stays as a
\* watermark of the address, or of all when the map is full.
forget_backend(a) ==
    /\ status' = Without(status, a)
    /\ ping' = Without(ping, a)
    /\ IF a \notin DOMAIN ping
       THEN UNCHANGED <<retired, floor>>
       ELSE IF Full(retired) /\ a \notin DOMAIN retired
            THEN floor' = Max({floor, ping[a]}) /\ UNCHANGED retired
            ELSE /\ retired' = Overwrite(retired, {a}, Max({Value(retired, a), ping[a]}))
                 /\ UNCHANGED floor

\* The purge of an observer retires an address whose clock ran out.
Purge(o) ==
    \E a \in DOMAIN down[o] :
        /\ Quiet(o)
        /\ down[o][a] = "expired"
        /\ forget_backend(a)
        /\ down' = [down EXCEPT ![o] = Without(@, a)]
        /\ UNCHANGED <<sequence, dialling, current, shown>>

HistoryNext ==
    \E o \in Observers :
        \/ \E a \in Addresses : DialReturns(o, a)
        \/ PublishDial(o) \/ RefuseDial(o)
        \/ Round(o) \/ Expire(o) \/ Purge(o)

\* The observers are alike, and so are the addresses.
Symmetry == Permutations(Observers) \cup Permutations(Addresses)

HistorySpec == HistoryInit /\ [][HistoryNext]_historyVars

-----------------------------------------------------------------------------
Timers == {"running", "expired"}
Dials == 0..MaxDials

\* f gives values to some of the addresses.
Partial(f, values) == DOMAIN f \subseteq Addresses /\ f \in [DOMAIN f -> values]

\* Every variable has its shape.
HistoryTypes ==
    /\ sequence \in Dials
    /\ dialling \in [Observers -> SUBSET [address : Addresses, seq : Dials]]
    /\ \A o \in Observers :
         /\ Partial(current[o], BOOLEAN)
         /\ Partial(down[o], Timers)
    /\ Partial(ping, Dials) /\ Partial(status, BOOLEAN)
    /\ Partial(retired, Dials)
    /\ floor \in -1..MaxDials
    /\ shown \in [Addresses -> -1..MaxDials]

\* The retained maps keep their bound however many addresses come and go.
RetentionIsBounded ==
    \A f \in {DOMAIN ping, DOMAIN status, DOMAIN retired} :
        Cardinality(f) <= Capacity

\* A ping series never goes back: what it shows is newer than anything the
\* address ever showed, across retirements, out-of-order arrivals and
\* watermarks that lost their place.
PingNeverGoesBack ==
    [][\A a \in DOMAIN ping' :
         (a \notin DOMAIN ping \/ ping'[a] # ping[a]) => ping'[a] > shown[a]]_historyVars

\* An observer's retention clock runs only while that observer does not see
\* the backend healthy, so no observer retires the series of a backend it has
\* seen recover.
ClocksStopOnRecovery ==
    \A o \in Observers : \A a \in DOMAIN down[o] :
        ~(a \in DOMAIN current[o] /\ current[o][a])

\* What the gauges retain is consistent: RetentionIsBounded and
\* ClocksStopOnRecovery hold, in states of the right type.
HistoryConsistent == HistoryTypes /\ RetentionIsBounded /\ ClocksStopOnRecovery
=============================================================================
