------------------------------ MODULE Admission ------------------------------
(***************************************************************************)
(* Admission of frontend connections: the listeners of the SQL server      *)
(* accept sockets side by side, one admission controller shared by all     *)
(* decides under its lock, the registry names what was admitted, and each  *)
(* session owns a lease that gives both back when its task ends, however   *)
(* it ends.  The limits are reloaded meanwhile, a listener keeps the       *)
(* snapshot it captured, and the shutdown runs in two phases (stop         *)
(* accepting, then force) with bounded waits in the listeners and in the   *)
(* server.                                                                 *)
(***************************************************************************)
EXTENDS Integers, FiniteSets, FiniteSetsExt

CONSTANTS
    Listeners,    \* the bound SQL listeners, numbered
    Conns,        \* places for sockets, numbered; a place is used again
    Instances     \* the bounds a behaviour may run under

Policy == [max : Nat, threshold : Nat, buffer : Nat, listeners : STRING]

Bounds == [
    listeners : SUBSET Listeners, conns : SUBSET Conns,  \* those that are used
    policies : SUBSET Policy,    \* what a snapshot may say; max 0 is no limit,
                                 \* threshold 0 no memory check
    graces : SUBSET BOOLEAN,     \* TRUE: force_join_grace is not zero
    id : Nat \ {0},              \* the greatest connection id (u64::MAX)
    used : SUBSET Nat,           \* bytes a memory reading may report
    refresh : Nat \ {0}, expiry : Nat,  \* SYSTEM_MEMORY_REFRESH and _EXPIRY
    time : Nat,                  \* bound of the clock
    stops : BOOLEAN,             \* the process may be shut down
    live : BOOLEAN]              \* the tasks are scheduled fairly

ASSUME PlacesAssumption == Listeners \cup Conns \subseteq Nat /\ IsFiniteSet(Conns)
ASSUME InstancesAssumption == Instances # {} /\ Instances \subseteq Bounds

VARIABLES
    snapshot,    \* the policy new connections are admitted under
    draining, shutdown,  \* the two watches of the handle
    listener,    \* per listener [pc, snap, conn, cancelled]
    conn,        \* per place [phase, bytes, id, owner, aborted, max]
    active, bytes,       \* AdmissionState: permits and reserved bytes
    sampledAt, baseline, \* AdmissionState: the observation used, and the
                         \* reservation when it was first used
    nextId,      \* the next connection id
    registry,    \* id -> place
    server,      \* the loop of DataplaneServer::run
    grace,       \* whether forced tasks get time to finish
    now,         \* clock
    cache,       \* SystemMemoryCache: [at, used, attempt]
    ahead,       \* history: per place, those admitted before it that are still there
    seen,        \* history: reservation when the cached reading was made
    bounds,      \* the bounds of this behaviour
    blind        \* history: [unchecked, fresh]: an admission since that reading
                 \* skipped the check; one did so with a usable reading

admission == <<active, bytes, sampledAt, baseline, cache, ahead, seen, blind>>
vars == <<snapshot, draining, shutdown, listener, conn, active, bytes,
          sampledAt, baseline, nextId, registry, server, grace, now, cache,
          ahead, seen, blind, bounds>>

Never == -1
NoPolicy == [max |-> 0, threshold |-> 0, buffer |-> 0, listeners |-> "none"]
Free == [phase |-> "free", bytes |-> 0, id |-> 0, owner |-> Never,
         aborted |-> FALSE, max |-> 0]
Idle == [pc |-> "accept", snap |-> NoPolicy, conn |-> Never, cancelled |-> FALSE]

Init ==
    /\ bounds \in Instances
    /\ snapshot \in bounds.policies /\ grace \in bounds.graces
    /\ draining = FALSE /\ shutdown = FALSE
    /\ listener = [l \in Listeners |-> Idle]
    /\ conn = [c \in Conns |-> Free]
    /\ active = 0 /\ bytes = 0 /\ sampledAt = Never /\ baseline = 0
    /\ nextId = 1 /\ registry = [i \in {} |-> 0]
    /\ server = "running"
    /\ now = 0 /\ cache = [at |-> Never, used |-> 0, attempt |-> Never]
    /\ ahead = [c \in Conns |-> {}] /\ seen = 0
    /\ blind = [unchecked |-> FALSE, fresh |-> FALSE]

Permits == {c \in Conns : conn[c].phase # "free"}
Sessions(l) == {c \in Conns : conn[c].owner = l}

-----------------------------------------------------------------------------
\* A reload publishes a policy for the connections accepted from then on; a
\* change of the listeners needs a restart and is refused.
update_snapshot ==
    \E p \in bounds.policies \ {snapshot} :
        /\ p.listeners = snapshot.listeners
        /\ snapshot' = p
        /\ UNCHANGED <<draining, shutdown, listener, conn, admission, nextId,
                       registry, server, grace, now, bounds>>

Unused == {c \in bounds.conns :
             conn[c] = Free /\ \A l \in Listeners : listener[l].conn # c}

\* accept() hands over a socket, and the snapshot of that moment is captured.
Accept(l) ==
    /\ listener[l].pc = "accept" /\ ~listener[l].cancelled
    /\ ~shutdown /\ ~draining
    /\ Unused # {}
    /\ listener' = [listener EXCEPT ![l] =
        [pc |-> "captured", snap |-> snapshot, conn |-> Min(Unused), cancelled |-> FALSE]]
    /\ UNCHANGED <<snapshot, draining, shutdown, conn, admission, nextId,
                   registry, server, grace, now, bounds>>

\* accept() fails: the listener sleeps, and only the force signal wakes it.
AcceptError(l) ==
    /\ listener[l].pc = "accept" /\ ~listener[l].cancelled
    /\ ~shutdown /\ ~draining
    /\ listener' = [listener EXCEPT ![l].pc = "backoff"]
    /\ UNCHANGED <<snapshot, draining, shutdown, conn, admission, nextId,
                   registry, server, grace, now, bounds>>

BackoffEnds(l) ==
    /\ listener[l].pc = "backoff" /\ ~listener[l].cancelled
    /\ listener' = [listener EXCEPT ![l].pc = IF shutdown THEN "drain" ELSE "accept"]
    /\ UNCHANGED <<snapshot, draining, shutdown, conn, admission, nextId,
                   registry, server, grace, now, bounds>>

-----------------------------------------------------------------------------
\* What SystemMemoryProbe::sample can answer now: the cache afterwards, and
\* whether it holds a usable reading.
Usable(k) == k.at # Never /\ now - k.at <= bounds.expiry

Samples ==
    IF cache.at # Never /\ now - cache.at < bounds.refresh
    THEN {[cache |-> cache, ok |-> TRUE]}
    ELSE IF cache.attempt # Never /\ now - cache.attempt < bounds.refresh
    THEN {[cache |-> cache, ok |-> Usable(cache)]}
    ELSE {[cache |-> [at |-> now, used |-> u, attempt |-> now], ok |-> TRUE] : u \in bounds.used}
         \cup {[cache |-> [cache EXCEPT !.attempt = now], ok |-> Usable(cache)]}

\* (mutant) Every decision starts a new baseline.
BaselineAlways(k) == bytes

\* The baseline of the change in reservations: kept while the reading is.
Baseline(k) == IF sampledAt # k.at THEN bytes ELSE baseline

\* The reading, corrected by what was reserved and released since.
EffectiveUsed(k) == Max({0, k.used + bytes - Baseline(k)})

\* (mutant) The limit is compared with the connections registered so far.
RegisteredFull(p) == p.max # 0 /\ Cardinality(DOMAIN registry) >= p.max

Full(p) == p.max # 0 /\ active >= p.max

\* The listener has no socket in hand and goes on accepting.
Accepting(l) ==
    listener' = [listener EXCEPT ![l] =
        [pc |-> "accept", snap |-> NoPolicy, conn |-> Never, cancelled |-> listener[l].cancelled]]

Reject(l) == Accepting(l) /\ UNCHANGED <<active, bytes, conn, ahead, blind>>

Admit(l, unchecked, wasUsable) ==
    LET p == listener[l].snap
        c == listener[l].conn
    IN  /\ active' = active + 1
        /\ bytes' = bytes + 2 * p.buffer
        /\ conn' = [conn EXCEPT ![c] =
             [phase |-> "permit", bytes |-> 2 * p.buffer, id |-> 0, owner |-> Never,
              aborted |-> FALSE, max |-> p.max]]
        /\ ahead' = [ahead EXCEPT ![c] = Permits]
        /\ listener' = [listener EXCEPT ![l].pc = "admitted"]
        /\ blind' = [unchecked |-> unchecked \/ (blind.unchecked /\ cache'.at = cache.at),
                     fresh |-> blind.fresh \/ (p.threshold # 0 /\ unchecked /\ wasUsable)]

\* try_acquire, under the lock of the controller: the memory check, then the
\* limit, then both gauges.
TryAcquire(l) ==
    LET p == listener[l].snap IN
    /\ listener[l].pc = "captured"
    /\ \/ /\ p.threshold = 0
          /\ IF Full(p) THEN Reject(l) ELSE Admit(l, TRUE, FALSE)
          /\ UNCHANGED <<cache, sampledAt, baseline, seen>>
       \/ /\ p.threshold # 0
          /\ \E s \in Samples :
               /\ cache' = s.cache
               /\ seen' = IF s.cache.at # cache.at THEN bytes ELSE seen
               /\ sampledAt' = IF s.ok THEN s.cache.at ELSE sampledAt
               /\ baseline' = IF s.ok THEN Baseline(s.cache) ELSE baseline
               /\ IF (s.ok /\ EffectiveUsed(s.cache) >= p.threshold) \/ Full(p)
                  THEN Reject(l) ELSE Admit(l, ~s.ok, Usable(cache))
    /\ UNCHANGED <<snapshot, draining, shutdown, nextId, registry, server, grace, now, bounds>>

\* Drop of the permit.
ReleasePermit(c) ==
    /\ active' = Max({0, active - 1})
    /\ bytes' = Max({0, bytes - conn[c].bytes})
    /\ ahead' = [d \in Conns |-> IF d = c THEN {} ELSE ahead[d] \ {c}]

\* The socket options cannot be set, or no id is left: the permit is dropped.
PrepareFails(l) ==
    /\ listener[l].pc = "admitted"
    /\ ReleasePermit(listener[l].conn)
    /\ conn' = [conn EXCEPT ![listener[l].conn] = Free]
    /\ Accepting(l)
    /\ UNCHANGED <<snapshot, draining, shutdown, sampledAt, baseline, cache, seen, blind,
                   nextId, registry, server, grace, now, bounds>>

\* allocate_id: the counter never wraps, its last value is never handed out.
AllocateId == nextId < bounds.id /\ nextId' = nextId + 1

\* The registry names the connection and its task is spawned.
Register(l) ==
    LET c == listener[l].conn IN
    /\ listener[l].pc = "admitted"
    /\ AllocateId
    /\ registry' = [i \in DOMAIN registry \cup {nextId} |->
                      IF i = nextId THEN c ELSE registry[i]]
    /\ conn' = [conn EXCEPT ![c].phase = "live", ![c].id = nextId, ![c].owner = l]
    /\ Accepting(l)
    /\ UNCHANGED <<snapshot, draining, shutdown, admission, server, grace, now, bounds>>

-----------------------------------------------------------------------------
\* A session's task returns, panics or is dropped by an abort: the lease
\* leaves the registry first, and then the permit is released.
SessionEnds(c) ==
    /\ conn[c].phase = "live"
    /\ registry' = [i \in DOMAIN registry \ {conn[c].id} |-> registry[i]]
    /\ conn' = [conn EXCEPT ![c].phase = "leaving"]
    /\ UNCHANGED <<snapshot, draining, shutdown, listener, admission, nextId,
                   server, grace, now, bounds>>

LeaseDropped(c) ==
    /\ conn[c].phase = "leaving"
    /\ ReleasePermit(c)
    /\ conn' = [conn EXCEPT ![c] = Free]
    /\ UNCHANGED <<snapshot, draining, shutdown, listener, sampledAt, baseline,
                   cache, seen, blind, nextId, registry, server, grace, now, bounds>>

-----------------------------------------------------------------------------
stop_accepting ==
    /\ bounds.stops /\ ~draining
    /\ draining' = TRUE
    /\ UNCHANGED <<snapshot, shutdown, listener, conn, admission, nextId,
                   registry, server, grace, now, bounds>>

Shutdown ==
    /\ bounds.stops /\ ~shutdown
    /\ shutdown' = TRUE
    /\ UNCHANGED <<snapshot, draining, listener, conn, admission, nextId,
                   registry, server, grace, now, bounds>>

\* The owner of a closed listener stays until the force phase.
Forced(l) == shutdown

AbortSessions(l) ==
    conn' = [c \in Conns |-> IF conn[c].owner = l THEN [conn[c] EXCEPT !.aborted = TRUE]
                             ELSE conn[c]]

\* (mutant) The tasks are detached when their owner goes.
DetachSessions(l) == UNCHANGED conn

\* Dropping the JoinSet of a cancelled listener aborts its tasks.
DropSessions(l) == AbortSessions(l)

\* The listener leaves the accept loop, waits for the force phase, gives its
\* sessions the grace, aborts the rest and joins them.
CloseListener(l) ==
    /\ ~listener[l].cancelled
    /\ \/ /\ listener[l].pc = "accept" /\ (shutdown \/ draining)
          /\ listener' = [listener EXCEPT ![l].pc = "drain"]
          /\ UNCHANGED conn
       \/ /\ listener[l].pc = "drain" /\ Forced(l)
          /\ listener' = [listener EXCEPT ![l].pc = "join"]
          /\ UNCHANGED conn
       \/ /\ listener[l].pc = "join"      \* no grace, all gone, or the deadline
          /\ AbortSessions(l)
          /\ listener' = [listener EXCEPT ![l].pc = "abort"]
       \/ /\ listener[l].pc = "abort" /\ Sessions(l) = {}
          /\ listener' = [listener EXCEPT ![l].pc = "returned"]
          /\ UNCHANGED conn
    /\ UNCHANGED <<snapshot, draining, shutdown, admission, nextId, registry,
                   server, grace, now, bounds>>

\* The abort of the server reaches the listener at an await.
CancelListener(l) ==
    /\ listener[l].cancelled
    /\ listener[l].pc \in {"accept", "backoff", "drain", "join", "abort"}
    /\ listener' = [listener EXCEPT ![l].pc = "returned"]
    /\ DropSessions(l)
    /\ UNCHANGED <<snapshot, draining, shutdown, admission, nextId, registry,
                   server, grace, now, bounds>>

Returned == {l \in bounds.listeners : listener[l].pc = "returned"}

\* The loop of the server sees the signal or the end of a listener.
ServerWakes ==
    /\ server = "running"
    /\ shutdown \/ Returned # {}
    /\ server' = IF shutdown THEN IF grace THEN "grace" ELSE "abort" ELSE "failed"
    /\ shutdown' = TRUE
    /\ UNCHANGED <<snapshot, draining, listener, conn, admission, nextId,
                   registry, grace, now, bounds>>

\* The listeners were joined or the margin is over.
ServerAborts ==
    /\ server \in {"grace", "abort", "failed"}
    /\ server' = "joining"
    /\ listener' = [l \in Listeners |-> [listener[l] EXCEPT !.cancelled = TRUE]]
    /\ UNCHANGED <<snapshot, draining, shutdown, conn, admission, nextId,
                   registry, grace, now, bounds>>

ServerReturns ==
    /\ server = "joining" /\ Returned = bounds.listeners
    /\ server' = "returned"
    /\ UNCHANGED <<snapshot, draining, shutdown, listener, conn, admission,
                   nextId, registry, grace, now, bounds>>

Tick ==
    /\ now < bounds.time /\ now' = now + 1
    /\ UNCHANGED <<snapshot, draining, shutdown, listener, conn, admission,
                   nextId, registry, server, grace, bounds>>

ListenerNext(l) ==
    \/ Accept(l) \/ AcceptError(l) \/ BackoffEnds(l) \/ TryAcquire(l)
    \/ PrepareFails(l) \/ Register(l) \/ CloseListener(l) \/ CancelListener(l)

Next ==
    \/ update_snapshot \/ stop_accepting \/ Shutdown \/ Tick
    \/ ServerWakes \/ ServerAborts \/ ServerReturns
    \/ \E l \in bounds.listeners : ListenerNext(l)
    \/ \E c \in Conns : SessionEnds(c) \/ LeaseDropped(c)

Spec == Init /\ [][Next]_vars

\* Tasks that can run do run and sleeps end; a session has to end only once
\* it is aborted, and nothing makes anybody connect or shut down.
LiveSpec ==
    /\ Spec
    /\ \A l \in Listeners :
         /\ WF_vars(bounds.live /\ (TryAcquire(l) \/ PrepareFails(l) \/ Register(l)))
         /\ WF_vars(bounds.live /\ (BackoffEnds(l) \/ CloseListener(l) \/ CancelListener(l)))
    /\ WF_vars(bounds.live /\ (ServerWakes \/ ServerAborts \/ ServerReturns))
    /\ \A c \in Conns :
         WF_vars(bounds.live /\ ((conn[c].aborted /\ SessionEnds(c)) \/ LeaseDropped(c)))

-----------------------------------------------------------------------------
ListenerStates ==
    [pc : {"accept", "backoff", "captured", "admitted", "drain", "join", "abort", "returned"},
     snap : bounds.policies \cup {NoPolicy}, conn : Conns \cup {Never}, cancelled : BOOLEAN]
ConnStates ==
    [phase : {"free", "permit", "live", "leaving"}, bytes : Nat, id : 0..bounds.id,
     owner : Listeners \cup {Never}, aborted : BOOLEAN, max : Nat]

\* Every variable has its shape.
TypeOK ==
    /\ snapshot \in bounds.policies /\ grace \in bounds.graces
    /\ draining \in BOOLEAN /\ shutdown \in BOOLEAN
    /\ listener \in [Listeners -> ListenerStates]
    /\ conn \in [Conns -> ConnStates]
    /\ active \in Nat /\ bytes \in Nat /\ baseline \in Nat /\ seen \in Nat
    /\ sampledAt \in {Never} \cup 0..bounds.time /\ now \in 0..bounds.time
    /\ nextId \in 1..bounds.id /\ DOMAIN registry \subseteq 1..bounds.id
    /\ registry \in [DOMAIN registry -> Conns]
    /\ server \in {"running", "grace", "abort", "failed", "joining", "returned"}
    /\ ahead \in [Conns -> SUBSET Conns]
    /\ cache \in [at : {Never} \cup 0..bounds.time, used : Nat, attempt : {Never} \cup 0..bounds.time]
    /\ blind \in [unchecked : BOOLEAN, fresh : BOOLEAN] /\ bounds \in Bounds

\* The bytes that are reserved, one by one.
Reserved == UNION {{c} \X (1..conn[c].bytes) : c \in Permits}

\* The gauges count the permits that exist and the bytes those reserved when
\* they were admitted, through reloads of the buffer size, preparations that
\* fail half way, panics and aborts.
GaugesAreExact ==
    /\ active = Cardinality(Permits)
    /\ bytes = Cardinality(Reserved)

\* No connection was one too many: counting those admitted before it that are
\* still there, it fits in the limit its listener had captured, whatever the
\* limit was reloaded to and however many listeners decided at once.
SeatsFitTheirLimit ==
    \A c \in Permits : conn[c].max # 0 => Cardinality(ahead[c]) < conn[c].max

\* The registry names exactly the running sessions, each under its own id, also
\* when the ids run out.
RegistryIsExact ==
    /\ \A i \in DOMAIN registry : conn[registry[i]].phase = "live" /\ conn[registry[i]].id = i
    /\ \A c \in Conns : conn[c].phase = "live" =>
         conn[c].id \in DOMAIN registry /\ registry[conn[c].id] = c

\* Stopping to accept is graceful: until the force phase no session is aborted,
\* and the end of the last session is not taken for a failed listener.
DrainIsGraceful ==
    /\ server # "failed"
    /\ \A c \in Conns : conn[c].aborted => shutdown

\* Between two readings of the memory, admissions that are checked can pass the
\* largest threshold by no more than the buffers of one connection.
MemoryIsBounded ==
    cache.at # Never /\ ~blind.unchecked =>
        \E p, q \in bounds.policies :
            cache.used + bytes - seen <= Max({cache.used, p.threshold - 1 + 2 * q.buffer})

\* The check fails open only when there was no usable reading: a refresh that
\* fails or is rate-limited does not discard the last one before it expires.
OpenOnlyWhenBlind == ~blind.fresh

\* Memory is admitted against: MemoryIsBounded, and OpenOnlyWhenBlind.
MemoryIsGuarded == MemoryIsBounded /\ OpenOnlyWhenBlind

\* What is admitted is accounted for: GaugesAreExact, SeatsFitTheirLimit,
\* RegistryIsExact and DrainIsGraceful hold, in states of the right type.
AdmissionConsistent ==
    /\ TypeOK
    /\ GaugesAreExact /\ SeatsFitTheirLimit /\ RegistryIsExact /\ DrainIsGraceful

\* Once forced, the server returns and every permit is released, whatever the
\* sessions do.
ShutdownReleasesAll ==
    <>[](bounds.live /\ shutdown =>
           server = "returned" /\ active = 0 /\ DOMAIN registry = {})

=============================================================================
