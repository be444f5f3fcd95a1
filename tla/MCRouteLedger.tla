---------------------------- MODULE MCRouteLedger ----------------------------
(* The part of RouteLedger's instance that one run explores: one session   *)
(* with keyspaces, reasons, a force close and a clock, or two without them: *)
(* a session's keyspace, labels, force close and cooldown are its own.     *)
EXTENDS RouteLedger

OneSession == next.session <= 2 /\ (minted.closes = {} \/ now = 0)

Keyspace == CHOOSE k \in Keyspaces : TRUE

Plain ==
    /\ now = 0 /\ minted.closes = {}
    /\ \A s \in SessionIds :
         /\ IsPending(s) => sessions[s].reservation.assignment.keyspace = Keyspace
         /\ IsActive(s) => sessions[s].assignment.keyspace = Keyspace
    /\ \A r \in minted.redirects : r.reason = TestReason
    /\ \A labels \in history.known_pending : labels.reason = TestReason

\* The limit is reloaded while sessions open and close, before they migrate.
Limited == max_sessions < 2 => minted.redirects = {} /\ now = 0

Explored == (OneSession \/ Plain) /\ Limited
=============================================================================
