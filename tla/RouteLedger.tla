----------------------------- MODULE RouteLedger -----------------------------
(***************************************************************************)
(* The router's session ledger (control-router ledger.rs): which backend   *)
(* account every session is charged to, through the reservation of a       *)
(* connection, its activation, migrations between accounts and its close.  *)
(* Every operation runs under the router's lock, so one action is one      *)
(* operation; what interleaves is who calls and when.  The handles the     *)
(* ledger gives out (a session, a reservation, a redirect, a force close)  *)
(* are cloned freely and outlive what they name, so an action may present  *)
(* any handle ever minted, late and as often as it likes.                  *)
(***************************************************************************)
EXTENDS Integers, Sequences, MigrationHistory

CONSTANTS
    Keyspaces,          \* keyspace of an assignment; migrations never cross it
    TestReason,         \* RedirectReason::Test, the label of a self redirect
    Cooldown,           \* the 3 s a session rests after a failed offer
    SessionLimits,      \* the values max_sessions is reloaded with
    MaxSession,         \* the counters' exhaustion bounds (u64::MAX in the code)
    MaxReservation,
    MaxAccount,
    MaxRedirect,
    MaxClose,
    Horizon             \* bound on the clock

ASSUME BoundsAssumption ==
    /\ TestReason \in Reasons
    /\ Cooldown \in Nat
    /\ SessionLimits \subseteq Nat /\ SessionLimits # {}
    /\ MaxSession \in Nat /\ MaxReservation \in Nat /\ MaxAccount \in Nat
    /\ MaxRedirect \in Nat /\ MaxClose \in Nat /\ Horizon \in Nat

VARIABLES
    now,                \* the monotonic clock operations read
    max_sessions,       \* reloadable bound on open sessions
    next,               \* the five next_* counters
    sessions,           \* the stage of every session; Absent: no entry
    accounts,           \* accounts the ledger retains
    counts,             \* Accounting of every account
    physical,           \* sessions an account owns, in order of arrival
    pending_migrations, \* in-flight migrations per label set
    history,            \* the process-wide history
    minted,             \* every handle given out so far
    settled             \* how often each redirect was settled, by either path

vars == <<now, max_sessions, next, sessions, accounts, counts, physical,
          pending_migrations, history, minted, settled>>

SessionIds == 1 .. MaxSession
ReservationIds == 1 .. MaxReservation
AccountIds == 1 .. MaxAccount
RedirectIds == 1 .. MaxRedirect
CloseIds == 1 .. MaxClose
Times == 0 .. Horizon
Counters ==
    [session : 1 .. MaxSession + 1, reservation : 1 .. MaxReservation + 1,
     account : 1 .. MaxAccount + 1, redirect : 1 .. MaxRedirect + 1,
     close : 1 .. MaxClose + 1]

Assignments == [address : Addresses, keyspace : Keyspaces]

Reservations ==
    [session : SessionIds, sequence : ReservationIds, account : AccountIds,
     assignment : Assignments]
Redirects ==
    [session : SessionIds, sequence : RedirectIds, source : AccountIds,
     target : AccountIds, from : Assignments, to : Assignments,
     issued_at : Times, reason : Reasons]
ForceCloses == [session : SessionIds, sequence : CloseIds]

\* An Option: the empty set, or the singleton of what is there.
Option(S) == {{}} \union {{x} : x \in S}

Absent == [stage |-> "absent"]
Idle == [stage |-> "idle"]
Pending(reservation) == [stage |-> "pending", reservation |-> reservation]
Active(account, assignment, redirect, failed_at, closing) ==
    [stage |-> "active", account |-> account, assignment |-> assignment,
     redirect |-> redirect, failed_at |-> failed_at, closing |-> closing]

PendingStages == [stage : {"pending"}, reservation : Reservations]
ActiveStages ==
    [stage : {"active"}, account : AccountIds, assignment : Assignments,
     redirect : Option(Redirects), failed_at : Option(Times),
     closing : Option(ForceCloses)]
Stages == {Absent, Idle} \union PendingStages \union ActiveStages

NoCharge == [reserved |-> 0, active |-> 0, incoming |-> 0, outgoing |-> 0]

Labels(redirect) ==
    [from |-> redirect.from.address, to |-> redirect.to.address,
     reason |-> redirect.reason]

(***************************************************************************)
(* Helpers                                                                 *)
(***************************************************************************)
IsActive(s) == sessions[s].stage = "active"
IsPending(s) == sessions[s].stage = "pending"

CoolingDown(active) ==
    \E failed \in active.failed_at : now - failed < Cooldown

\* Every fallible check of a charge to an account: it must still be there.
CanCharge(a) == a \in accounts

\* issue_migration: one admission decision for the label set and the count.
IssueMigration(redirect) ==
    LET labels == Labels(redirect) IN
    /\ history' = Remember(history, labels)
    /\ pending_migrations' =
            IF Retained(history, labels)
            THEN [pending_migrations EXCEPT ![labels] = @ + 1]
            ELSE pending_migrations

\* Mutant of SettleMigration: a retired label set is not counted down.
SettleMigrationIfKnown(h, redirect, success) ==
    LET labels == Labels(redirect) IN
    /\ pending_migrations' =
            IF labels \in h.known_pending
            THEN [pending_migrations EXCEPT ![labels] = IF @ = 0 THEN 0 ELSE @ - 1]
            ELSE pending_migrations
    /\ history' = SettleTerminal(Remember(h, labels), labels, success)
    /\ settled' = [settled EXCEPT ![redirect.sequence] = @ + 1]

\* settle_migration, on the history h the caller has already written to.
SettleMigration(h, redirect, success) ==
    LET labels == Labels(redirect) IN
    /\ pending_migrations' =
            [pending_migrations EXCEPT ![labels] = IF @ = 0 THEN 0 ELSE @ - 1]
    /\ history' = SettleTerminal(Remember(h, labels), labels, success)
    /\ settled' = [settled EXCEPT ![redirect.sequence] = @ + 1]

\* The counters c with n more of one kind on an account.
Charge(c, a, kind, n) == [c EXCEPT ![a][kind] = @ + n]

\* Mutant of ReleaseRedirect: the target keeps its charge.
ReleaseRedirectSourceOnly(c, redirect) == Charge(c, redirect.source, "outgoing", -1)

\* release_redirect: the score of a redirect goes back.
ReleaseRedirect(c, redirect) ==
    Charge(Charge(c, redirect.source, "outgoing", -1), redirect.target, "incoming", -1)

UnchangedMetrics == UNCHANGED <<pending_migrations, history, settled>>

Bump(counter) == next' = [next EXCEPT ![counter] = @ + 1]

Mint(kind, handle) == minted' = [minted EXCEPT ![kind] = @ \union {handle}]

(***************************************************************************)
(* Sessions and accounts                                                   *)
(***************************************************************************)
OpenCount == Cardinality({s \in SessionIds : sessions[s] # Absent})

\* open
Open ==
    /\ OpenCount < max_sessions
    /\ next.session <= MaxSession
    /\ Bump("session")
    /\ sessions' = [sessions EXCEPT ![next.session] = Idle]
    /\ UNCHANGED <<now, max_sessions, accounts, counts, physical, minted>>
    /\ UnchangedMetrics

\* set_max_sessions: no session is evicted.
SetMaxSessions(n) ==
    /\ max_sessions' = n
    /\ UNCHANGED <<now, next, sessions, accounts, counts, physical, minted>>
    /\ UnchangedMetrics

\* add_account
AddAccount ==
    /\ next.account <= MaxAccount
    /\ Bump("account")
    /\ accounts' = accounts \union {next.account}
    /\ counts' = [counts EXCEPT ![next.account] = NoCharge]
    /\ physical' = [physical EXCEPT ![next.account] = <<>>]
    /\ UNCHANGED <<now, max_sessions, sessions, minted>>
    /\ UnchangedMetrics

\* Mutant of Prune: an account nobody has landed on yet counts as empty.
PruneUnowned(a) ==
    /\ a \in accounts
    /\ counts[a].active = 0 /\ counts[a].reserved = 0
    /\ accounts' = accounts \ {a}
    /\ UNCHANGED <<now, max_sessions, next, sessions, counts, physical, minted>>
    /\ UnchangedMetrics

\* prune: an account leaves only when nothing is charged to it.
Prune(a) ==
    /\ a \in accounts
    /\ counts[a] = NoCharge
    /\ accounts' = accounts \ {a}
    /\ UNCHANGED <<now, max_sessions, next, sessions, counts, physical, minted>>
    /\ UnchangedMetrics

(***************************************************************************)
(* Reserving a connection and settling the attempt                         *)
(***************************************************************************)
\* reserve (of a session that is already pending: the same reservation again)
Reserve(s, a, assignment) ==
    LET reservation == [session |-> s, sequence |-> next.reservation,
                        account |-> a, assignment |-> assignment]
    IN  /\ sessions[s] = Idle
        /\ CanCharge(a)
        /\ next.reservation <= MaxReservation
        /\ Bump("reservation")
        /\ counts' = Charge(counts, a, "reserved", 1)
        /\ sessions' = [sessions EXCEPT ![s] = Pending(reservation)]
        /\ Mint("reservations", reservation)
        /\ UNCHANGED <<now, max_sessions, accounts, physical>>
        /\ UnchangedMetrics

\* Which pending attempt a reservation may settle: exactly its own.
SettlesAttempt(reservation) ==
    /\ IsPending(reservation.session)
    /\ LET pending == sessions[reservation.session].reservation
       IN  /\ pending.sequence = reservation.sequence
           /\ pending.account = reservation.account
    /\ reservation.account \in accounts

\* finish
Finish(reservation, connected) ==
    LET s == reservation.session
        a == reservation.account
    IN  /\ SettlesAttempt(reservation)
        /\ IF connected
           THEN /\ counts' = Charge(Charge(counts, a, "reserved", -1), a, "active", 1)
                /\ physical' = [physical EXCEPT ![a] = @ \o <<s>>]
                /\ history' = RememberBackend(history, reservation.assignment.address)
                /\ sessions' = [sessions EXCEPT ![s] =
                                    Active(a, reservation.assignment, {}, {}, {})]
           ELSE /\ counts' = Charge(counts, a, "reserved", -1)
                /\ sessions' = [sessions EXCEPT ![s] = Idle]
                /\ UNCHANGED <<physical, history>>
        /\ UNCHANGED <<now, max_sessions, next, accounts, pending_migrations,
                       minted, settled>>

\* Router::rehydrate: reserve and finish in one critical section.
Rehydrate(s, a, assignment) ==
    /\ sessions[s] = Idle
    /\ CanCharge(a)
    /\ next.reservation <= MaxReservation
    /\ Bump("reservation")
    /\ counts' = Charge(counts, a, "active", 1)
    /\ physical' = [physical EXCEPT ![a] = @ \o <<s>>]
    /\ history' = RememberBackend(history, assignment.address)
    /\ sessions' = [sessions EXCEPT ![s] = Active(a, assignment, {}, {}, {})]
    /\ UNCHANGED <<now, max_sessions, accounts, pending_migrations, minted, settled>>

(***************************************************************************)
(* Migrating a session                                                     *)
(***************************************************************************)
\* The checks prepare_redirect and prepare_self_redirect share.
Redirectable(s) ==
    /\ IsActive(s)
    /\ sessions[s].closing = {}
    /\ sessions[s].redirect = {}

ScoreCanMove(source, target) ==
    /\ CanCharge(source) /\ CanCharge(target)
    /\ counts[source].outgoing + 1 <= counts[source].active
    /\ next.redirect <= MaxRedirect

\* Mutant of CanRedirect: the keyspaces are not compared.
CanRedirectAnywhere(s, target, assignment) ==
    /\ Redirectable(s)
    /\ ~CoolingDown(sessions[s])
    /\ sessions[s].account # target
    /\ ScoreCanMove(sessions[s].account, target)

\* prepare_redirect
CanRedirect(s, target, assignment) ==
    /\ Redirectable(s)
    /\ ~CoolingDown(sessions[s])
    /\ sessions[s].account # target
    /\ sessions[s].assignment.keyspace = assignment.keyspace
    /\ ScoreCanMove(sessions[s].account, target)

\* prepare_self_redirect: the same account, and no cooldown.
CanRedirectToSelf(s) ==
    /\ Redirectable(s)
    /\ ScoreCanMove(sessions[s].account, sessions[s].account)

PreparedRedirect(s, target, assignment, reason) ==
    [session |-> s, sequence |-> next.redirect, source |-> sessions[s].account,
     target |-> target, from |-> sessions[s].assignment, to |-> assignment,
     issued_at |-> now, reason |-> reason]

\* admit_redirect, the offer having been accepted
AdmitRedirect(redirect) ==
    /\ Bump("redirect")
    /\ counts' = Charge(Charge(counts, redirect.source, "outgoing", 1),
                        redirect.target, "incoming", 1)
    /\ IssueMigration(redirect)
    /\ sessions' = [sessions EXCEPT ![redirect.session].redirect = {redirect}]
    /\ Mint("redirects", redirect)
    /\ UNCHANGED <<now, max_sessions, accounts, physical, settled>>

\* A refused offer, or a keyspace refusal, starts the session's cooldown.
StartCooldown(s) ==
    /\ sessions' = [sessions EXCEPT ![s].failed_at = {now}]
    /\ UNCHANGED <<now, max_sessions, next, accounts, counts, physical, minted>>
    /\ UnchangedMetrics

\* offer_redirect_locked: prepare, offer and admit in one critical section.
OfferRedirect(s, target, assignment, reason, accepted) ==
    /\ CanRedirect(s, target, assignment)
    /\ IF accepted
       THEN AdmitRedirect(PreparedRedirect(s, target, assignment, reason))
       ELSE StartCooldown(s)

\* redirect_all_to_self, for one session
OfferSelfRedirect(s, accepted) ==
    /\ CanRedirectToSelf(s)
    /\ IF accepted
       THEN AdmitRedirect(PreparedRedirect(s, sessions[s].account,
                                           sessions[s].assignment, TestReason))
       ELSE StartCooldown(s)

\* reject_keyspace
RejectKeyspace(s) == Redirectable(s) /\ StartCooldown(s)

\* Mutant of SettlesRedirect: an earlier redirect between the same accounts
\* settles the pending one.
SettlesRedirectAlike(redirect) ==
    /\ IsActive(redirect.session)
    /\ \E pending \in sessions[redirect.session].redirect :
            /\ pending.source = redirect.source
            /\ pending.target = redirect.target

\* Which redirect a terminal may settle: exactly the one that is pending.
SettlesRedirect(redirect) ==
    /\ IsActive(redirect.session)
    /\ \E pending \in sessions[redirect.session].redirect :
            /\ pending.sequence = redirect.sequence
            /\ pending.source = redirect.source
            /\ pending.target = redirect.target

Moved(c, redirect) ==
    Charge(Charge(c, redirect.source, "active", -1), redirect.target, "active", 1)

\* retain(|id| id != s): a list names a session once (PhysicalIsOwned).
Without(list, s) ==
    IF \E i \in DOMAIN list : list[i] = s
    THEN LET i == CHOOSE i \in DOMAIN list : list[i] = s
         IN  SubSeq(list, 1, i - 1) \o SubSeq(list, i + 1, Len(list))
    ELSE list

\* finish_redirect
FinishRedirect(redirect, success) ==
    LET s == redirect.session
        released == ReleaseRedirect(counts, redirect)
        left == [physical EXCEPT ![redirect.source] = Without(@, s)]
    IN  /\ SettlesRedirect(redirect)
        /\ IF success
           THEN /\ counts' = Moved(released, redirect)
                /\ physical' = [left EXCEPT ![redirect.target] = @ \o <<s>>]
                /\ sessions' = [sessions EXCEPT ![s] =
                                    Active(redirect.target, redirect.to, {}, {}, @.closing)]
                /\ SettleMigration(RememberBackend(
                                       RememberBackend(history, redirect.to.address),
                                       redirect.from.address),
                                   redirect, TRUE)
           ELSE /\ counts' = released
                /\ sessions' = [sessions EXCEPT ![s].redirect = {},
                                                ![s].failed_at = {redirect.issued_at}]
                /\ SettleMigration(history, redirect, FALSE)
                /\ UNCHANGED physical
        /\ UNCHANGED <<now, max_sessions, next, accounts, minted>>

(***************************************************************************)
(* Closing a session                                                       *)
(***************************************************************************)
\* close, of a session that has an entry
CloseSession(s) ==
    /\ sessions' = [sessions EXCEPT ![s] = Absent]
    /\ \/ /\ sessions[s] = Idle
          /\ UNCHANGED <<counts, physical>>
          /\ UnchangedMetrics
       \/ /\ IsPending(s)
          /\ counts' = Charge(counts, sessions[s].reservation.account, "reserved", -1)
          /\ UNCHANGED physical
          /\ UnchangedMetrics
       \/ /\ IsActive(s)
          /\ LET active == sessions[s]
                 gone(c) == Charge(c, active.account, "active", -1)
             IN  /\ physical' = [physical EXCEPT ![active.account] = Without(@, s)]
                 /\ \/ /\ active.redirect = {}
                       /\ counts' = gone(counts)
                       /\ history' = RememberBackend(history, active.assignment.address)
                       /\ UNCHANGED <<pending_migrations, settled>>
                    \/ \E redirect \in active.redirect :
                       /\ counts' = gone(ReleaseRedirect(counts, redirect))
                       /\ SettleMigration(
                              RememberBackend(history, active.assignment.address),
                              redirect, FALSE)
    /\ UNCHANGED <<now, max_sessions, next, accounts, minted>>

Close(s) == sessions[s] # Absent /\ CloseSession(s)

\* prepare_close, then admit_close or reject_close
OfferClose(s, accepted) ==
    LET close == [session |-> s, sequence |-> next.close]
    IN  /\ IsActive(s)
        /\ sessions[s].closing = {}
        /\ ~CoolingDown(sessions[s])
        /\ next.close <= MaxClose
        /\ IF accepted
           THEN /\ Bump("close")
                /\ sessions' = [sessions EXCEPT ![s].closing = {close}]
                /\ Mint("closes", close)
                /\ UNCHANGED <<now, max_sessions, accounts, counts, physical>>
                /\ UnchangedMetrics
           ELSE StartCooldown(s)

\* observe_close: only the force close that is pending closes its session.
ObserveClose(close) ==
    /\ IsActive(close.session)
    /\ \E pending \in sessions[close.session].closing : pending.sequence = close.sequence
    /\ CloseSession(close.session)

(***************************************************************************)
(* The environment: time, the other routers and the health loop            *)
(***************************************************************************)
Tick ==
    /\ now < Horizon
    /\ now' = now + 1
    /\ UNCHANGED <<max_sessions, next, sessions, accounts, counts, physical, minted>>
    /\ UnchangedMetrics

\* Another router of the process issues a migration: the history is shared.
OtherRouterIssues(labels) ==
    /\ history' = Remember(history, labels)
    /\ UNCHANGED <<now, max_sessions, next, sessions, accounts, counts, physical,
                   pending_migrations, minted, settled>>

\* forget_backend, called when the health loop retires an address.
RetireBackend(address) ==
    /\ history' = ForgetBackend(history, address)
    /\ UNCHANGED <<now, max_sessions, next, sessions, accounts, counts, physical,
                   pending_migrations, minted, settled>>

Init ==
    /\ now = 0
    /\ max_sessions \in SessionLimits
    /\ next = [session |-> 1, reservation |-> 1, account |-> 1, redirect |-> 1, close |-> 1]
    /\ sessions = [s \in SessionIds |-> Absent]
    /\ accounts = {}
    /\ counts = [a \in AccountIds |-> NoCharge]
    /\ physical = [a \in AccountIds |-> <<>>]
    /\ pending_migrations = [labels \in MigrationLabels |-> 0]
    /\ history = NoHistory
    /\ minted = [reservations |-> {}, redirects |-> {}, closes |-> {}]
    /\ settled = [r \in RedirectIds |-> 0]

Next ==
    \/ Open
    \/ AddAccount
    \/ Tick
    \/ \E n \in SessionLimits : SetMaxSessions(n)
    \/ \E a \in AccountIds : Prune(a)
    \/ \E s \in SessionIds, a \in AccountIds, assignment \in Assignments :
            \/ Reserve(s, a, assignment)
            \/ Rehydrate(s, a, assignment)
            \/ \E reason \in Reasons, accepted \in BOOLEAN :
                    OfferRedirect(s, a, assignment, reason, accepted)
    \/ \E s \in SessionIds : RejectKeyspace(s) \/ Close(s)
    \/ \E s \in SessionIds, accepted \in BOOLEAN :
            OfferSelfRedirect(s, accepted) \/ OfferClose(s, accepted)
    \/ \E reservation \in minted.reservations, connected \in BOOLEAN :
            Finish(reservation, connected)
    \/ \E redirect \in minted.redirects, success \in BOOLEAN :
            FinishRedirect(redirect, success)
    \/ \E close \in minted.closes : ObserveClose(close)
    \/ \E labels \in MigrationLabels : OtherRouterIssues(labels)
    \/ \E address \in Addresses : RetireBackend(address)

Spec == Init /\ [][Next]_vars

(***************************************************************************)
(* Properties                                                              *)
(***************************************************************************)
\* The sessions charged to an account, by kind of charge.
ReservedOn(a) == {s \in SessionIds : IsPending(s) /\ sessions[s].reservation.account = a}
OwnedBy(a) == {s \in SessionIds : IsActive(s) /\ sessions[s].account = a}
LeavingFrom(a) ==
    {s \in SessionIds : IsActive(s) /\ \E r \in sessions[s].redirect : r.source = a}
ArrivingAt(a) ==
    {s \in SessionIds : IsActive(s) /\ \E r \in sessions[s].redirect : r.target = a}
InFlight(labels) ==
    {s \in SessionIds : IsActive(s) /\ \E r \in sessions[s].redirect : Labels(r) = labels}

\* Every variable stays in its domain.  For the counters this says that no
\* `-= 1` of the ledger ever wraps below zero.
TypeOK ==
    /\ now \in Times
    /\ max_sessions \in SessionLimits
    /\ next \in Counters
    /\ sessions \in [SessionIds -> Stages]
    /\ accounts \subseteq AccountIds
    /\ counts \in [AccountIds -> [reserved : Nat, active : Nat,
                                  incoming : Nat, outgoing : Nat]]
    /\ physical \in [AccountIds -> Seq(SessionIds)]
    /\ pending_migrations \in [MigrationLabels -> Nat]
    /\ history \in Histories
    /\ minted \in [reservations : SUBSET Reservations, redirects : SUBSET Redirects,
                   closes : SUBSET ForceCloses]
    /\ settled \in [RedirectIds -> Nat]

\* The four counters of an account are the numbers of sessions charged to it,
\* whatever order reservations, redirects, force closes, their late or repeated
\* terminals and plain closes come in (reserve, finish, admit_redirect,
\* finish_redirect, release_redirect, close).
CountsMatchSessions ==
    \A a \in AccountIds :
        /\ counts[a].reserved = Cardinality(ReservedOn(a))
        /\ counts[a].active = Cardinality(OwnedBy(a))
        /\ counts[a].outgoing = Cardinality(LeavingFrom(a))
        /\ counts[a].incoming = Cardinality(ArrivingAt(a))

\* The arrival list of an account holds exactly the sessions it owns, each
\* once: a migrated session is on the target's list and on no other, and a
\* redirect to the same account rotates it instead of listing it twice.
PhysicalIsOwned ==
    \A a \in AccountIds :
        /\ {physical[a][i] : i \in DOMAIN physical[a]} = OwnedBy(a)
        /\ \A i, j \in DOMAIN physical[a] : physical[a][i] = physical[a][j] => i = j

\* An account some session is charged to is never pruned, so the ledger's
\* `unreachable!("retained source")` and `("retained target")` are.
ChargedIsRetained ==
    \A s \in SessionIds :
        /\ IsPending(s) => sessions[s].reservation.account \in accounts
        /\ IsActive(s) =>
               /\ sessions[s].account \in accounts
               /\ \A r \in sessions[s].redirect : r.source \in accounts /\ r.target \in accounts

\* connection_score subtracts outgoing from active in unsigned arithmetic: an
\* account never has more sessions leaving than it owns.
ScoreNeverUnderflows ==
    \A a \in AccountIds : counts[a].outgoing <= counts[a].active

\* Every admitted redirect is settled once: it is pending on one session and
\* unsettled, or on none and settled exactly once, be it by its own terminal or
\* by the close of its session; a late or repeated terminal settles nothing.
RedirectSettledOnce ==
    \A r \in minted.redirects :
        settled[r.sequence]
            + Cardinality({s \in SessionIds : IsActive(s) /\ r \in sessions[s].redirect}) = 1

\* The pending gauge never counts a migration that is not in flight: no order
\* of settlement, close and retirement of a backend's series leaves it holding
\* one that can never settle (issue_migration, settle_migration).
PendingNeverStuck ==
    \A labels \in MigrationLabels :
        pending_migrations[labels] <= Cardinality(InFlight(labels))

\* A session never leaves the keyspace it connected to, however often and with
\* whatever retries it is migrated: the check is made when the redirect is
\* prepared, the assignment replaced when it lands.
KeyspaceKept ==
    [][\A s \in SessionIds :
            IsActive(s) /\ sessions'[s].stage = "active" =>
                sessions'[s].assignment.keyspace = sessions[s].assignment.keyspace]_vars

\* The rest of the ledger agrees with the sessions at every instant:
\* PhysicalIsOwned, ScoreNeverUnderflows and RedirectSettledOnce hold, in
\* states of the right type.
LedgerConsistent ==
    /\ TypeOK
    /\ PhysicalIsOwned /\ ScoreNeverUnderflows /\ RedirectSettledOnce
=============================================================================
