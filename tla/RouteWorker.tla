---------------------------- MODULE RouteWorker ----------------------------
(***************************************************************************)
(* One router incarnation of control-router at work: the C/R/H sources it  *)
(* captures and validates, the backends it knows, new connections that are *)
(* routed and retried, and the worker that, on its tick, chooses a pair of *)
(* backends by the factors of the Connection policy, offers redirects to   *)
(* the sessions of the first and force-closes those of backends that have  *)
(* been failed for too long.  A command travels in an envelope through the *)
(* FIFO the session registered; whoever drops the envelope settles it.     *)
(*                                                                         *)
(* The router lock is held by the worker over a whole round and by every   *)
(* other ledger operation for one step; the FIFOs have locks of their own. *)
(* The ledger is its stages and tokens only (RouteLedger has its counts    *)
(* and metrics); a backend's counts are recovered from the stages.  The    *)
(* router has one group.  The metric factors, labels and registries of     *)
(* other namespaces are left out; a rate is the pause it imposes.          *)
(***************************************************************************)
EXTENDS Naturals, FiniteSets, Sequences

CONSTANTS
    Backends,    \* opaque identifiers, in their stable order
    Sessions,
    Capacity,    \* places in a session's FIFO
    Instances    \* the bounds a behaviour may run under

Bounds == [
    sessions : SUBSET Sessions,   \* the ones that may open
    leavers : SUBSET Sessions,    \* the ones whose client may leave
    sources : SUBSET [members : SUBSET Backends, healthy : SUBSET Backends,
                      failed : SUBSET Backends],  \* what C/R/H may say
    publications : Nat,   \* publications after the first
    faults : Nat,         \* dials and redirects that may fail
    keyspace : [Backends -> Nat],
    plain : SUBSET Backends,  \* backends that report no support of redirects
    fast : BOOLEAN,       \* the status rate covers all sessions in one round
    replace : BOOLEAN,    \* the namespace may be replaced
    manual : BOOLEAN,     \* an operator may redirect every session to itself
    live : BOOLEAN]       \* sources settle and the tasks are scheduled fairly

ASSUME BackendsAssumption == Backends \subseteq Nat /\ IsFiniteSet(Backends)
ASSUME SessionsAssumption == IsFiniteSet(Sessions)
ASSUME CapacityAssumption == Capacity \in Nat \ {0}
ASSUME InstancesAssumption == Instances # {} /\ Instances \subseteq Bounds

VARIABLES
    source,    \* the current sources and the number of their publication
    replaced,  \* the namespace has another incarnation: no more admissions
    router,    \* [known, observed, supports, paced]: State of the router
    ledger,    \* each session's stage, and the tokens it is charged with
    fifo,      \* each session's command FIFO and its place in the dispatcher
    owner,     \* each session's owner: where it is, the envelopes it holds
    worker,    \* the worker: where it is, its candidate and its round
    faults,    \* failures still to come
    manual,    \* the operator's redirect is still to come
    bounds     \* the bounds of this behaviour

vars == <<source, replaced, router, ledger, fifo, owner, worker, faults,
          manual, bounds>>

NoAccount == [id |-> 0, seq |-> 0]
NoEnvelope == [kind |-> "none", seq |-> 0, to |-> NoAccount]
Unknown == [here |-> FALSE, seq |-> 0, healthy |-> FALSE, since |-> "no"]

\* The worker between two wake-ups
Waiting(w) == [w EXCEPT !.pc = "wait", !.tick = FALSE, !.candidate = 0, !.todo = {},
                        !.to = NoAccount, !.budget = 0]
NothingSent == [session |-> 0, envelope |-> NoEnvelope, accepted |-> FALSE]

\* The worker holds the router lock from the start of a round to its end.
Locked == worker.pc \in {"offer", "admit", "close", "confirm"}

-----------------------------------------------------------------------------
(* Accounts and scores *)

Account(r, b) == [id |-> b, seq |-> r.known[b].seq]
Active(l, a) == {s \in Sessions : l[s].stage = "active" /\ l[s].at = a}
Pending(l, a) == {s \in Sessions : l[s].stage = "pending" /\ l[s].at = a}
Outgoing(l, a) == {s \in Active(l, a) : l[s].redirect.seq # 0}
Incoming(l, a) == {s \in Sessions : l[s].redirect.seq # 0 /\ l[s].redirect.to = a}

connection_score(l, a) ==
    Cardinality(Active(l, a)) - Cardinality(Outgoing(l, a))
        + Cardinality(Pending(l, a)) + Cardinality(Incoming(l, a))

PruneForgetsArrivals(l, a) == Active(l, a) \cup Pending(l, a) = {}
\* No session is charged to the account in any way.
Prunable(l, a) == Active(l, a) \cup Pending(l, a) \cup Incoming(l, a) = {}

-----------------------------------------------------------------------------
(* What the router knows of its backends *)

\* refresh and refresh_backend_metadata
Refresh(r, l, src) ==
    IF r.observed = src.gen THEN r
    ELSE LET incoming == [b \in Backends |-> b \in src.members /\ b \in src.healthy]
             met == [b \in Backends |->
                       IF r.known[b].here THEN [r.known[b] EXCEPT !.healthy = incoming[b]]
                       ELSE IF incoming[b]
                       THEN [here |-> TRUE, seq |-> r.known[b].seq + 1, healthy |-> TRUE, since |-> "no"]
                       ELSE r.known[b]]
             retained(b) == \/ met[b].healthy
                            \/ met[b].here /\ ~Prunable(l, [id |-> b, seq |-> met[b].seq])
         IN  [r EXCEPT !.known = [b \in Backends |->
                                    IF retained(b) THEN met[b]
                                    ELSE [Unknown EXCEPT !.seq = met[b].seq]],
                       !.supports = \A b \in Backends :
                                      r.known[b].here \/ b \in src.members => b \notin bounds.plain,
                       !.observed = src.gen]

Here(r) == {b \in Backends : r.known[b].here}
Healthy(r) == {b \in Backends : r.known[b].here /\ r.known[b].healthy}
\* The fail list is ignored while it would leave nothing to route to.
Failed(r, src) == IF Healthy(r) \subseteq src.failed /\ Healthy(r) # {} THEN {} ELSE src.failed
Routeable(r, src) == Healthy(r) \ Failed(r, src)

\* Factor::Connection advises a migration: from > (to + 1) * 1.2.
Unbalanced(l, from, to) ==
    5 * connection_score(l, from) > 6 * (connection_score(l, to) + 1)

\* The rows of a report come in the order of the packed score, ties by identifier.
Before(r, l, src, a, b) ==
    LET bad(x) == IF x \in Routeable(r, src) THEN 0 ELSE 1
        score(x) == connection_score(l, Account(r, x))
    IN  \/ bad(a) < bad(b)
        \/ bad(a) = bad(b) /\ score(a) < score(b)
        \/ bad(a) = bad(b) /\ score(a) = score(b) /\ a < b

\* phases::balance: the sources that may be relieved to the best row; the worst
\* of them is taken.
Pairs(r, l, src) ==
    {p \in Here(r) \X Here(r) :
        /\ \A b \in Here(r) \ {p[2]} : Before(r, l, src, p[2], b)
        /\ p[2] \in Routeable(r, src)
        /\ p[1] # p[2]
        /\ Active(l, Account(r, p[1])) # {} /\ connection_score(l, Account(r, p[1])) > 0
        /\ p[1] \notin Routeable(r, src) \/ Unbalanced(l, Account(r, p[1]), Account(r, p[2]))}
WorstPair(r, l, src) ==
    {p \in Pairs(r, l, src) : \A q \in Pairs(r, l, src) \ {p} : Before(r, l, src, q[1], p[1])}

\* phases::preferred over the backends a new connection may use: a ticket may
\* fall on each of them that would not be relieved at once.
Choices(r, l, src, excluded) ==
    LET rows == Routeable(r, src) \ excluded
    IN  {b \in rows : \A t \in rows :
           (\A x \in rows \ {t} : Before(r, l, src, t, x))
               => b = t \/ ~Unbalanced(l, Account(r, b), Account(r, t))}

-----------------------------------------------------------------------------
(* The sources *)

Publish ==
    /\ source.gen < bounds.publications
    /\ \E s \in bounds.sources :
         source' = [gen |-> source.gen + 1, members |-> s.members,
                    healthy |-> s.healthy, failed |-> s.failed]
    /\ UNCHANGED <<replaced, router, ledger, fifo, owner, worker, faults, manual, bounds>>

\* reconcile installs another incarnation under the name; the admissions of
\* this one keep it, and its worker, alive.
Replace ==
    /\ bounds.replace /\ ~replaced /\ replaced' = TRUE
    /\ UNCHANGED <<source, router, ledger, fifo, owner, worker, faults, manual, bounds>>

-----------------------------------------------------------------------------
(* A session's life on the router *)

\* admit opens the session, and the lease registers its FIFO.
Open(s) ==
    /\ s \in bounds.sessions /\ owner[s].pc = "new" /\ ~replaced /\ ~Locked
    /\ ledger' = [ledger EXCEPT ![s].stage = "idle"]
    /\ fifo' = [fifo EXCEPT ![s].registered = TRUE]
    /\ owner' = [owner EXCEPT ![s].pc = "routing"]
    /\ UNCHANGED <<source, replaced, router, worker, faults, manual, bounds>>

\* Selector::next_candidate: when every choice was tried, the cycle is cleared
\* and starts again; without any choice the connection is refused.
Reserve(s) ==
    /\ owner[s].pc = "routing" /\ ~Locked
    /\ LET r == Refresh(router, ledger, source)
           fresh == Choices(r, ledger, source, owner[s].tried)
           pool == IF fresh # {} THEN fresh ELSE Choices(r, ledger, source, {})
       IN  /\ router' = r
           /\ \/ \E b \in pool :
                   /\ ledger' = [ledger EXCEPT ![s].stage = "pending", ![s].at = Account(r, b)]
                   /\ owner' = [owner EXCEPT ![s].pc = "dialing",
                                  ![s].tried = IF fresh # {} THEN @ \cup {b} ELSE {b}]
              \/ /\ pool = {}
                 /\ owner' = [owner EXCEPT ![s].pc = "ending", ![s].tried = {}]
                 /\ ledger' = ledger
    /\ UNCHANGED <<source, replaced, fifo, worker, faults, manual, bounds>>

\* finish settles the exact reservation; a failed dial is retried elsewhere.
Connected(s) ==
    /\ owner[s].pc = "dialing" /\ ~Locked
    /\ ledger' = [ledger EXCEPT ![s].stage = "active"]
    /\ owner' = [owner EXCEPT ![s].pc = "active", ![s].tried = {}]
    /\ UNCHANGED <<source, replaced, router, fifo, worker, faults, manual, bounds>>

DialFailed(s) ==
    /\ owner[s].pc = "dialing" /\ ~Locked /\ faults > 0
    /\ faults' = faults - 1
    /\ ledger' = [ledger EXCEPT ![s].stage = "idle", ![s].at = NoAccount]
    /\ owner' = [owner EXCEPT ![s].pc = "routing"]
    /\ UNCHANGED <<source, replaced, router, fifo, worker, manual, bounds>>

-----------------------------------------------------------------------------
(* Envelopes and their guards *)

\* The envelopes of a session, wherever they are
Carried(s) == fifo[s].entries \o <<owner[s].redirect, owner[s].close>> \o owner[s].dropping
\* A redirect or a close is known by a token no other envelope of it has.
Token(s) ==
    CHOOSE n \in 1 .. Capacity + 5 : \A i \in DOMAIN Carried(s) : Carried(s)[i].seq # n

Settles(l, e) == l.stage = "active" /\ l.redirect.seq = e.seq

\* finish_redirect of the ledger, for the exact token only
FinishRedirect(l, e, success) ==
    IF ~Settles(l, e) THEN l
    ELSE IF success THEN [l EXCEPT !.redirect = NoEnvelope, !.at = e.to, !.cool = FALSE]
    ELSE [l EXCEPT !.redirect = NoEnvelope, !.cool = TRUE]

CloseSession(l) ==
    [l EXCEPT !.stage = "none", !.at = NoAccount, !.redirect = NoEnvelope,
              !.closing = 0, !.cool = FALSE]

\* observe_close of the ledger
ObserveClose(l, e) ==
    IF l.stage = "active" /\ l.closing = e.seq THEN CloseSession(l) ELSE l

\* TerminalGuard::drop
DropGuard(l, e) ==
    IF e.kind = "redirect" THEN FinishRedirect(l, e, FALSE) ELSE ObserveClose(l, e)

\* An envelope that is dropped calls into the router, and waits for its lock.
SettleDropped(s) ==
    /\ owner[s].dropping # <<>> /\ ~Locked
    /\ ledger' = [ledger EXCEPT ![s] = DropGuard(@, Head(owner[s].dropping))]
    /\ owner' = [owner EXCEPT ![s].dropping = Tail(@)]
    /\ UNCHANGED <<source, replaced, router, fifo, worker, faults, manual, bounds>>

\* The envelope in a place of the owner, if there is one.
Kept(e) == IF e = NoEnvelope THEN <<>> ELSE <<e>>

\* recv_local_command: the owner keeps one redirect and one close.
Receive(s) ==
    /\ owner[s].pc = "active" /\ owner[s].dropping = <<>> /\ fifo[s].entries # <<>>
    /\ fifo' = [fifo EXCEPT ![s].entries = Tail(@)]
    /\ LET e == Head(fifo[s].entries)
           o == owner[s]
       IN  \/ /\ e.kind = "redirect" /\ o.redirect = NoEnvelope
              /\ owner' = [owner EXCEPT ![s].redirect = e]
              /\ faults' = faults
           \/ \* the place is taken, or its budget ran out in the queue
              /\ e.kind = "redirect" /\ ~(o.redirect = NoEnvelope /\ faults = 0)
              /\ owner' = [owner EXCEPT ![s].dropping = <<e>>]
              /\ faults' = IF o.redirect = NoEnvelope THEN faults - 1 ELSE faults
           \/ /\ e.kind = "close"
              /\ owner' = [owner EXCEPT ![s].pc = "ending", ![s].close = e,
                             ![s].redirect = NoEnvelope,
                             ![s].dropping = Kept(o.redirect)]
              /\ faults' = faults
    /\ UNCHANGED <<source, replaced, router, ledger, worker, manual, bounds>>

\* The session reports the end of its redirect.
RedirectFinished(s, success) ==
    /\ owner[s].pc = "active" /\ owner[s].dropping = <<>> /\ ~Locked
    /\ owner[s].redirect # NoEnvelope
    /\ faults' = IF success THEN faults ELSE faults - 1
    /\ success \/ faults > 0
    /\ ledger' = [ledger EXCEPT ![s] = FinishRedirect(@, owner[s].redirect, success)]
    /\ owner' = [owner EXCEPT ![s].redirect = NoEnvelope]
    /\ UNCHANGED <<source, replaced, router, fifo, worker, manual, bounds>>

-----------------------------------------------------------------------------
(* The end of a session *)

Held(s) == Kept(owner[s].redirect) \o Kept(owner[s].close)

\* The client leaves, or the session ends for any other reason.
Leave(s) ==
    /\ s \in bounds.leavers
    /\ owner[s].pc \in {"routing", "dialing", "active"} /\ owner[s].dropping = <<>>
    /\ owner' = [owner EXCEPT ![s].pc = "ending"]
    /\ UNCHANGED <<source, replaced, router, ledger, fifo, worker, faults, manual, bounds>>

\* The loop has returned: the owner gives up the envelopes it holds, and the
\* registration leaves the dispatcher, closes the FIFO and drains it.  The guards
\* run when the FIFO lock is gone.
End(s) ==
    /\ owner[s].pc = "ending" /\ owner[s].dropping = <<>>
    /\ fifo' = [fifo EXCEPT ![s] = [registered |-> FALSE, closed |-> TRUE, entries |-> <<>>]]
    /\ owner' = [owner EXCEPT ![s].pc = "release", ![s].redirect = NoEnvelope,
                   ![s].close = NoEnvelope, ![s].dropping = Held(s) \o fifo[s].entries]
    /\ UNCHANGED <<source, replaced, router, ledger, worker, faults, manual, bounds>>

\* The selector is dropped last and closes the session.
Release(s) ==
    /\ owner[s].pc = "release" /\ owner[s].dropping = <<>> /\ ~Locked
    /\ ledger' = [ledger EXCEPT ![s] = CloseSession(@)]
    /\ owner' = [owner EXCEPT ![s].pc = "closed"]
    /\ UNCHANGED <<source, replaced, router, fifo, worker, faults, manual, bounds>>

-----------------------------------------------------------------------------
(* The worker *)

HeldByRegistry == ~replaced
\* The registry or an admission still holds the incarnation.
Retained == ~replaced \/ \E s \in Sessions : owner[s].pc \notin {"new", "closed"}

\* The select is biased: a change of the sources is handled before a tick.
Wake ==
    /\ worker.pc = "wait" /\ Retained
    /\ worker' = [worker EXCEPT !.pc = "woken", !.seen = source.gen,
                    !.tick = (worker.seen = source.gen)]
    /\ UNCHANGED <<source, replaced, router, ledger, fifo, owner, faults, manual, bounds>>

Stop ==
    /\ worker.pc = "wait" /\ ~Retained
    /\ worker' = [worker EXCEPT !.pc = "stopped"]
    /\ UNCHANGED <<source, replaced, router, ledger, fifo, owner, faults, manual, bounds>>

\* capture_retained, before the lock is taken
Capture ==
    /\ worker.pc = "woken"
    /\ worker' = [worker EXCEPT !.pc = "captured", !.candidate = source.gen]
    /\ UNCHANGED <<source, replaced, router, ledger, fifo, owner, faults, manual, bounds>>

\* validate fails: the candidate is dropped, and the change it lost to is
\* still unseen.
Stale ==
    /\ worker.pc = "captured" /\ worker.candidate # source.gen
    /\ worker' = Waiting(worker)
    /\ UNCHANGED <<source, replaced, router, ledger, fifo, owner, faults, manual, bounds>>

\* prepare_failover and apply_failover
ApplyFailover(r, src) ==
    [r EXCEPT !.known = [b \in Backends |->
        IF ~r.known[b].here THEN r.known[b]
        ELSE IF b \notin Failed(r, src) THEN [r.known[b] EXCEPT !.since = "no"]
        ELSE IF r.known[b].since = "no" THEN [r.known[b] EXCEPT !.since = "fresh"]
        ELSE r.known[b]]]

RefreshFailover ==
    /\ worker.pc = "captured" /\ worker.candidate = source.gen /\ ~worker.tick
    /\ router' = ApplyFailover(Refresh(router, ledger, source), source)
    /\ worker' = Waiting(worker)
    /\ UNCHANGED <<source, replaced, ledger, fifo, owner, faults, manual, bounds>>

RoundedBudget(r, src, pair) ==
    IF bounds.fast /\ pair[1] \notin Routeable(r, src)
    THEN Cardinality(Active(ledger, Account(r, pair[1]))) ELSE 0
\* GroupSchedule::budget: one session at a time with the pause of the rate
\* between, or all of them when the rate is that high.
Budget(r, src, pair) ==
    LET sessions == Cardinality(Active(ledger, Account(r, pair[1])))
    IN  IF bounds.fast /\ pair[1] \notin Routeable(r, src) THEN sessions
        ELSE IF r.paced THEN 0 ELSE 1

\* migration_round takes the lock and prepares the redirects of one pair.
StartRound ==
    /\ worker.pc = "captured" /\ worker.candidate = source.gen /\ worker.tick
    /\ LET r == Refresh(router, ledger, source)
           pairs == {p \in WorstPair(r, ledger, source) :
                       r.supports /\ bounds.keyspace[p[1]] = bounds.keyspace[p[2]]}
       IN  /\ router' = r
           /\ worker' = IF pairs = {} THEN [worker EXCEPT !.pc = "offer", !.todo = {}]
                        ELSE LET p == CHOOSE p \in pairs : TRUE
                             IN  [worker EXCEPT !.pc = "offer",
                                    !.todo = Active(ledger, Account(r, p[1])),
                                    !.to = Account(r, p[2]),
                                    !.budget = Budget(r, source, p)]
    /\ UNCHANGED <<source, replaced, ledger, fifo, owner, faults, manual, bounds>>

Accepts(s) == fifo[s].registered /\ ~fifo[s].closed /\ Len(fifo[s].entries) < Capacity

\* The dispatcher puts the envelope into the FIFO of the session, or refuses it.
Send(s, e, next) ==
    /\ worker.candidate = source.gen
    /\ fifo' = IF Accepts(s) THEN [fifo EXCEPT ![s].entries = Append(@, e)] ELSE fifo
    /\ worker' = [worker EXCEPT !.pc = next, !.todo = @ \ {s},
                    !.sent = [session |-> s, envelope |-> e, accepted |-> Accepts(s)]]
    /\ UNCHANGED <<source, replaced, router, ledger, owner, faults, manual, bounds>>

Redirectable(l) == l.stage = "active" /\ l.closing = 0 /\ l.redirect.seq = 0 /\ ~l.cool
Closeable(l) == l.stage = "active" /\ l.closing = 0 /\ ~l.cool

OfferRedirect(s) ==
    /\ worker.pc = "offer" /\ s \in worker.todo /\ worker.budget > 0
    /\ Redirectable(ledger[s])
    /\ Send(s, [kind |-> "redirect", seq |-> Token(s), to |-> worker.to], "admit")

OfferClose(s) ==
    /\ worker.pc = "close" /\ s \in worker.todo
    /\ Closeable(ledger[s])
    /\ Send(s, [kind |-> "close", seq |-> Token(s), to |-> NoAccount], "confirm")

\* A session that has a command already, or cools down, is passed over.
Skip(s) ==
    /\ s \in worker.todo
    /\ \/ /\ worker.pc = "offer" /\ worker.budget > 0 /\ worker.candidate = source.gen
          /\ ~Redirectable(ledger[s])
       \/ worker.pc = "close" /\ ~Closeable(ledger[s])
    /\ worker' = [worker EXCEPT !.todo = @ \ {s}]
    /\ UNCHANGED <<source, replaced, router, ledger, fifo, owner, faults, manual, bounds>>

\* The candidate lost its authority in the middle of the round.
AbortRound ==
    /\ worker.candidate # source.gen
    /\ \E s \in worker.todo :
         \/ worker.pc = "offer" /\ worker.budget > 0
         \/ worker.pc = "close" /\ Closeable(ledger[s])
    /\ worker' = Waiting(worker)
    /\ UNCHANGED <<source, replaced, router, ledger, fifo, owner, faults, manual, bounds>>

\* admit_redirect, with the verdict of the FIFO
AdmitRedirect ==
    /\ worker.pc = "admit"
    /\ LET s == worker.sent.session
           e == worker.sent.envelope
       IN  IF worker.sent.accepted
           THEN /\ ledger' = [ledger EXCEPT ![s].redirect = e]
                /\ router' = [router EXCEPT !.paced = TRUE]
                /\ worker' = [worker EXCEPT !.pc = "offer", !.budget = @ - 1, !.sent = NothingSent]
           ELSE /\ ledger' = [ledger EXCEPT ![s].cool = TRUE]
                /\ router' = router
                /\ worker' = [worker EXCEPT !.pc = "offer", !.sent = NothingSent]
    /\ UNCHANGED <<source, replaced, fifo, owner, faults, manual, bounds>>

\* close_timed_out: the sessions of the backends that failed long ago
StartCloses ==
    /\ worker.pc = "offer" /\ (worker.todo = {} \/ worker.budget = 0)
    /\ worker' = [worker EXCEPT !.pc = "close", !.to = NoAccount, !.budget = 0,
                    !.todo = UNION {Active(ledger, Account(router, b)) :
                                      b \in {b \in Here(router) : router.known[b].since = "due"}}]
    /\ UNCHANGED <<source, replaced, router, ledger, fifo, owner, faults, manual, bounds>>

\* admit_close or reject_close
AdmitClose ==
    /\ worker.pc = "confirm"
    /\ LET s == worker.sent.session
           e == worker.sent.envelope
       IN  ledger' = IF worker.sent.accepted
                     THEN [ledger EXCEPT ![s].closing = e.seq]
                     ELSE [ledger EXCEPT ![s].cool = TRUE]
    /\ worker' = [worker EXCEPT !.pc = "close", !.sent = NothingSent]
    /\ UNCHANGED <<source, replaced, router, fifo, owner, faults, manual, bounds>>

EndRound ==
    /\ worker.pc = "close" /\ worker.todo = {}
    /\ worker' = Waiting(worker)
    /\ UNCHANGED <<source, replaced, router, ledger, fifo, owner, faults, manual, bounds>>

\* redirect_all_to_self: every active session without a redirect is offered one
\* to its own backend, under the lock throughout.
RedirectAll ==
    /\ manual /\ ~replaced /\ ~Locked
    /\ manual' = FALSE
    /\ LET offered == {s \in Sessions : ledger[s].stage = "active" /\ ledger[s].redirect.seq = 0
                                          /\ ledger[s].closing = 0}
           e(s) == [kind |-> "redirect", seq |-> Token(s), to |-> ledger[s].at]
           taken == {s \in offered : Accepts(s)}
       IN  /\ ledger' = [s \in Sessions |->
                           IF s \in taken THEN [ledger[s] EXCEPT !.redirect = e(s)]
                           ELSE IF s \in offered THEN [ledger[s] EXCEPT !.cool = TRUE]
                           ELSE ledger[s]]
           /\ fifo' = [s \in Sessions |->
                         IF s \in taken THEN [fifo[s] EXCEPT !.entries = Append(@, e(s))]
                         ELSE fifo[s]]
    /\ UNCHANGED <<source, replaced, router, owner, worker, faults, bounds>>

-----------------------------------------------------------------------------
(* Time *)

\* Three seconds have passed since the redirect or the close was refused.
CoolDown(s) ==
    /\ ledger[s].cool
    /\ ~Locked
    /\ ledger' = [ledger EXCEPT ![s].cool = FALSE]
    /\ UNCHANGED <<source, replaced, router, fifo, owner, worker, faults, manual, bounds>>

\* The pause the rate imposes after an accepted redirect is over.
PauseEnds ==
    /\ router.paced /\ ~Locked
    /\ router' = [router EXCEPT !.paced = FALSE]
    /\ UNCHANGED <<source, replaced, ledger, fifo, owner, worker, faults, manual, bounds>>

\* A backend has been failed for the failover timeout.
FailoverDue(b) ==
    /\ router.known[b].since = "fresh" /\ ~Locked
    /\ router' = [router EXCEPT !.known[b].since = "due"]
    /\ UNCHANGED <<source, replaced, ledger, fifo, owner, worker, faults, manual, bounds>>

-----------------------------------------------------------------------------
(* Specification *)

Init ==
    /\ bounds \in Instances
    /\ \E s \in bounds.sources :
         source = [gen |-> 0, members |-> s.members, healthy |-> s.healthy, failed |-> s.failed]
    /\ replaced = FALSE
    /\ router = [known |-> [b \in Backends |-> Unknown], observed |-> bounds.publications + 1,
                 supports |-> TRUE, paced |-> FALSE]
    /\ ledger = [s \in Sessions |-> [stage |-> "none", at |-> NoAccount, redirect |-> NoEnvelope,
                                     closing |-> 0, cool |-> FALSE]]
    /\ fifo = [s \in Sessions |-> [registered |-> FALSE, closed |-> FALSE, entries |-> <<>>]]
    /\ owner = [s \in Sessions |-> [pc |-> "new", tried |-> {}, redirect |-> NoEnvelope,
                                    close |-> NoEnvelope, dropping |-> <<>>]]
    /\ worker = [pc |-> "woken", seen |-> 0, tick |-> FALSE, candidate |-> 0, todo |-> {},
                 to |-> NoAccount, budget |-> 0,
                 sent |-> NothingSent]
    /\ faults = bounds.faults
    /\ manual = bounds.manual

WorkerStep ==
    \/ Wake \/ Capture \/ Stale \/ RefreshFailover \/ StartRound \/ AbortRound
    \/ AdmitRedirect \/ StartCloses \/ AdmitClose \/ EndRound \/ Stop
    \/ \E s \in Sessions : OfferRedirect(s) \/ OfferClose(s) \/ Skip(s)

\* What a session does without being asked to end.
SessionStep(s) ==
    \/ Reserve(s) \/ Connected(s) \/ Receive(s) \/ RedirectFinished(s, TRUE)
    \/ SettleDropped(s) \/ End(s) \/ Release(s)

Clock == \/ PauseEnds \/ (\E b \in Backends : FailoverDue(b)) \/ (\E s \in Sessions : CoolDown(s))

Next ==
    \/ Publish \/ Replace \/ RedirectAll \/ WorkerStep \/ Clock
    \/ \E s \in Sessions : \/ Open(s) \/ Leave(s) \/ DialFailed(s)
                           \/ RedirectFinished(s, FALSE) \/ SessionStep(s)

Spec == Init /\ [][Next]_vars

\* The worker ticks for as long as it is held, and leaves the lock free between
\* its rounds, so that whoever waits for it gets it; time passes.  Clients,
\* failures, publications and replacements owe nothing.
FairSpec ==
    /\ Spec
    /\ WF_vars(bounds.live /\ WorkerStep)
    /\ SF_vars(bounds.live /\ Clock)
    /\ \A s \in Sessions : SF_vars(bounds.live /\ SessionStep(s))

-----------------------------------------------------------------------------
(* Properties *)

Accounts == [id : Backends \cup {0}, seq : Nat]
Envelopes == [kind : {"none", "redirect", "close"}, seq : Nat, to : Accounts]

\* Every variable has its shape.
TypeOK ==
    /\ source.members \subseteq Backends /\ source.gen \in 0 .. bounds.publications
    /\ \A b \in Backends : router.known[b].since \in {"no", "fresh", "due"}
    /\ \A s \in Sessions :
         /\ ledger[s].stage \in {"none", "idle", "pending", "active"}
         /\ ledger[s].at \in Accounts /\ ledger[s].redirect \in Envelopes
         /\ owner[s].redirect \in Envelopes /\ owner[s].close \in Envelopes
    /\ worker.budget \in 0 .. Cardinality(Sessions) /\ worker.todo \subseteq Sessions

Copies(s, seq) == Cardinality({i \in DOMAIN Carried(s) : Carried(s)[i].seq = seq})

\* Between two holders of the router lock, a redirect or a close that the ledger
\* waits for is in exactly one envelope: nothing can be pending that nobody will
\* settle, and nothing can be settled twice (offer_redirect_locked sends before
\* it admits; a session may take the command, or end, in between).
PendingIsOwned ==
    ~Locked => \A s \in Sessions : ledger[s].stage = "active" =>
        /\ ledger[s].redirect.seq # 0 => Copies(s, ledger[s].redirect.seq) = 1
        /\ ledger[s].closing # 0 => Copies(s, ledger[s].closing) = 1

\* The account of a session, and the one it moves to, is the account its backend
\* has now, whatever the sources published meanwhile
\* (refresh_backend_metadata): an account that lost its backend would make
\* redirect_target fail and end every round before its closes.
OwnersAreKnown ==
    \A s \in Sessions : LET a == ledger[s].at
                            t == ledger[s].redirect.to
                        IN  /\ a # NoAccount => Account(router, a.id) = a /\ a.id \in Here(router)
                            /\ t # NoAccount => Account(router, t.id) = t /\ t.id \in Here(router)

\* The parts of the router agree with each other.
RouterConsistent == TypeOK /\ PendingIsOwned /\ OwnersAreKnown

\* When the sources have settled, a backend on the fail list ends without
\* sessions, moved or closed, and an unhealthy one too if there is a backend to
\* move them to; also when the namespace was replaced and only its sessions
\* hold the router (run_route_worker, migration_round, close_timed_out).
EvacuationCompletes ==
    <>[](bounds.live => \A s \in Sessions : ledger[s].stage = "active" =>
        LET b == ledger[s].at.id
        IN  /\ b \notin Failed(router, source)
            /\ \/ b \in Healthy(router) \/ Routeable(router, source) = {} \/ ~router.supports
               \/ \E t \in Routeable(router, source) : bounds.keyspace[t] # bounds.keyspace[b])

\* When the sources have settled, migrations stop, and they leave no backend that
\* the connection factor would relieve: redirects never chase each other
\* (phases::balance with scores that move when a redirect is admitted).
LoadSettles ==
    <>[](bounds.live =>
        /\ \A s \in Sessions : ledger[s].redirect.seq = 0
        /\ \A b, t \in Routeable(router, source) :
             router.supports /\ (\A x \in Here(router) : bounds.keyspace[x] = bounds.keyspace[b])
                => ~Unbalanced(ledger, Account(router, b), Account(router, t)))
=============================================================================
