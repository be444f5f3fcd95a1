------------------------------ MODULE Election ------------------------------
(***************************************************************************)
(* One election in etcd: members campaign with a lease each, the oldest    *)
(* candidate key leads, a leader that loses contact is uncertain until it  *)
(* has verified its lease and its key, and owner work is fenced twice: by  *)
(* a transaction in etcd and by a permit for one confirmed interval in the *)
(* process (control-etcd session.rs, authority.rs; driven by maintain in   *)
(* control-topology owner.rs and by control-config module.rs).             *)
(*                                                                         *)
(* A step is one request to etcd, executed and answered at once: an answer *)
(* that takes long is the same as a step of the others right after it.  A  *)
(* request may fail without having been executed, or after it was.  A key  *)
(* is named by its lease, so a lease stands for its session, its candidate *)
(* key and its authority.                                                  *)
(***************************************************************************)
EXTENDS Naturals, FiniteSets, TLC

CONSTANTS
    Members,
    MaxLeases,     \* campaigns, by all members
    Instances      \* the bounds explored, each a record of Bounds

\* members: those that campaign; puts: owner transactions; work: results
\* published; faults: failed requests, and keys removed from outside; stops:
\* scopes revoked, sessions stopped or dropped; live: whether tasks and etcd
\* are fair.
Bounds == [members : SUBSET Members, puts : Nat, work : Nat, faults : Nat, stops : Nat,
           live : BOOLEAN]

ASSUME ElectionAssumption ==
    /\ MaxLeases \in Nat /\ IsFiniteSet(Members)
    /\ Instances \subseteq Bounds

VARIABLES
    rev,        \* etcd: the store's revision
    alive,      \* etcd: leases that have not expired
    key,        \* etcd: creation revision of a lease's candidate key, 0 if none
    target,     \* etcd: the session that wrote last, by creation revision
    deleted,    \* when a candidate key was deleted
    granted,    \* number of leases granted
    session,    \* per member
    auth,       \* ElectionAuthority, per lease
    scope,      \* "none" while the owner and the scope of a session are live
    permits,    \* work under way
    results,    \* work published
    puts, faults, stops,
    bounds      \* the instance explored, never changed

etcd == <<rev, alive, key, target, deleted, granted>>
local == <<session, auth, scope, bounds>>
work == <<permits, results, bounds>>
counters == <<puts, faults, stops>>
vars == <<rev, alive, key, target, deleted, granted, session, auth, scope,
          permits, results, puts, faults, stops, bounds>>

Leases == 1 .. MaxLeases
Campaigns == {"create", "query", "wait", "attach", "watch"}
Recovery == {"ttl", "leader", "renew", "rewatch"}
Pcs == {"idle", "held", "relist", "resume", "resign", "revoke"} \cup Campaigns \cup Recovery
Phases == {"Campaigning", "Leader", "Uncertain", "Retired", "Stopped"}
Reasons == {"none", "lease", "owner", "scope", "process"}

\* from is next_watch_revision, open says whether watch_stream still delivers.
NoSession == [pc |-> "idle", lease |-> 0, created |-> 0, pred |-> 0, observed |-> 0,
              from |-> 0, open |-> FALSE, reason |-> "none"]
\* lapses is not in the code: how often the session stopped being the leader.
NewAuthority == [phase |-> "Campaigning", interval |-> 0, retired |-> FALSE, lapses |-> 0]

Max2(a, b) == IF a >= b THEN a ELSE b
Lease(m) == session[m].lease
Phase(m) == auth[Lease(m)].phase
In(m, pcs) == session[m].pc \in pcs

-----------------------------------------------------------------------------
(* Authority *)

\* transition: leaving Leader revokes the interval, entering it opens a fresh
\* one, and a terminal phase is never left.
TransitionedRevives(a, phase) ==
    IF a.retired THEN a
    ELSE [a EXCEPT !.phase = phase, !.retired = phase \in {"Retired", "Stopped"}]
Transitioned(a, phase) ==
    IF a.retired THEN a
    ELSE [a EXCEPT
            !.phase = phase,
            !.interval = IF phase = "Leader" /\ a.phase # "Leader" THEN @ + 1 ELSE @,
            !.retired = phase \in {"Retired", "Stopped"}]

Lapsed(a, b) == IF a.phase = "Leader" /\ b.phase # "Leader" THEN a.lapses + 1 ELSE a.lapses

Authority(l, phase) ==
    LET next == Transitioned(auth[l], phase)
    IN  auth' = [auth EXCEPT ![l] = [next EXCEPT !.lapses = Lapsed(auth[l], next)]]

InScope(l) == scope[l] = "none"
Live(l) == InScope(l) /\ ~auth[l].retired

\* capture_work
CaptureWork(l) ==
    /\ Live(l) /\ auth[l].phase = "Leader"
    /\ Cardinality(permits) + Cardinality(results) < bounds.work
    /\ \A p \in permits : p.lease # l \/ p.interval # auth[l].interval
    /\ permits' = permits \cup {[lease |-> l, interval |-> auth[l].interval, lapses |-> auth[l].lapses]}
    /\ UNCHANGED <<etcd, local, results, counters>>

\* with_current: the permit's interval is the current one.
Current(p) ==
    /\ Live(p.lease) /\ auth[p.lease].phase = "Leader"
    /\ auth[p.lease].interval = p.interval

Publish(p) ==
    /\ Current(p)
    /\ permits' = permits \ {p}
    /\ results' = results \cup {p}
    /\ UNCHANGED <<etcd, local, counters>>

GiveUp(p) ==
    /\ ~Current(p)
    /\ permits' = permits \ {p}
    /\ UNCHANGED <<etcd, local, results, counters>>

\* with_retained: what was published is served in uncertainty too.
Retained(l) == Live(l) /\ auth[l].phase \in {"Leader", "Uncertain"}

-----------------------------------------------------------------------------
(* Requests *)

Outcomes == {"ok", "lost", "late"}
Fault(f) ==
    /\ f # "ok" => faults < bounds.faults
    /\ faults' = IF f = "ok" THEN faults ELSE faults + 1

Candidates == {l \in Leases : key[l] # 0}
IsFirst(l) == \A k \in Candidates : key[l] <= key[k]
Observe(m, r) == [session[m] EXCEPT !.observed = Max2(@, r)]
Becomes(m, s) == session' = [session EXCEPT ![m] = s]

\* The owner comparison of every fenced transaction: creation revision,
\* lease and value of the own key.
FencedByRevision(m) == session[m].created # 0
Fenced(m) == key[Lease(m)] = session[m].created /\ session[m].created # 0

-----------------------------------------------------------------------------
(* Campaign *)

\* Any error ends the campaign; its lease is left to expire.
CampaignFails(m) ==
    /\ Becomes(m, NoSession)
    /\ Authority(Lease(m), "Retired")

Grant(m) ==
    /\ In(m, {"idle"}) /\ granted < MaxLeases
    /\ granted' = granted + 1
    /\ alive' = alive \cup {granted'}
    /\ Becomes(m, [NoSession EXCEPT !.pc = "create", !.lease = granted', !.observed = rev])
    /\ UNCHANGED <<rev, key, target, deleted, auth, scope, work, counters>>

CreateCandidate(m, f) ==
    LET l == Lease(m)
        runs == f # "lost" /\ l \in alive
    IN
    /\ In(m, {"create"}) /\ InScope(l)
    /\ Fault(f)
    /\ rev' = IF runs THEN rev + 1 ELSE rev
    /\ key' = IF runs THEN [key EXCEPT ![l] = rev + 1] ELSE key
    /\ IF f = "ok" /\ runs
         THEN /\ Becomes(m, [Observe(m, rev + 1) EXCEPT !.pc = "query", !.created = rev + 1])
              /\ UNCHANGED auth
         ELSE CampaignFails(m)
    /\ UNCHANGED <<alive, target, deleted, granted, scope, work, puts, stops>>

\* The youngest key older than the own one, read after a keepalive.
PredecessorsOwn(m) == {k \in Candidates : key[k] <= session[m].created}
Predecessors(m) == {k \in Candidates : key[k] < session[m].created}

Query(m, f) ==
    /\ In(m, {"query"}) /\ InScope(Lease(m))
    /\ Fault(f)
    /\ IF f = "ok" /\ Lease(m) \in alive
         THEN /\ UNCHANGED auth
              /\ IF Predecessors(m) = {}
                   THEN Becomes(m, [Observe(m, rev) EXCEPT !.pc = "attach", !.pred = 0])
                   ELSE \E p \in Predecessors(m) :
                          /\ \A k \in Predecessors(m) : key[k] <= key[p]
                          /\ Becomes(m, [Observe(m, rev) EXCEPT !.pc = "wait", !.pred = p])
         ELSE CampaignFails(m)
    /\ UNCHANGED <<etcd, scope, work, puts, stops>>

\* The predecessor's key is deleted, or the watch was compacted: look again.
PredecessorGone(m) ==
    /\ In(m, {"wait"}) /\ InScope(Lease(m))
    /\ key[session[m].pred] = 0
    /\ Becomes(m, [Observe(m, deleted[session[m].pred]) EXCEPT !.pc = "query"])
    /\ UNCHANGED <<etcd, auth, scope, work, counters>>

WatchCompacted(m) ==
    /\ In(m, {"wait"}) /\ InScope(Lease(m)) /\ faults < bounds.faults
    /\ faults' = faults + 1
    /\ Becomes(m, [session[m] EXCEPT !.pc = "query"])
    /\ UNCHANGED <<etcd, auth, scope, work, puts, stops>>

\* A heartbeat finds the lease gone, or the stream breaks.
WaitFails(m) ==
    /\ In(m, {"wait"})
    /\ Lease(m) \notin alive \/ faults < bounds.faults
    /\ faults' = IF Lease(m) \notin alive THEN faults ELSE faults + 1
    /\ CampaignFails(m)
    /\ UNCHANGED <<etcd, scope, work, puts, stops>>

\* The session key is written under the fence: the proof of leadership.
Attach(m, f) ==
    LET runs == f # "lost" /\ Fenced(m)
    IN
    /\ In(m, {"attach"}) /\ InScope(Lease(m))
    /\ Fault(f)
    /\ rev' = IF runs THEN rev + 1 ELSE rev
    /\ IF f = "ok" /\ runs
         THEN Becomes(m, [Observe(m, rev + 1) EXCEPT !.pc = "watch"]) /\ UNCHANGED auth
         ELSE CampaignFails(m)
    /\ UNCHANGED <<alive, key, target, deleted, granted, scope, work, puts, stops>>

\* start_watch: what happened to the key at or after this revision is seen.
WatchFrom(m) == session[m].observed + 1

BecomeLeader(m, f) ==
    /\ In(m, {"watch"}) /\ InScope(Lease(m))
    /\ Fault(f)
    /\ IF f = "ok"
         THEN /\ Becomes(m, [session[m] EXCEPT !.pc = "held", !.from = WatchFrom(m), !.open = TRUE])
              /\ Authority(Lease(m), "Leader")
         ELSE CampaignFails(m)
    /\ UNCHANGED <<etcd, scope, work, puts, stops>>

-----------------------------------------------------------------------------
(* A held session *)

Retire(m, reason) ==
    /\ Becomes(m, [session[m] EXCEPT !.pc = "held", !.reason = reason])
    /\ Authority(Lease(m), "Retired")

\* mark_uncertain
Uncertain(m) ==
    /\ Becomes(m, [session[m] EXCEPT !.pc = "held"])
    /\ IF Phase(m) \in {"Leader", "Uncertain"} THEN Authority(Lease(m), "Uncertain") ELSE UNCHANGED auth

Leads(m) == In(m, {"held"}) /\ Phase(m) = "Leader" /\ InScope(Lease(m))

\* In uncertainty too, when a heartbeat cut a recovery of watch_once short.
KeepAlive(m, f) ==
    /\ In(m, {"held"}) /\ Phase(m) \in {"Leader", "Uncertain"} /\ InScope(Lease(m))
    /\ Fault(f)
    /\ IF f # "ok" THEN Uncertain(m)
       ELSE IF Lease(m) \in alive THEN Becomes(m, Observe(m, rev)) /\ UNCHANGED auth
       ELSE Retire(m, "lease")
    /\ UNCHANGED <<etcd, scope, work, puts, stops>>

\* watch_once: a progress response, the deletion of the key (which asks for
\* a recovery), a broken stream, or a compaction.
WatchProgress(m) ==
    /\ Leads(m) /\ session[m].open /\ session[m].from <= rev
    /\ key[Lease(m)] # 0 \/ deleted[Lease(m)] < session[m].from
    /\ Becomes(m, [Observe(m, rev) EXCEPT !.from = rev + 1])
    /\ UNCHANGED <<etcd, auth, scope, work, counters>>

WatchDelete(m) ==
    /\ Leads(m) /\ session[m].open
    /\ key[Lease(m)] = 0 /\ deleted[Lease(m)] >= session[m].from
    /\ Becomes(m, [Observe(m, deleted[Lease(m)]) EXCEPT
                     !.pc = "ttl", !.from = deleted[Lease(m)] + 1])
    /\ Authority(Lease(m), "Uncertain")
    /\ UNCHANGED <<etcd, scope, work, counters>>

WatchBreaks(m) ==
    /\ Leads(m)
    /\ session[m].open => faults < bounds.faults
    /\ faults' = IF session[m].open THEN faults + 1 ELSE faults
    /\ Uncertain(m)
    /\ UNCHANGED <<etcd, scope, work, puts, stops>>

WatchIsCompacted(m) ==
    /\ Leads(m) /\ session[m].open /\ faults < bounds.faults
    /\ faults' = faults + 1
    /\ Becomes(m, [session[m] EXCEPT !.pc = "relist", !.open = FALSE])
    /\ UNCHANGED <<etcd, auth, scope, work, puts, stops>>

\* Whether the election's first key is the own one, unchanged.
StillOwner(m) == Fenced(m) /\ IsFirst(Lease(m))

\* recover_compacted_watch: read the leader, watch from that revision.
Relist(m, f) ==
    /\ In(m, {"relist"}) /\ InScope(Lease(m))
    /\ Fault(f)
    /\ IF f # "ok" THEN Uncertain(m)
       ELSE IF ~StillOwner(m) THEN Retire(m, "owner")
       ELSE Becomes(m, [Observe(m, rev) EXCEPT !.pc = "resume"]) /\ UNCHANGED auth
    /\ UNCHANGED <<etcd, scope, work, puts, stops>>

Resume(m, f) ==
    /\ In(m, {"resume"}) /\ InScope(Lease(m))
    /\ Fault(f)
    /\ IF f # "ok" THEN Uncertain(m)
       ELSE /\ Becomes(m, [session[m] EXCEPT !.pc = "held", !.from = WatchFrom(m), !.open = TRUE])
            /\ Authority(Lease(m), "Leader")
    /\ UNCHANGED <<etcd, scope, work, puts, stops>>

\* maintain: a heartbeat cancels watch_once in the middle of the relist; the
\* ended stream stays in place.
Interrupt(m) ==
    /\ In(m, {"relist", "resume"}) /\ faults < bounds.faults
    /\ faults' = faults + 1
    /\ Becomes(m, [session[m] EXCEPT !.pc = "held"])
    /\ UNCHANGED <<etcd, auth, scope, work, puts, stops>>

\* fenced_persistent_put and fenced_persistent_delete.
Put(m, f) ==
    LET runs == f # "lost" /\ Fenced(m)
    IN
    /\ Leads(m) /\ puts < bounds.puts
    /\ puts' = puts + 1
    /\ Fault(f)
    /\ rev' = IF runs THEN rev + 1 ELSE rev
    /\ target' = IF runs THEN session[m].created ELSE target
    /\ IF f # "ok" THEN Uncertain(m)
       ELSE IF runs THEN Becomes(m, Observe(m, rev + 1)) /\ UNCHANGED auth
       ELSE Retire(m, "owner")
    /\ UNCHANGED <<alive, key, deleted, granted, scope, work, stops>>

-----------------------------------------------------------------------------
(* Recovery *)

BeginRecovery(m) ==
    /\ In(m, {"held"}) /\ Phase(m) = "Uncertain" /\ InScope(Lease(m))
    /\ Becomes(m, [session[m] EXCEPT !.pc = "ttl"])
    /\ UNCHANGED <<etcd, auth, scope, work, counters>>

\* A step of the verification: an error leaves the session uncertain.
Verify(m, f, at, holds, reason, next) ==
    /\ In(m, {at}) /\ InScope(Lease(m))
    /\ Fault(f)
    /\ IF f # "ok" THEN Becomes(m, [session[m] EXCEPT !.pc = "held"]) /\ UNCHANGED auth
       ELSE IF ~holds THEN Retire(m, reason)
       ELSE Becomes(m, [Observe(m, rev) EXCEPT !.pc = next]) /\ UNCHANGED auth
    /\ UNCHANGED <<etcd, scope, work, puts, stops>>

VerifyLease(m, f) == Verify(m, f, "ttl", Lease(m) \in alive, "lease", "leader")
VerifyLeader(m, f) == Verify(m, f, "leader", StillOwner(m), "owner", "renew")
VerifyRenewed(m, f) == Verify(m, f, "renew", Lease(m) \in alive, "lease", "rewatch")

\* The watch goes on where it ended, so what happened meanwhile is seen.
ResumeFromObserved(m) == session[m].observed + 1
ResumeFrom(m) == session[m].from

Restore(m, f) ==
    /\ In(m, {"rewatch"}) /\ InScope(Lease(m))
    /\ Fault(f)
    /\ IF f # "ok" THEN Uncertain(m)
       ELSE /\ Becomes(m, [session[m] EXCEPT !.pc = "held", !.from = ResumeFrom(m), !.open = TRUE])
            /\ Authority(Lease(m), "Leader")
    /\ UNCHANGED <<etcd, scope, work, puts, stops>>

-----------------------------------------------------------------------------
(* The end of a session *)

\* The owner or the scope is retired at any time; the session finds out at
\* its next request.
RevokeScope(l, reason) ==
    /\ InScope(l) /\ l <= granted /\ stops < bounds.stops
    /\ stops' = stops + 1
    /\ scope' = [scope EXCEPT ![l] = reason]
    /\ UNCHANGED <<etcd, session, auth, work, puts, faults>>

NoticeScope(m) ==
    /\ Lease(m) # 0 /\ ~InScope(Lease(m))
    /\ \/ In(m, Campaigns) /\ CampaignFails(m)
       \/ In(m, {"held", "relist", "resume"} \cup Recovery) /\ session[m].reason = "none" /\ Retire(m, scope[Lease(m)])
    /\ UNCHANGED <<etcd, scope, work, counters>>

\* shutdown: the authority ends first, then the key and the lease are given
\* back, if they are still thought to be held.
Shutdown(m) ==
    LET cleans == /\ scope[Lease(m)] # "process"
                  /\ Phase(m) \in {"Leader", "Uncertain"} \/ session[m].reason = "scope"
    IN
    /\ In(m, {"held"})
    /\ session[m].reason # "none" \/ stops < bounds.stops
    /\ stops' = IF session[m].reason # "none" THEN stops ELSE stops + 1
    /\ Becomes(m, IF cleans THEN [session[m] EXCEPT !.pc = "resign"] ELSE NoSession)
    /\ Authority(Lease(m), "Retired")
    /\ UNCHANGED <<etcd, scope, work, puts, faults>>

\* The deletion of a key and the end of a lease, at etcd.
DeleteKey(l) ==
    /\ rev' = IF key[l] # 0 THEN rev + 1 ELSE rev
    /\ deleted' = IF key[l] # 0 THEN [deleted EXCEPT ![l] = rev + 1] ELSE deleted
    /\ key' = [key EXCEPT ![l] = 0]

Resign(m, f) ==
    /\ In(m, {"resign"})
    /\ Fault(f)
    /\ IF f # "lost" /\ Fenced(m) THEN DeleteKey(Lease(m)) ELSE UNCHANGED <<rev, deleted, key>>
    /\ Becomes(m, [session[m] EXCEPT !.pc = "revoke"])
    /\ UNCHANGED <<alive, target, granted, auth, scope, work, puts, stops>>

RevokeLease(m, f) ==
    /\ In(m, {"revoke"})
    /\ Fault(f)
    /\ IF f # "lost"
         THEN DeleteKey(Lease(m)) /\ alive' = alive \ {Lease(m)}
         ELSE UNCHANGED <<rev, deleted, key, alive>>
    /\ Becomes(m, NoSession)
    /\ UNCHANGED <<target, granted, auth, scope, work, puts, stops>>

\* The task is aborted or the process dies: no request, the authority ends.
Drop(m) ==
    /\ ~In(m, {"idle"}) /\ stops < bounds.stops
    /\ stops' = stops + 1
    /\ Becomes(m, NoSession)
    /\ Authority(Lease(m), "Retired")
    /\ UNCHANGED <<etcd, scope, work, puts, faults>>

\* A lease that was not renewed in time ends with its keys.
Expire(l) ==
    /\ l \in alive
    /\ alive' = alive \ {l}
    /\ DeleteKey(l)
    /\ UNCHANGED <<target, granted, local, work, counters>>

\* An operator removes a candidate key.
Removed(l) ==
    /\ key[l] # 0 /\ faults < bounds.faults
    /\ faults' = faults + 1
    /\ DeleteKey(l)
    /\ UNCHANGED <<alive, target, granted, local, work, puts, stops>>

-----------------------------------------------------------------------------
(* Specification *)

Init ==
    /\ rev = 1 /\ alive = {} /\ target = 0 /\ granted = 0
    /\ key = [l \in Leases |-> 0]
    /\ deleted = [l \in Leases |-> 0]
    /\ session = [m \in Members |-> NoSession]
    /\ auth = [l \in Leases |-> NewAuthority]
    /\ scope = [l \in Leases |-> "none"]
    /\ permits = {} /\ results = {}
    /\ puts = 0 /\ faults = 0 /\ stops = 0
    /\ bounds \in Instances

Request(m) ==
    \/ \E f \in Outcomes : CreateCandidate(m, f)
    \/ \E f \in Outcomes : Query(m, f)
    \/ PredecessorGone(m)
    \/ \E f \in Outcomes : Attach(m, f)
    \/ \E f \in Outcomes : BecomeLeader(m, f)
    \/ \E f \in Outcomes : KeepAlive(m, f)
    \/ WatchProgress(m)
    \/ WatchDelete(m)
    \/ \E f \in Outcomes : Relist(m, f)
    \/ \E f \in Outcomes : Resume(m, f)
    \/ BeginRecovery(m)
    \/ \E f \in Outcomes : VerifyLease(m, f)
    \/ \E f \in Outcomes : VerifyLeader(m, f)
    \/ \E f \in Outcomes : VerifyRenewed(m, f)
    \/ \E f \in Outcomes : Restore(m, f)
    \/ NoticeScope(m)
    \/ \E f \in Outcomes : Resign(m, f)
    \/ \E f \in Outcomes : RevokeLease(m, f)

Next ==
    \/ \E m \in bounds.members : Grant(m)
    \/ \E m \in Members : Request(m)
    \/ \E m \in Members : WatchCompacted(m)
    \/ \E m \in Members : WaitFails(m)
    \/ \E m \in Members : WatchBreaks(m)
    \/ \E m \in Members : WatchIsCompacted(m)
    \/ \E m \in Members : Interrupt(m)
    \/ \E m \in Members, f \in Outcomes : Put(m, f)
    \/ \E m \in Members : Shutdown(m)
    \/ \E m \in Members : Drop(m)
    \/ \E l \in Leases, reason \in {"scope", "process"} : RevokeScope(l, reason)
    \/ \E l \in Leases : Removed(l)
    \/ \E l \in Leases : Expire(l)
    \/ \E l \in Leases : CaptureWork(l)
    \/ \E p \in permits : Publish(p)
    \/ \E p \in permits : GiveUp(p)

Spec == Init /\ [][Next]_vars

Abandoned(l) == l \in alive /\ \A m \in Members : Lease(m) # l

\* What a task does about something that has happened already.
Reacts(m) ==
    \/ Request(m)
    \/ Lease(m) \notin alive /\ WaitFails(m)
    \/ ~session[m].open /\ WatchBreaks(m)
    \/ session[m].reason # "none" /\ Shutdown(m)

\* etcd answers, the tasks run, and a lease nobody renews ends.
Fairness ==
    /\ \A m \in Members : WF_vars(bounds.live /\ Reacts(m))
    /\ \A l \in Leases : WF_vars(bounds.live /\ Abandoned(l) /\ Expire(l))

FairSpec == Spec /\ Fairness

-----------------------------------------------------------------------------
(* Properties *)

Revisions == 0 .. rev + 1

\* Every variable has its shape.
TypeOK ==
    /\ rev \in Nat /\ target \in Nat /\ granted \in 0 .. MaxLeases
    /\ alive \subseteq Leases
    /\ key \in [Leases -> Revisions] /\ deleted \in [Leases -> Revisions]
    /\ session \in [Members -> [pc : Pcs, lease : 0 .. MaxLeases, created : Revisions,
                                pred : 0 .. MaxLeases, observed : Revisions, from : Revisions,
                                open : BOOLEAN, reason : Reasons]]
    /\ auth \in [Leases -> [phase : Phases, interval : Nat, retired : BOOLEAN, lapses : Nat]]
    /\ scope \in [Leases -> {"none", "scope", "process"}]
    /\ permits \cup results \subseteq [lease : Leases, interval : Nat, lapses : Nat]
    /\ <<puts, faults, stops>> \in Nat \X Nat \X Nat

\* A session that has won leads the election for as long as its key exists:
\* no other candidate is older (campaign_candidate looks for older keys only,
\* and only once more after each deletion it sees).
WinnerIsFirst ==
    \A m \in Members :
        In(m, Pcs \ {"idle", "create", "query", "wait"}) /\ Fenced(m) => IsFirst(Lease(m))

\* Owner writes are ordered like the sessions that make them: once a later
\* session has written, no transaction of an earlier one succeeds, however
\* late it is executed and whatever the earlier session believes it is
\* (fenced_persistent_put, fenced_persistent_delete).
WritesFollowSuccession == [][target' >= target]_vars

\* While the watch of a leading session is open it has not missed the end of
\* the session's key, whichever requests advanced the observed revision since
\* (start_watch, recover, recover_compacted_watch).
WatchMissesNothing ==
    \A m \in Members :
        Leads(m) /\ session[m].open /\ key[Lease(m)] = 0 => deleted[Lease(m)] >= session[m].from

\* Work is published only if its session has been the confirmed leader from
\* the capture of the permit to the publication: uncertainty in between, even
\* if recovered from, ends it for good (capture_work, with_current).
NoStalePublication ==
    [][\A p \in results' \ results : p.lapses = auth[p.lease].lapses]_vars

\* What a session published is served while it may still be the owner and by
\* one session per member only: the authority of an earlier session of the
\* member never comes back (retire, with_retained).
EndedSessionsRetainNothing ==
    \A l \in Leases : Retained(l) => \E m \in Members : Lease(m) = l

\* The state invariants of an election together: a winner is first, an open
\* watch misses nothing, an ended session retains nothing.
ElectionConsistent ==
    TypeOK /\ WinnerIsFirst /\ WatchMissesNothing /\ EndedSessionsRetainNothing

\* A waiting candidate is not left behind: in the end some session leads with
\* its key in place, or this campaign has ended (wait_for_predecessor_delete).
SomebodyLeads ==
    \A m \in Members :
        bounds.live /\ In(m, {"wait"}) ~> \/ \E n \in Members : Leads(n) /\ Fenced(n)
                          \/ In(m, {"idle"})
=============================================================================
