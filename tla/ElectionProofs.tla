--------------------------- MODULE ElectionProofs ---------------------------
(***************************************************************************)
(* Proofs about Election and Authority.                                    *)
(*                                                                         *)
(* What an election promises rests on facts about                          *)
(* sessions that are not in the middle of what the promise is about: a     *)
(* session that has looked for predecessors never sees an older key again, *)
(* since keys only get younger; a session about to open a watch still has  *)
(* its key or has not observed its end; and an interval that ended is      *)
(* never current again.  Sound states the first two for one session and    *)
(* the store as it is, Store those of the store alone, PermitsFollow the   *)
(* third.                                                                  *)
(***************************************************************************)
EXTENDS Election, Authority, TLAPS

SessionRecs ==
    [pc : Pcs, lease : Nat, created : Nat, pred : Nat, observed : Nat,
     from : Nat, open : BOOLEAN, reason : Reasons]
AuthorityRecs == [phase : Phases, interval : Nat, retired : BOOLEAN, lapses : Nat]
PermitRecs == [lease : Leases, interval : Nat, lapses : Nat]

\* The parts of the type invariant that no other conjunct needs to relate.
Shapes ==
    /\ granted \in 0 .. MaxLeases
    /\ alive \subseteq Leases
    /\ session \in [Members -> SessionRecs]
    /\ auth \in [Leases -> AuthorityRecs]
    /\ scope \in [Leases -> {"none", "scope", "process"}]
    /\ permits \cup results \subseteq PermitRecs
    /\ puts \in Nat /\ faults \in Nat /\ stops \in Nat
    /\ bounds \in Bounds

\* Nothing is newer than the store, and no key is older than the last writer.
Store(r, k, d, t) ==
    /\ r \in Nat /\ t \in Nat /\ t <= r
    /\ k \in [Leases -> Nat] /\ d \in [Leases -> Nat]
    /\ \A l \in Leases : k[l] <= r /\ d[l] <= r /\ (k[l] = 0 \/ t <= k[l])

HasWon(s) == s.pc \in {"attach", "watch", "held", "relist", "resume", "resign", "revoke"} \cup Recovery

\* A session s with authority a, while the store has revision r, candidate
\* keys k, deletions d and g leases granted.
Sound(s, a, r, k, d, g) ==
    /\ s.pc # "idle" /\ s.lease \in Leases /\ s.lease <= g
    /\ s.created <= r /\ s.observed <= r /\ s.from <= r + 1
    /\ s.pc = "wait" => s.pred \in Leases
    /\ s.pred <= MaxLeases
    /\ HasWon(s) => \A l \in Leases : k[l] = 0 \/ s.created <= k[l]
    /\ s.pc \in {"watch", "resume"} /\ k[s.lease] = 0 => s.observed < d[s.lease]
    /\ s.pc \in {"renew", "rewatch"} /\ k[s.lease] = 0 => s.from <= d[s.lease]
    /\ s.pc = "held" /\ a.phase = "Leader" /\ s.open /\ k[s.lease] = 0 => s.from <= d[s.lease]
    /\ s.pc \in {"relist", "resume"} => ~s.open
    /\ s.pc \in Recovery => a.phase # "Leader"
    /\ s.pc \in {"resign", "revoke"} => a.phase \notin {"Leader", "Uncertain"}

Sessions ==
    \A m \in Members :
        \/ session[m] = NoSession
        \/ Sound(session[m], auth[session[m].lease], rev, key, deleted, granted)

LeasesDiffer ==
    \A m, n \in Members :
        m # n /\ session[m].lease = session[n].lease => session[m].lease = 0

Retires(a) == a.retired <=> a.phase \in {"Retired", "Stopped"}

SessionAuthorities == \A l \in Leases : Retires(auth[l])

HeldByItsSession ==
    \A l \in Leases :
        auth[l].phase \in {"Leader", "Uncertain"} => \E m \in Members : session[m].lease = l

\* A permit is not ahead of its authority, and a current one has seen no lapse.
Follows(p, a) ==
    /\ p.interval <= a.interval
    /\ a.phase = "Leader" /\ p.interval = a.interval => p.lapses = a.lapses

PermitsFollow == \A p \in permits : Follows(p, auth[p.lease])

IInv ==
    /\ Shapes
    /\ Store(rev, key, deleted, target)
    /\ Sessions
    /\ LeasesDiffer
    /\ SessionAuthorities
    /\ HeldByItsSession
    /\ PermitsFollow

-----------------------------------------------------------------------------
(* The pieces *)

LEMMA Max2Facts ==
    ASSUME NEW x \in Nat, NEW y \in Nat
    PROVE  Max2(x, y) \in {x, y} /\ x <= Max2(x, y) /\ y <= Max2(x, y)
BY DEF Max2

\* A change of an authority under which permits keep following it.
Advances(a, b) ==
    /\ b \in AuthorityRecs /\ Retires(b)
    /\ \A p \in PermitRecs : Follows(p, a) => Follows(p, b)

Changed(a, phase) == [Transitioned(a, phase) EXCEPT !.lapses = Lapsed(a, Transitioned(a, phase))]

\* transition: leaving the leadership closes the interval for good.
LEMMA ChangedAdvances ==
    ASSUME NEW a \in AuthorityRecs, Retires(a), NEW phase \in Phases
    PROVE  /\ Advances(a, Changed(a, phase))
           /\ a.retired => Changed(a, phase).phase = a.phase
           /\ ~a.retired => Changed(a, phase).phase = phase
<1> DEFINE b == Changed(a, phase)
           i == IF phase = "Leader" /\ a.phase # "Leader" THEN a.interval + 1 ELSE a.interval
           e == phase \in {"Retired", "Stopped"}
           t == [a EXCEPT !.phase = phase, !.interval = i, !.retired = e]
<1>1. CASE a.retired
  <2>1. Transitioned(a, phase) = a
    BY <1>1 DEF Transitioned
  <2>2. Lapsed(a, a) = a.lapses
    BY DEF Lapsed
  <2>3. b = a
    BY <2>1, <2>2 DEF Changed, AuthorityRecs
  <2> QED BY <1>1, <2>3 DEF Advances
<1>2. CASE ~a.retired
  <2>1. Transitioned(a, phase) = t
    BY <1>2, Zenon DEF Transitioned
  <2>2. /\ i \in Nat /\ i >= a.interval
        /\ phase = "Leader" /\ a.phase # "Leader" => i > a.interval
        /\ e \in BOOLEAN
    BY DEF AuthorityRecs
  <2> HIDE DEF i, e
  <2>3. /\ t \in AuthorityRecs /\ t.phase = phase /\ t.interval = i
        /\ t.retired = e /\ t.lapses = a.lapses
    BY <2>2 DEF AuthorityRecs
  <2> HIDE DEF t
  <2>4. b = [t EXCEPT !.lapses = Lapsed(a, t)]
    BY <2>1 DEF Changed
  <2>5. Lapsed(a, t) \in Nat
    BY DEF Lapsed, AuthorityRecs
  <2>6. /\ b \in AuthorityRecs /\ b.phase = phase /\ b.interval = i
        /\ b.retired = e /\ b.lapses = Lapsed(a, t)
    BY <2>3, <2>4, <2>5 DEF AuthorityRecs
  <2> HIDE DEF b
  <2>7. a.phase = "Leader" /\ phase = "Leader" => b.lapses = a.lapses
    BY <2>3, <2>6 DEF Lapsed
  <2>8. ASSUME NEW p \in PermitRecs, Follows(p, a)
        PROVE  Follows(p, b)
    BY <2>2, <2>6, <2>7, <2>8 DEF Follows, PermitRecs, AuthorityRecs
  <2>9. Retires(b)
    BY <2>6 DEF Retires, e
  <2> QED BY <1>2, <2>6, <2>8, <2>9 DEF Advances, b
<1> QED BY <1>1, <1>2

\* What a request may do to the store: a key ends, or, for the lease x only, a
\* key newer than all is created.
Evolves(r, k, d, r2, k2, d2, x) ==
    /\ r <= r2
    /\ \A l \in Leases :
          \/ k2[l] = k[l] /\ d2[l] = d[l]
          \/ k2[l] = 0 /\ d2[l] = r2 /\ r2 = r + 1
          \/ l = x /\ k2[l] = r2 /\ r2 = r + 1

LEMMA SoundEvolves ==
    ASSUME NEW r, NEW k, NEW d, NEW t, Store(r, k, d, t),
           NEW r2, NEW k2, NEW d2, NEW t2, Store(r2, k2, d2, t2),
           NEW x, Evolves(r, k, d, r2, k2, d2, x),
           NEW s \in SessionRecs, s.lease # x, NEW a, NEW g \in Nat,
           NEW g2 \in Nat, g <= g2,
           Sound(s, a, r, k, d, g)
    PROVE  Sound(s, a, r2, k2, d2, g2)
<1>1. /\ r \in Nat /\ r2 \in Nat /\ r <= r2
      /\ s.lease \in Leases /\ s.created \in Nat /\ s.observed \in Nat /\ s.from \in Nat
      /\ \A l \in Leases : k[l] \in Nat /\ d[l] \in Nat /\ k2[l] \in Nat /\ d2[l] \in Nat
  BY DEF Store, SessionRecs, Sound, Evolves
<1>2. ASSUME HasWon(s), NEW l \in Leases
      PROVE  k2[l] = 0 \/ s.created <= k2[l]
  BY <1>1, <1>2 DEF Sound, Evolves
<1>3. k2[s.lease] = 0 =>
         \/ (k[s.lease] = 0 /\ d2[s.lease] = d[s.lease])
         \/ d2[s.lease] = r + 1
  BY <1>1 DEF Evolves
<1>4. s.lease <= g2
  BY DEF Sound, SessionRecs
<1>5. s.created <= r2 /\ s.observed <= r2 /\ s.from <= r2 + 1
  BY <1>1 DEF Sound
<1>6. /\ s.pc \in {"watch", "resume"} /\ k2[s.lease] = 0 => s.observed < d2[s.lease]
      /\ s.pc \in {"renew", "rewatch"} /\ k2[s.lease] = 0 => s.from <= d2[s.lease]
      /\ s.pc = "held" /\ a.phase = "Leader" /\ s.open /\ k2[s.lease] = 0 =>
            s.from <= d2[s.lease]
  BY <1>1, <1>3 DEF Sound
<1> QED BY <1>1, <1>2, <1>4, <1>5, <1>6 DEF Sound

\* What is known of a session in progress.
LEMMA InProgress ==
    ASSUME IInv, NEW m \in Members, session[m].pc # "idle"
    PROVE  /\ session[m] # NoSession
           /\ session[m] \in SessionRecs
           /\ Lease(m) = session[m].lease /\ Lease(m) \in Leases
           /\ auth[Lease(m)] \in AuthorityRecs /\ Retires(auth[Lease(m)])
           /\ Sound(session[m], auth[Lease(m)], rev, key, deleted, granted)
<1>1. session[m] # NoSession
  BY DEF NoSession
<1>2. session[m] \in SessionRecs
  BY DEF IInv, Shapes
<1>3. Sound(session[m], auth[Lease(m)], rev, key, deleted, granted)
  BY <1>1 DEF IInv, Sessions, Lease
<1>4. Lease(m) \in Leases
  BY <1>3 DEF Sound, Lease
<1> QED BY <1>1, <1>2, <1>3, <1>4 DEF IInv, Shapes, SessionAuthorities, Lease

-----------------------------------------------------------------------------
(* One step of one session *)

\* What a step leaves alone besides the session and its authority.
Around(x) ==
    /\ Store(rev', key', deleted', target')
    /\ Evolves(rev, key, deleted, rev', key', deleted', x)
    /\ alive' \subseteq Leases
    /\ puts' \in Nat /\ faults' \in Nat /\ stops' \in Nat
    /\ UNCHANGED <<granted, scope, permits, results, bounds>>

\* The session of m becomes s, its authority a.
LEMMA SessionStep ==
    ASSUME IInv, NEW m \in Members, session[m].pc # "idle",
           NEW x \in {0, Lease(m)}, Around(x),
           NEW s \in SessionRecs, Becomes(m, s),
           NEW a, auth' = [auth EXCEPT ![Lease(m)] = a], Advances(auth[Lease(m)], a),
           \/ s = NoSession /\ a.phase \notin {"Leader", "Uncertain"}
           \/ s.lease = Lease(m) /\ Sound(s, a, rev', key', deleted', granted)
    PROVE  IInv'
<1> DEFINE l == Lease(m)
<1>0. /\ l \in Leases /\ session[m].lease = l /\ l # 0
      /\ session \in [Members -> SessionRecs] /\ auth \in [Leases -> AuthorityRecs]
      /\ granted \in Nat /\ s.lease \in {0, l}
  BY InProgress DEF IInv, Shapes, Leases, NoSession
<1>1. /\ session' \in [Members -> SessionRecs]
      /\ session'[m] = s /\ \A n \in Members \ {m} : session'[n] = session[n]
  BY <1>0 DEF Becomes
<1>2. /\ auth' \in [Leases -> AuthorityRecs]
      /\ auth'[l] = a /\ \A k \in Leases \ {l} : auth'[k] = auth[k]
  BY <1>0 DEF Advances
<1> HIDE DEF l
<1>3. Shapes'
  BY <1>1, <1>2 DEF IInv, Shapes, Around
<1>4. Store(rev', key', deleted', target')
  BY DEF Around
<1>5. ASSUME NEW n \in Members, session'[n] # NoSession
      PROVE  Sound(session'[n], auth'[session'[n].lease], rev', key', deleted', granted')
  <2>1. CASE n = m
    BY <1>1, <1>2, <1>5, <2>1 DEF Around, l
  <2>2. CASE n # m
    <3>1. /\ session'[n] = session[n] /\ session[n] # NoSession
          /\ session[n] \in SessionRecs
          /\ Sound(session[n], auth[session[n].lease], rev, key, deleted, granted)
      BY <1>0, <1>1, <1>5, <2>2 DEF IInv, Sessions
    <3>2. session[n].lease \in Leases /\ session[n].lease # 0
      BY <3>1 DEF Sound, Leases
    <3>3. session[n].lease # l
      BY <1>0, <2>2, <3>2 DEF IInv, LeasesDiffer
    <3>4. session[n].lease # x
      BY <3>2, <3>3 DEF l
    <3>5. Sound(session[n], auth[session[n].lease], rev', key', deleted', granted)
      BY <1>0, <1>4, <3>1, <3>4, SoundEvolves DEF IInv, Around
    <3> QED BY <1>2, <3>1, <3>2, <3>3, <3>5 DEF Around
  <2> QED BY <2>1, <2>2
<1>6. Sessions'
  BY <1>5 DEF Sessions
<1>7. LeasesDiffer'
  <2> SUFFICES ASSUME NEW n \in Members, NEW o \in Members, n # o,
                      session'[n].lease = session'[o].lease
               PROVE  session'[n].lease = 0
    BY DEF LeasesDiffer
  <2> QED BY <1>0, <1>1 DEF IInv, LeasesDiffer
<1>8. SessionAuthorities'
  BY <1>0, <1>2 DEF IInv, SessionAuthorities, Advances
<1>9. HeldByItsSession'
  <2> SUFFICES ASSUME NEW k \in Leases, auth'[k].phase \in {"Leader", "Uncertain"}
               PROVE  \E n \in Members : session'[n].lease = k
    BY DEF HeldByItsSession
  <2>1. CASE k = l
    BY <1>1, <1>2, <2>1 DEF l
  <2>2. CASE k # l
    <3>1. PICK n \in Members : session[n].lease = k
      BY <1>2, <2>2 DEF IInv, HeldByItsSession
    <3> QED BY <1>0, <1>1, <2>2, <3>1
  <2> QED BY <2>1, <2>2
<1>10. PermitsFollow'
  <2> SUFFICES ASSUME NEW p \in permits PROVE Follows(p, auth'[p.lease])
    BY DEF PermitsFollow, Around
  <2>1. p \in PermitRecs /\ p.lease \in Leases /\ Follows(p, auth[p.lease])
    BY DEF IInv, Shapes, PermitsFollow, PermitRecs
  <2> QED BY <1>2, <2>1 DEF Advances, l
<1> QED BY <1>3, <1>4, <1>6, <1>7, <1>8, <1>9, <1>10 DEF IInv

-----------------------------------------------------------------------------
(* The kinds of steps *)

LEMMA NoSessionRec == NoSession \in SessionRecs /\ NoSession.pc = "idle" /\ NoSession.lease = 0
BY DEF NoSession, SessionRecs, Pcs, Reasons

LEMMA Quiet ==
    ASSUME IInv, UNCHANGED <<etcd, scope, work>>,
           puts' \in Nat, faults' \in Nat, stops' \in Nat
    PROVE  Around(0)
<1>1. UNCHANGED <<rev, alive, key, target, deleted, granted, scope, permits, results, bounds>>
  BY DEF etcd, work
<1> QED BY <1>1 DEF Around, IInv, Shapes, Store, Evolves

LEMMA FaultCounts ==
    ASSUME IInv, NEW f, Fault(f)
    PROVE  faults' \in Nat
BY DEF Fault, IInv, Shapes

\* The session of m as it is, in the store as it has become.
LEMMA Evolved ==
    ASSUME IInv, NEW m \in Members, session[m].pc # "idle", Around(0)
    PROVE  Sound(session[m], auth[Lease(m)], rev', key', deleted', granted)
<1>1. /\ session[m] \in SessionRecs /\ session[m].lease # 0
      /\ Sound(session[m], auth[Lease(m)], rev, key, deleted, granted)
  BY InProgress DEF Leases
<1>2. granted \in Nat /\ Store(rev, key, deleted, target)
  BY DEF IInv, Shapes
<1> QED BY <1>1, <1>2, SoundEvolves DEF Around

\* The authority is left as it is.
LEMMA MoveStep ==
    ASSUME IInv, NEW m \in Members, session[m].pc # "idle",
           NEW x \in {0, Lease(m)}, Around(x),
           NEW s \in SessionRecs, Becomes(m, s), UNCHANGED auth, s.lease = Lease(m),
           Sound(s, auth[Lease(m)], rev', key', deleted', granted)
    PROVE  IInv'
<1> DEFINE a == auth[Lease(m)]
<1>1. a \in AuthorityRecs /\ Retires(a) /\ Lease(m) \in Leases
  BY InProgress
<1>2. auth' = [auth EXCEPT ![Lease(m)] = a]
  BY <1>1 DEF IInv, Shapes
<1>3. Advances(a, a)
  BY <1>1 DEF Advances
<1> QED BY <1>2, <1>3, SessionStep

\* A change of phase, as an update of the authority.
LEMMA AuthorityStep ==
    ASSUME IInv, NEW m \in Members, session[m].pc # "idle", NEW phase \in Phases,
           Authority(Lease(m), phase)
    PROVE  LET a == Changed(auth[Lease(m)], phase)
           IN  /\ auth' = [auth EXCEPT ![Lease(m)] = a]
               /\ Advances(auth[Lease(m)], a)
               /\ phase \in {"Retired", "Uncertain"} => a.phase # "Leader"
               /\ phase = "Retired" => a.phase \notin {"Leader", "Uncertain"}
<1>1. /\ auth[Lease(m)] \in AuthorityRecs /\ Retires(auth[Lease(m)])
  BY InProgress
<1>2. auth' = [auth EXCEPT ![Lease(m)] = Changed(auth[Lease(m)], phase)]
  BY DEF Authority, Changed
<1> QED BY <1>1, <1>2, ChangedAdvances DEF Retires

\* The session ends, and its authority with it.
LEMMA EndStep ==
    ASSUME IInv, NEW m \in Members, session[m].pc # "idle",
           NEW x \in {0, Lease(m)}, Around(x), CampaignFails(m)
    PROVE  IInv'
<1> DEFINE a == Changed(auth[Lease(m)], "Retired")
<1>1. /\ auth' = [auth EXCEPT ![Lease(m)] = a] /\ Advances(auth[Lease(m)], a)
      /\ a.phase \notin {"Leader", "Uncertain"}
  BY AuthorityStep DEF CampaignFails, Phases
<1>2. Becomes(m, NoSession)
  BY DEF CampaignFails
<1> HIDE DEF a
<1> QED BY <1>1, <1>2, NoSessionRec, SessionStep

\* A session that has won goes back to the loop without being the leader.
LEMMA HeldStep ==
    ASSUME IInv, NEW m \in Members, session[m].pc # "idle", HasWon(session[m]), Around(0),
           NEW s \in SessionRecs, Becomes(m, s), s.pc = "held", s.lease = session[m].lease,
           s.created = session[m].created, s.observed = session[m].observed,
           s.pred = session[m].pred, s.from = session[m].from,
           NEW a, auth' = [auth EXCEPT ![Lease(m)] = a], Advances(auth[Lease(m)], a),
           a.phase # "Leader"
    PROVE  IInv'
<1>1. Sound(session[m], auth[Lease(m)], rev', key', deleted', granted)
  BY Evolved
<1>2. Sound(s, a, rev', key', deleted', granted)
  BY <1>1 DEF Sound, HasWon, Recovery
<1>3. s.lease = Lease(m)
  BY DEF Lease
<1> QED BY <1>2, <1>3, SessionStep

LEMMA RetireStep ==
    ASSUME IInv, NEW m \in Members, session[m].pc # "idle", HasWon(session[m]), Around(0),
           NEW reason \in Reasons, Retire(m, reason)
    PROVE  IInv'
<1> DEFINE a == Changed(auth[Lease(m)], "Retired")
           s == [session[m] EXCEPT !.pc = "held", !.reason = reason]
<1>1. /\ auth' = [auth EXCEPT ![Lease(m)] = a] /\ Advances(auth[Lease(m)], a)
      /\ a.phase # "Leader"
  BY AuthorityStep DEF Retire, Phases
<1>2. session[m] \in SessionRecs
  BY InProgress
<1>3. /\ s \in SessionRecs /\ s.pc = "held" /\ s.lease = session[m].lease
      /\ s.created = session[m].created /\ s.observed = session[m].observed
      /\ s.pred = session[m].pred /\ s.from = session[m].from
  BY <1>2 DEF SessionRecs, Pcs
<1>4. Becomes(m, s)
  BY DEF Retire
<1> HIDE DEF a, s
<1> QED BY <1>1, <1>3, <1>4, HeldStep

LEMMA UncertainStep ==
    ASSUME IInv, NEW m \in Members, session[m].pc # "idle", HasWon(session[m]), Around(0),
           Uncertain(m)
    PROVE  IInv'
<1> DEFINE b == auth[Lease(m)]
           s == [session[m] EXCEPT !.pc = "held"]
<1>0. /\ session[m] \in SessionRecs /\ Lease(m) \in Leases
      /\ b \in AuthorityRecs /\ Retires(b)
  BY InProgress
<1>1. /\ s \in SessionRecs /\ s.pc = "held" /\ s.lease = session[m].lease
      /\ s.created = session[m].created /\ s.observed = session[m].observed
      /\ s.pred = session[m].pred /\ s.from = session[m].from
  BY <1>0 DEF SessionRecs, Pcs
<1>2. Becomes(m, s)
  BY DEF Uncertain
<1> HIDE DEF s
<1>3. CASE Phase(m) \in {"Leader", "Uncertain"}
  <2> DEFINE a == Changed(b, "Uncertain")
  <2>1. Authority(Lease(m), "Uncertain")
    BY <1>3 DEF Uncertain
  <2>2. /\ auth' = [auth EXCEPT ![Lease(m)] = a] /\ Advances(b, a) /\ a.phase # "Leader"
    BY <2>1, AuthorityStep DEF Phases
  <2> HIDE DEF a
  <2> QED BY <1>1, <1>2, <2>2, HeldStep
<1>4. CASE Phase(m) \notin {"Leader", "Uncertain"}
  <2>1. auth' = [auth EXCEPT ![Lease(m)] = b] /\ b.phase # "Leader"
    BY <1>0, <1>4 DEF Uncertain, Phase, IInv, Shapes
  <2>2. Advances(b, b)
    BY <1>0 DEF Advances
  <2> QED BY <1>1, <1>2, <2>1, <2>2, HeldStep
<1> QED BY <1>3, <1>4

\* A watch opened where nothing of the key's end is missed.
LEMMA LeaderStep ==
    ASSUME IInv, NEW m \in Members, HasWon(session[m]), Around(0),
           NEW w \in Nat, w <= rev + 1, key[Lease(m)] = 0 => w <= deleted[Lease(m)],
           Becomes(m, [session[m] EXCEPT !.pc = "held", !.from = w, !.open = TRUE]),
           Authority(Lease(m), "Leader"), UNCHANGED etcd
    PROVE  IInv'
<1> DEFINE a == Changed(auth[Lease(m)], "Leader")
           s == [session[m] EXCEPT !.pc = "held", !.from = w, !.open = TRUE]
<1>0. session[m].pc # "idle"
  BY DEF HasWon, Recovery
<1>1. auth' = [auth EXCEPT ![Lease(m)] = a] /\ Advances(auth[Lease(m)], a)
  BY <1>0, AuthorityStep DEF Phases
<1>2. session[m] \in SessionRecs
  BY <1>0, InProgress
<1>3. /\ s \in SessionRecs /\ s.pc = "held" /\ s.lease = session[m].lease
      /\ s.created = session[m].created /\ s.observed = session[m].observed
      /\ s.pred = session[m].pred /\ s.from = w
  BY <1>2 DEF SessionRecs, Pcs
<1>4. Becomes(m, s)
  OBVIOUS
<1> HIDE DEF a, s
<1>5. Sound(session[m], auth[Lease(m)], rev', key', deleted', granted)
  BY <1>0, Evolved
<1>6. /\ s.lease = Lease(m) /\ rev' = rev /\ key' = key /\ deleted' = deleted
  BY <1>3 DEF Lease, etcd
<1>7. Sound(s, a, rev', key', deleted', granted)
  BY <1>3, <1>5, <1>6 DEF Sound, HasWon, Recovery
<1> QED BY <1>0, <1>1, <1>3, <1>4, <1>6, <1>7, SessionStep

-----------------------------------------------------------------------------
(* The campaign *)

LEMMA ObserveRec ==
    ASSUME IInv, NEW m \in Members, session[m].pc # "idle", NEW r \in Nat
    PROVE  LET s == session[m] o == Observe(m, r)
           IN  /\ o \in SessionRecs
               /\ o.observed \in {s.observed, r} /\ s.observed <= o.observed /\ r <= o.observed
               /\ o.pc = s.pc /\ o.lease = s.lease /\ o.created = s.created /\ o.pred = s.pred
               /\ o.from = s.from /\ o.open = s.open /\ o.reason = s.reason
<1> DEFINE s == session[m]
           v == Max2(s.observed, r)
<1>1. s \in SessionRecs
  BY InProgress
<1>2. s.observed \in Nat
  BY <1>1 DEF SessionRecs
<1>3. v \in Nat /\ v \in {s.observed, r} /\ s.observed <= v /\ r <= v
  BY <1>2, Max2Facts
<1>4. Observe(m, r) = [s EXCEPT !.observed = v]
  BY DEF Observe
<1> HIDE DEF v, s
<1>5. /\ [s EXCEPT !.observed = v] \in SessionRecs
      /\ [s EXCEPT !.observed = v].observed = v
      /\ [s EXCEPT !.observed = v].pc = s.pc
      /\ [s EXCEPT !.observed = v].lease = s.lease
      /\ [s EXCEPT !.observed = v].created = s.created
      /\ [s EXCEPT !.observed = v].pred = s.pred
      /\ [s EXCEPT !.observed = v].from = s.from
      /\ [s EXCEPT !.observed = v].open = s.open
      /\ [s EXCEPT !.observed = v].reason = s.reason
  BY <1>1, <1>3 DEF SessionRecs
<1> QED BY <1>3, <1>4, <1>5 DEF s

LEMMA GrantStep ==
    ASSUME IInv, NEW m \in Members, Grant(m)
    PROVE  IInv'
<1> DEFINE g == granted + 1
           s == [NoSession EXCEPT !.pc = "create", !.lease = g, !.observed = rev]
<1>a. /\ granted' = g /\ alive' = alive \cup {g}
      /\ UNCHANGED <<rev, key, target, deleted, auth, scope, permits, results, bounds,
                     puts, faults, stops>>
  BY DEF Grant, work, counters
<1>b. /\ session \in [Members -> SessionRecs] /\ granted \in Nat /\ rev \in Nat
      /\ g \in Leases /\ g \in Nat
  <2>1. granted < MaxLeases
    BY DEF Grant
  <2>2. granted \in 0 .. MaxLeases /\ rev \in Nat /\ session \in [Members -> SessionRecs]
    BY DEF IInv, Shapes, Store
  <2> QED BY <2>1, <2>2, ElectionAssumption DEF Leases
<1>c. session[m].pc = "idle" /\ Becomes(m, s)
  BY <1>a DEF Grant, In
<1> HIDE DEF s
<1>0. /\ session[m].pc = "idle" /\ granted \in Nat /\ g \in Leases /\ rev \in Nat
      /\ granted' = g /\ alive' = alive \cup {g} /\ session' = [session EXCEPT ![m] = s]
      /\ UNCHANGED <<rev, key, target, deleted, auth, scope, permits, results, bounds,
                     puts, faults, stops>>
      /\ session \in [Members -> SessionRecs]
  BY <1>a, <1>b, <1>c DEF Becomes
<1>1. session[m] = NoSession
  BY <1>0 DEF IInv, Sessions, Sound
<1>2. /\ s \in SessionRecs /\ s.pc = "create" /\ s.lease = g /\ s.created = 0 /\ s.observed = rev
      /\ s.pred = 0 /\ s.from = 0
  <2> DEFINE n == NoSession
  <2>1. n \in SessionRecs /\ n.created = 0 /\ n.pred = 0 /\ n.from = 0
    BY NoSessionRec DEF NoSession
  <2>2. s = [n EXCEPT !.pc = "create", !.lease = g, !.observed = rev]
    BY DEF s
  <2> HIDE DEF n, g
  <2> QED BY <1>b, <2>1, <2>2 DEF SessionRecs, Pcs, Campaigns
<1>3. /\ session' \in [Members -> SessionRecs]
      /\ session'[m] = s /\ \A n \in Members \ {m} : session'[n] = session[n]
  BY <1>0, <1>2
<1>4. Shapes'
  BY <1>0, <1>3 DEF IInv, Shapes, Leases
<1>5. Store(rev', key', deleted', target')
  BY <1>0 DEF IInv
<1>6. \A n \in Members : session[n].lease <= granted /\ session[n].lease \in Nat
  BY <1>0 DEF IInv, Sessions, Sound, NoSession, SessionRecs
<1>7. Sessions'
  <2> SUFFICES ASSUME NEW n \in Members, session'[n] # NoSession
               PROVE  Sound(session'[n], auth'[session'[n].lease], rev', key', deleted', granted')
    BY DEF Sessions
  <2>1. CASE n = m
    <3>1. Sound(s, auth[g], rev, key, deleted, g)
      BY <1>0, <1>2, ElectionAssumption DEF Sound, HasWon, Recovery
    <3> QED BY <1>0, <1>2, <1>3, <2>1, <3>1
  <2>2. CASE n # m
    <3>1. /\ session'[n] = session[n] /\ session[n] # NoSession
          /\ session[n] \in SessionRecs
          /\ Sound(session[n], auth[session[n].lease], rev, key, deleted, granted)
      BY <1>0, <1>3, <2>2 DEF IInv, Sessions
    <3>2. Sound(session[n], auth[session[n].lease], rev, key, deleted, g)
      <4>1. session[n].lease <= g
        BY <1>0, <1>6
      <4> QED BY <3>1, <4>1 DEF Sound
    <3> QED BY <1>0, <3>1, <3>2
  <2> QED BY <2>1, <2>2
<1>8. LeasesDiffer'
  BY <1>0, <1>2, <1>3, <1>6 DEF IInv, LeasesDiffer
<1>9. SessionAuthorities' /\ PermitsFollow'
  BY <1>0 DEF IInv, SessionAuthorities, PermitsFollow
<1>10. HeldByItsSession'
  <2> SUFFICES ASSUME NEW k \in Leases, auth[k].phase \in {"Leader", "Uncertain"}
               PROVE  \E n \in Members : session'[n].lease = k
    BY <1>0 DEF HeldByItsSession
  <2>1. PICK n \in Members : session[n].lease = k
    BY DEF IInv, HeldByItsSession
  <2>2. n # m
    BY <1>1, <2>1, NoSessionRec DEF Leases
  <2> QED BY <1>3, <2>1, <2>2
<1> QED BY <1>4, <1>5, <1>7, <1>8, <1>9, <1>10 DEF IInv

LEMMA CreateStep ==
    ASSUME IInv, NEW m \in Members, NEW f \in Outcomes, CreateCandidate(m, f)
    PROVE  IInv'
<1> DEFINE l == Lease(m)
           runs == f # "lost" /\ l \in alive
<1>0. /\ session[m].pc = "create" /\ session[m].pc # "idle" /\ Fault(f)
      /\ puts' = puts /\ stops' = stops
      /\ UNCHANGED <<alive, target, deleted, granted, scope, permits, results, bounds>>
  BY DEF CreateCandidate, In, work
<1>1. /\ l \in Leases /\ session[m] \in SessionRecs /\ l = session[m].lease
      /\ Sound(session[m], auth[l], rev, key, deleted, granted)
      /\ rev \in Nat /\ key \in [Leases -> Nat] /\ Store(rev, key, deleted, target)
  BY <1>0, InProgress DEF IInv, Store
<1>2. /\ rev' = IF runs THEN rev + 1 ELSE rev
      /\ key' = IF runs THEN [key EXCEPT ![l] = rev + 1] ELSE key
  BY DEF CreateCandidate
<1> HIDE DEF l
<1>3. Store(rev', key', deleted', target')
  BY <1>0, <1>1, <1>2 DEF Store
<1>4. Evolves(rev, key, deleted, rev', key', deleted', l)
  BY <1>0, <1>1, <1>2 DEF Evolves
<1>5. faults' \in Nat
  BY <1>0, FaultCounts
<1>6. Around(l)
  BY <1>0, <1>3, <1>4, <1>5 DEF Around, IInv, Shapes
<1>7. CASE ~(f = "ok" /\ runs)
  <2>1. CampaignFails(m)
    BY <1>7 DEF CreateCandidate, l
  <2> QED BY <1>0, <1>6, <2>1, EndStep DEF l
<1>8. CASE f = "ok" /\ runs
  <2> DEFINE o == Observe(m, rev + 1)
             c == rev + 1
             s == [o EXCEPT !.pc = "query", !.created = c]
  <2>1. Becomes(m, s) /\ UNCHANGED auth
    BY <1>8 DEF CreateCandidate, l
  <2>2. /\ o \in SessionRecs /\ o.observed <= rev + 1 /\ o.lease = l
        /\ o.pred = session[m].pred /\ o.from = session[m].from
    BY <1>0, <1>1, ObserveRec DEF Sound, SessionRecs
  <2>c. c \in Nat /\ c = rev + 1
    BY <1>1
  <2> HIDE DEF o, c
  <2>3. /\ s \in SessionRecs /\ s.pc = "query" /\ s.created = c
        /\ s.observed = o.observed /\ s.lease = l
        /\ s.pred = session[m].pred /\ s.from = session[m].from
    BY <2>c, <2>2 DEF SessionRecs, Pcs, Campaigns
  <2> HIDE DEF s
  <2>4. rev' = rev + 1
    BY <1>2, <1>8
  <2>5. s.from <= rev' + 1 /\ s.pred <= MaxLeases
    BY <1>1, <2>3, <2>4 DEF Sound, SessionRecs
  <2>6. Sound(s, auth[l], rev', key', deleted', granted)
    BY <1>1, <2>c, <2>2, <2>3, <2>4, <2>5 DEF Sound, HasWon, Recovery
  <2> QED BY <1>0, <1>6, <2>1, <2>3, <2>6, MoveStep DEF l
<1> QED BY <1>7, <1>8

\* A candidate without predecessors has none ever after.
LEMMA QueryStep ==
    ASSUME IInv, NEW m \in Members, NEW f \in Outcomes, Query(m, f)
    PROVE  IInv'
<1> DEFINE l == Lease(m)
           o == Observe(m, rev)
<1>0. /\ session[m].pc = "query" /\ session[m].pc # "idle" /\ Fault(f)
      /\ puts' = puts /\ stops' = stops /\ UNCHANGED <<etcd, scope, work>>
  BY DEF Query, In
<1>1. /\ l \in Leases /\ session[m] \in SessionRecs /\ l = session[m].lease
      /\ Sound(session[m], auth[l], rev, key, deleted, granted)
      /\ rev \in Nat /\ key \in [Leases -> Nat]
  BY <1>0, InProgress DEF IInv, Store
<1>2. Around(0)
  BY <1>0, FaultCounts, Quiet DEF IInv, Shapes
<1>3. rev' = rev /\ key' = key /\ deleted' = deleted
  BY <1>0 DEF etcd
<1>4. /\ o \in SessionRecs /\ o.observed <= rev /\ o.lease = l /\ o.created = session[m].created
      /\ o.pred = session[m].pred /\ o.from = session[m].from
  BY <1>0, <1>1, ObserveRec DEF Sound, SessionRecs
<1>5. CASE ~(f = "ok" /\ l \in alive)
  <2>1. CampaignFails(m)
    BY <1>5 DEF Query
  <2> QED BY <1>0, <1>2, <2>1, EndStep
<1>6. CASE f = "ok" /\ l \in alive /\ Predecessors(m) = {}
  <2> DEFINE s == [o EXCEPT !.pc = "attach", !.pred = 0]
  <2>1. Becomes(m, s) /\ UNCHANGED auth
    BY <1>6 DEF Query
  <2> HIDE DEF o, l
  <2>2. /\ s \in SessionRecs /\ s.pc = "attach" /\ s.created = session[m].created
        /\ s.observed = o.observed /\ s.lease = l /\ s.pred = 0 /\ s.from = session[m].from
    BY <1>4 DEF SessionRecs, Pcs, Campaigns
  <2> HIDE DEF s
  <2>3. \A k \in Leases : key[k] = 0 \/ s.created <= key[k]
    BY <1>1, <1>6, <2>2 DEF Predecessors, Candidates, SessionRecs
  <2>4. Sound(s, auth[l], rev', key', deleted', granted)
    BY <1>1, <1>3, <1>4, <2>2, <2>3, ElectionAssumption DEF Sound, Recovery
  <2> QED BY <1>0, <1>2, <2>1, <2>2, <2>4, MoveStep DEF l
<1>7. CASE f = "ok" /\ l \in alive /\ Predecessors(m) # {}
  <2>1. PICK p \in Predecessors(m) : Becomes(m, [o EXCEPT !.pc = "wait", !.pred = p]) /\ UNCHANGED auth
    BY <1>7 DEF Query
  <2> DEFINE s == [o EXCEPT !.pc = "wait", !.pred = p]
  <2>0. p \in Leases /\ p \in Nat /\ p <= MaxLeases
    BY DEF Predecessors, Candidates, Leases
  <2> HIDE DEF o, l
  <2>2. /\ s \in SessionRecs /\ s.pc = "wait" /\ s.created = session[m].created
        /\ s.observed = o.observed /\ s.lease = l /\ s.pred = p /\ s.from = session[m].from
    BY <1>4, <2>0 DEF SessionRecs, Pcs, Campaigns
  <2> HIDE DEF s
  <2>3. Sound(s, auth[l], rev', key', deleted', granted)
    BY <1>1, <1>3, <1>4, <2>0, <2>2 DEF Sound, HasWon, Recovery
  <2> QED BY <1>0, <1>2, <2>1, <2>2, <2>3, MoveStep DEF l, s
<1> QED BY <1>5, <1>6, <1>7

LEMMA WaitStep ==
    ASSUME IInv, NEW m \in Members,
           PredecessorGone(m) \/ WatchCompacted(m) \/ WaitFails(m)
    PROVE  IInv'
<1> DEFINE l == Lease(m)
<1>0. session[m].pc = "wait" /\ session[m].pc # "idle"
  BY DEF PredecessorGone, WatchCompacted, WaitFails, In
<1>1. /\ l \in Leases /\ session[m] \in SessionRecs /\ l = session[m].lease
      /\ Sound(session[m], auth[l], rev, key, deleted, granted)
      /\ Store(rev, key, deleted, target)
      /\ puts \in Nat /\ faults \in Nat /\ stops \in Nat
  BY <1>0, InProgress DEF IInv, Shapes
<1>2. ASSUME NEW o \in SessionRecs, o.observed <= rev, o.lease = l,
             o.created = session[m].created, o.pred = session[m].pred, o.from = session[m].from,
             Becomes(m, [o EXCEPT !.pc = "query"]), UNCHANGED <<auth, etcd, scope, work>>,
             puts' = puts, stops' = stops, faults' \in Nat
      PROVE  IInv'
  <2> DEFINE s == [o EXCEPT !.pc = "query"]
  <2>1. /\ s \in SessionRecs /\ s.pc = "query" /\ s.created = session[m].created
        /\ s.observed = o.observed /\ s.lease = l /\ s.pred = session[m].pred
        /\ s.from = session[m].from
    BY <1>2 DEF SessionRecs, Pcs, Campaigns
  <2>2. Becomes(m, s)
    BY <1>2
  <2> HIDE DEF s, l
  <2>3. Around(0)
    BY <1>1, <1>2, Quiet
  <2>4. rev' = rev /\ key' = key /\ deleted' = deleted
    BY <1>2 DEF etcd
  <2>5. Sound(s, auth[l], rev', key', deleted', granted)
    BY <1>1, <1>2, <2>1, <2>4 DEF Sound, HasWon, Recovery
  <2> QED BY <1>0, <1>2, <2>1, <2>2, <2>3, <2>5, MoveStep DEF l
<1>3. CASE PredecessorGone(m)
  <2> DEFINE o == Observe(m, deleted[session[m].pred])
  <2>1. /\ Becomes(m, [o EXCEPT !.pc = "query"]) /\ UNCHANGED <<auth, etcd, scope, work>>
        /\ puts' = puts /\ stops' = stops /\ faults' = faults
    BY <1>3 DEF PredecessorGone, counters
  <2>2. deleted[session[m].pred] \in Nat /\ deleted[session[m].pred] <= rev
    BY <1>0, <1>1 DEF Sound, Store
  <2>3. /\ o \in SessionRecs /\ o.observed <= rev /\ o.lease = l
        /\ o.created = session[m].created /\ o.pred = session[m].pred
        /\ o.from = session[m].from
    BY <1>0, <1>1, <2>2, ObserveRec DEF Sound
  <2> HIDE DEF o
  <2> QED BY <1>1, <1>2, <2>1, <2>3
<1>4. CASE WatchCompacted(m)
  <2>1. /\ Becomes(m, [session[m] EXCEPT !.pc = "query"]) /\ UNCHANGED <<auth, etcd, scope, work>>
        /\ puts' = puts /\ stops' = stops /\ faults' = faults + 1
    BY <1>4 DEF WatchCompacted
  <2> QED BY <1>1, <1>2, <2>1 DEF Sound
<1>5. CASE WaitFails(m)
  <2>1. /\ CampaignFails(m) /\ UNCHANGED <<etcd, scope, work>>
        /\ puts' = puts /\ stops' = stops /\ faults' \in Nat
    BY <1>1, <1>5 DEF WaitFails
  <2>2. Around(0)
    BY <1>1, <2>1, Quiet
  <2> QED BY <1>0, <2>1, <2>2, EndStep
<1> QED BY <1>3, <1>4, <1>5

\* A fenced write finds the key in place and observes the revision it makes.
LEMMA AttachStep ==
    ASSUME IInv, NEW m \in Members, NEW f \in Outcomes, Attach(m, f)
    PROVE  IInv'
<1> DEFINE l == Lease(m)
           runs == f # "lost" /\ Fenced(m)
           o == Observe(m, rev + 1)
<1>0. /\ session[m].pc = "attach" /\ session[m].pc # "idle" /\ Fault(f)
      /\ rev' = IF runs THEN rev + 1 ELSE rev
      /\ puts' = puts /\ stops' = stops
      /\ UNCHANGED <<alive, key, target, deleted, granted, scope, permits, results, bounds>>
  BY DEF Attach, In, work
<1>1. /\ l \in Leases /\ session[m] \in SessionRecs /\ l = session[m].lease
      /\ Sound(session[m], auth[l], rev, key, deleted, granted)
      /\ Store(rev, key, deleted, target) /\ rev \in Nat
  BY <1>0, InProgress DEF IInv, Store
<1>2. rev' \in Nat /\ rev <= rev'
  BY <1>0, <1>1
<1>3. Around(0)
  <2>1. Store(rev', key', deleted', target')
    BY <1>0, <1>1, <1>2 DEF Store
  <2>2. Evolves(rev, key, deleted, rev', key', deleted', 0)
    BY <1>0, <1>2 DEF Evolves
  <2>3. faults' \in Nat
    BY <1>0, FaultCounts
  <2> QED BY <1>0, <2>1, <2>2, <2>3 DEF Around, IInv, Shapes
<1>4. CASE ~(f = "ok" /\ runs)
  <2>1. CampaignFails(m)
    BY <1>4 DEF Attach
  <2> QED BY <1>0, <1>3, <2>1, EndStep
<1>5. CASE f = "ok" /\ runs
  <2> DEFINE s == [o EXCEPT !.pc = "watch"]
  <2>1. Becomes(m, s) /\ UNCHANGED auth
    BY <1>5 DEF Attach
  <2>2. /\ o \in SessionRecs /\ o.observed <= rev + 1 /\ o.lease = l
        /\ o.created = session[m].created /\ o.pred = session[m].pred /\ o.from = session[m].from
    BY <1>0, <1>1, ObserveRec DEF Sound, SessionRecs
  <2>3. rev' = rev + 1 /\ key[l] # 0
    BY <1>0, <1>5 DEF Fenced
  <2> HIDE DEF o, l
  <2>4. /\ s \in SessionRecs /\ s.pc = "watch" /\ s.created = session[m].created
        /\ s.observed = o.observed /\ s.lease = l /\ s.pred = session[m].pred
        /\ s.from = session[m].from
    BY <2>2 DEF SessionRecs, Pcs, Campaigns
  <2> HIDE DEF s
  <2>5. Sound(session[m], auth[l], rev', key', deleted', granted)
    BY <1>0, <1>3, Evolved DEF l
  <2>6. Sound(s, auth[l], rev', key', deleted', granted)
    <3>1. key' = key /\ rev' = rev + 1 /\ s.observed <= rev' /\ key'[s.lease] # 0
      BY <1>0, <2>2, <2>3, <2>4
    <3>2. HasWon(session[m])
      BY <1>0 DEF HasWon
    <3>3. \A k \in Leases : key'[k] = 0 \/ s.created <= key'[k]
      BY <2>4, <2>5, <3>2 DEF Sound
    <3> QED BY <1>1, <2>4, <2>5, <3>1, <3>3 DEF Sound, Recovery
  <2> QED BY <1>0, <1>3, <2>1, <2>4, <2>6, MoveStep DEF l
<1> QED BY <1>4, <1>5

LEMMA BecomeLeaderStep ==
    ASSUME IInv, NEW m \in Members, NEW f \in Outcomes, BecomeLeader(m, f)
    PROVE  IInv'
<1>0. /\ session[m].pc = "watch" /\ session[m].pc # "idle" /\ Fault(f)
      /\ puts' = puts /\ stops' = stops /\ UNCHANGED <<etcd, scope, work>>
  BY DEF BecomeLeader, In
<1>1. Around(0)
  BY <1>0, FaultCounts, Quiet DEF IInv, Shapes
<1>2. CASE f # "ok"
  <2>1. CampaignFails(m)
    BY <1>2 DEF BecomeLeader
  <2> QED BY <1>0, <1>1, <2>1, EndStep
<1>3. CASE f = "ok"
  <2> DEFINE w == WatchFrom(m)
  <2>1. /\ Becomes(m, [session[m] EXCEPT !.pc = "held", !.from = w, !.open = TRUE])
        /\ Authority(Lease(m), "Leader") /\ UNCHANGED etcd
    BY <1>0, <1>3 DEF BecomeLeader
  <2>2. /\ session[m] \in SessionRecs /\ Lease(m) = session[m].lease /\ Lease(m) \in Leases
        /\ Sound(session[m], auth[Lease(m)], rev, key, deleted, granted)
        /\ rev \in Nat /\ deleted \in [Leases -> Nat]
    BY <1>0, InProgress DEF IInv, Store
  <2>3. w \in Nat /\ w <= rev + 1 /\ (key[Lease(m)] = 0 => w <= deleted[Lease(m)])
    BY <1>0, <2>2 DEF WatchFrom, Sound, SessionRecs
  <2>4. HasWon(session[m])
    BY <1>0 DEF HasWon
  <2> HIDE DEF w
  <2> QED BY <1>1, <2>1, <2>3, <2>4, LeaderStep
<1> QED BY <1>2, <1>3

-----------------------------------------------------------------------------
(* A held session and its recovery *)

\* The session of m observes a revision r of the store and goes on at pc.
LEMMA ObservedStep ==
    ASSUME IInv, NEW m \in Members, HasWon(session[m]), Around(0), UNCHANGED auth,
           NEW r \in Nat, r <= rev', NEW o, o = Observe(m, r),
           NEW s \in SessionRecs, Becomes(m, s), s.lease = o.lease, s.created = o.created,
           s.observed = o.observed, s.pred = o.pred, HasWon(s), s.from \in Nat,
           s.from <= rev' + 1,
           s.pc \in {"held", "resume", "leader", "renew", "rewatch"},
           s.pc = "held" /\ auth[Lease(m)].phase = "Leader" /\ s.open /\ key'[Lease(m)] = 0 =>
              s.from <= deleted'[Lease(m)],
           s.pc = "resume" => key'[Lease(m)] # 0 /\ ~s.open,
           s.pc \in {"renew", "rewatch"} /\ key'[Lease(m)] = 0 => s.from <= deleted'[Lease(m)],
           s.pc \in Recovery => auth[Lease(m)].phase # "Leader"
    PROVE  IInv'
<1>0. session[m].pc # "idle"
  BY DEF HasWon, Recovery
<1>1. Sound(session[m], auth[Lease(m)], rev', key', deleted', granted)
  BY <1>0, Evolved
<1>2. /\ s.observed \in {session[m].observed, r} /\ s.lease = session[m].lease
      /\ s.created = session[m].created /\ s.pred = session[m].pred
  BY <1>0, ObserveRec
<1>3. s.lease = Lease(m)
  BY <1>2 DEF Lease
<1>4. s.observed <= rev'
  BY <1>1, <1>2 DEF Sound
<1>5. Sound(s, auth[Lease(m)], rev', key', deleted', granted)
  BY <1>1, <1>2, <1>3, <1>4 DEF Sound, Recovery
<1> QED BY <1>0, <1>3, <1>5, MoveStep

LEMMA KeepAliveStep ==
    ASSUME IInv, NEW m \in Members, NEW f \in Outcomes, KeepAlive(m, f)
    PROVE  IInv'
<1>0. /\ session[m].pc = "held" /\ session[m].pc # "idle" /\ Fault(f) /\ HasWon(session[m])
      /\ puts' = puts /\ stops' = stops /\ UNCHANGED <<etcd, scope, work>>
  BY DEF KeepAlive, In, HasWon
<1>1. Around(0)
  BY <1>0, FaultCounts, Quiet DEF IInv, Shapes
<1>2. CASE f # "ok"
  <2>1. Uncertain(m)
    BY <1>2 DEF KeepAlive
  <2> QED BY <1>0, <1>1, <2>1, UncertainStep
<1>3. CASE f = "ok" /\ Lease(m) \notin alive
  <2>1. Retire(m, "lease")
    BY <1>3 DEF KeepAlive
  <2> QED BY <1>0, <1>1, <2>1, RetireStep DEF Reasons
<1>4. CASE f = "ok" /\ Lease(m) \in alive
  <2> DEFINE o == Observe(m, rev)
  <2>1. Becomes(m, o) /\ UNCHANGED auth
    BY <1>4 DEF KeepAlive
  <2>2. /\ Sound(session[m], auth[Lease(m)], rev, key, deleted, granted)
        /\ rev \in Nat /\ session[m].lease = Lease(m) /\ session[m] \in SessionRecs
    BY <1>0, InProgress DEF IInv, Store
  <2>3. rev' = rev /\ key' = key /\ deleted' = deleted
    BY <1>0 DEF etcd
  <2>4. /\ o \in SessionRecs /\ o.pc = "held" /\ o.from = session[m].from /\ o.open = session[m].open
        /\ o.from \in Nat
    BY <1>0, <2>2, ObserveRec DEF SessionRecs
  <2>o. o = Observe(m, rev)
    OBVIOUS
  <2> HIDE DEF o
  <2>5. /\ o.from <= rev' + 1
        /\ auth[Lease(m)].phase = "Leader" /\ o.open /\ key'[Lease(m)] = 0 =>
              o.from <= deleted'[Lease(m)]
    BY <1>0, <2>2, <2>3, <2>4 DEF Sound
  <2>6. HasWon(o) /\ o.pc \notin Recovery
    BY <2>4 DEF HasWon, Recovery
  <2> QED BY <1>0, <1>1, <2>1, <2>2, <2>3, <2>4, <2>o, <2>5, <2>6, ObservedStep
<1> QED BY <1>2, <1>3, <1>4

\* A leading session is not retired, so a doubt about it shows.
LEMMA LeaderDoubts ==
    ASSUME IInv, NEW m \in Members, session[m].pc # "idle", Phase(m) = "Leader"
    PROVE  Changed(auth[Lease(m)], "Uncertain").phase = "Uncertain"
<1>1. /\ auth[Lease(m)] \in AuthorityRecs /\ Retires(auth[Lease(m)])
      /\ auth[Lease(m)].phase = "Leader"
  BY InProgress DEF Phase
<1>2. ~auth[Lease(m)].retired
  BY <1>1 DEF Retires
<1> QED BY <1>1, <1>2, ChangedAdvances DEF Phases

\* watch_once
LEMMA WatchStep ==
    ASSUME IInv, NEW m \in Members,
           WatchProgress(m) \/ WatchDelete(m) \/ WatchBreaks(m) \/ WatchIsCompacted(m)
    PROVE  IInv'
<1>0. /\ session[m].pc = "held" /\ session[m].pc # "idle" /\ HasWon(session[m])
      /\ Phase(m) = "Leader"
      /\ puts' = puts /\ stops' = stops /\ UNCHANGED <<etcd, scope, work>>
  BY DEF WatchProgress, WatchDelete, WatchBreaks, WatchIsCompacted, Leads, In, HasWon, counters
<1>1. /\ Sound(session[m], auth[Lease(m)], rev, key, deleted, granted)
      /\ rev \in Nat /\ session[m].lease = Lease(m) /\ session[m] \in SessionRecs
      /\ Lease(m) \in Leases /\ Store(rev, key, deleted, target) /\ deleted \in [Leases -> Nat]
      /\ puts \in Nat /\ faults \in Nat /\ stops \in Nat
  BY <1>0, InProgress DEF IInv, Store, Shapes
<1>2. rev' = rev /\ key' = key /\ deleted' = deleted /\ granted' = granted
  BY <1>0 DEF etcd
<1>3. faults' \in Nat
  BY <1>1 DEF WatchProgress, WatchDelete, WatchBreaks, WatchIsCompacted, counters
<1>4. Around(0)
  BY <1>0, <1>1, <1>3, Quiet
<1>5. CASE WatchProgress(m)
  <2> DEFINE o == Observe(m, rev)
             w == rev + 1
             s == [o EXCEPT !.from = w]
  <2>1. Becomes(m, s) /\ UNCHANGED auth
    BY <1>5 DEF WatchProgress
  <2>2. key[Lease(m)] # 0
    BY <1>0, <1>1, <1>5 DEF WatchProgress, Sound, Phase, SessionRecs
  <2>3. o \in SessionRecs /\ o.pc = "held" /\ o.open = session[m].open
    BY <1>0, <1>1, ObserveRec
  <2>o. o = Observe(m, rev) /\ w \in Nat /\ w <= rev + 1
    BY <1>1
  <2> HIDE DEF o, w
  <2>4. /\ s \in SessionRecs /\ s.pc = "held" /\ s.from = w /\ s.lease = o.lease
        /\ s.created = o.created /\ s.observed = o.observed /\ s.pred = o.pred
    BY <2>3, <2>o DEF SessionRecs
  <2> HIDE DEF s
  <2>5. HasWon(s) /\ s.pc \notin Recovery
    BY <2>4 DEF HasWon, Recovery
  <2> QED BY <1>0, <1>1, <1>2, <1>4, <2>1, <2>2, <2>o, <2>4, <2>5, ObservedStep
<1>6. CASE WatchDelete(m)
  <2> DEFINE d == deleted[Lease(m)]
             o == Observe(m, d)
             w == d + 1
             s == [o EXCEPT !.pc = "ttl", !.from = w]
             a == Changed(auth[Lease(m)], "Uncertain")
  <2>1. Becomes(m, s) /\ Authority(Lease(m), "Uncertain")
    BY <1>6 DEF WatchDelete
  <2>2. d \in Nat /\ d <= rev /\ w \in Nat /\ w <= rev + 1
    BY <1>1 DEF Store
  <2>3. /\ o \in SessionRecs /\ o.lease = Lease(m) /\ o.created = session[m].created
        /\ o.pred = session[m].pred /\ o.observed <= rev
    BY <1>0, <1>1, <2>2, ObserveRec DEF Sound
  <2>4. auth' = [auth EXCEPT ![Lease(m)] = a] /\ Advances(auth[Lease(m)], a)
    BY <1>0, <2>1, AuthorityStep DEF Phases
  <2>5. a.phase = "Uncertain"
    BY <1>0, LeaderDoubts
  <2> HIDE DEF o, w, a, d
  <2>6. /\ s \in SessionRecs /\ s.pc = "ttl" /\ s.from = w /\ s.lease = o.lease
        /\ s.created = o.created /\ s.observed = o.observed /\ s.pred = o.pred
    BY <2>2, <2>3 DEF SessionRecs, Pcs, Recovery
  <2> HIDE DEF s
  <2>7. Sound(s, a, rev', key', deleted', granted)
    BY <1>0, <1>1, <1>2, <2>2, <2>3, <2>5, <2>6 DEF Sound, HasWon, Recovery
  <2> QED BY <1>0, <1>4, <2>1, <2>3, <2>4, <2>6, <2>7, SessionStep
<1>7. CASE WatchBreaks(m)
  BY <1>0, <1>4, <1>7, UncertainStep DEF WatchBreaks
<1>8. CASE WatchIsCompacted(m)
  <2> DEFINE s == [session[m] EXCEPT !.pc = "relist", !.open = FALSE]
  <2>1. Becomes(m, s) /\ UNCHANGED auth
    BY <1>8 DEF WatchIsCompacted
  <2>2. /\ s \in SessionRecs /\ s.pc = "relist" /\ s.open = FALSE /\ s.lease = session[m].lease
        /\ s.created = session[m].created /\ s.observed = session[m].observed
        /\ s.pred = session[m].pred /\ s.from = session[m].from
    BY <1>1 DEF SessionRecs, Pcs
  <2> HIDE DEF s
  <2>3. Sound(s, auth[Lease(m)], rev', key', deleted', granted)
    BY <1>0, <1>1, <1>2, <2>2 DEF Sound, HasWon, Recovery
  <2> QED BY <1>0, <1>1, <1>4, <2>1, <2>2, <2>3, MoveStep
<1> QED BY <1>5, <1>6, <1>7, <1>8

\* recover_compacted_watch
LEMMA RelistStep ==
    ASSUME IInv, NEW m \in Members, NEW f \in Outcomes, Relist(m, f)
    PROVE  IInv'
<1>0. /\ session[m].pc = "relist" /\ session[m].pc # "idle" /\ Fault(f) /\ HasWon(session[m])
      /\ puts' = puts /\ stops' = stops /\ UNCHANGED <<etcd, scope, work>>
  BY DEF Relist, In, HasWon
<1>1. Around(0)
  BY <1>0, FaultCounts, Quiet DEF IInv, Shapes
<1>2. CASE f # "ok"
  <2>1. Uncertain(m)
    BY <1>2 DEF Relist
  <2> QED BY <1>0, <1>1, <2>1, UncertainStep
<1>3. CASE f = "ok" /\ ~StillOwner(m)
  <2>1. Retire(m, "owner")
    BY <1>3 DEF Relist
  <2> QED BY <1>0, <1>1, <2>1, RetireStep DEF Reasons
<1>4. CASE f = "ok" /\ StillOwner(m)
  <2> DEFINE o == Observe(m, rev)
             s == [o EXCEPT !.pc = "resume"]
  <2>1. Becomes(m, s) /\ UNCHANGED auth
    BY <1>4 DEF Relist
  <2>2. /\ Sound(session[m], auth[Lease(m)], rev, key, deleted, granted)
        /\ rev \in Nat /\ session[m].lease = Lease(m) /\ session[m] \in SessionRecs
    BY <1>0, InProgress DEF IInv, Store
  <2>3. rev' = rev /\ key' = key /\ deleted' = deleted /\ key[Lease(m)] # 0
    BY <1>0, <1>4 DEF etcd, StillOwner, Fenced
  <2>4. o \in SessionRecs /\ o.open = session[m].open /\ o.from = session[m].from
    BY <1>0, <2>2, ObserveRec
  <2>5. ~session[m].open /\ session[m].from <= rev + 1 /\ session[m].from \in Nat
    BY <1>0, <2>2 DEF Sound, SessionRecs
  <2>o. o = Observe(m, rev)
    OBVIOUS
  <2> HIDE DEF o
  <2>6. /\ s \in SessionRecs /\ s.pc = "resume" /\ s.from = o.from /\ s.lease = o.lease
        /\ s.created = o.created /\ s.observed = o.observed /\ s.pred = o.pred /\ s.open = o.open
    BY <2>4 DEF SessionRecs, Pcs
  <2> HIDE DEF s
  <2>7. HasWon(s) /\ s.pc \notin Recovery
    BY <2>6 DEF HasWon, Recovery
  <2> QED BY <1>0, <1>1, <2>1, <2>2, <2>3, <2>4, <2>5, <2>o, <2>6, <2>7, ObservedStep
<1> QED BY <1>2, <1>3, <1>4

LEMMA ResumeStep ==
    ASSUME IInv, NEW m \in Members, NEW f \in Outcomes, Resume(m, f)
    PROVE  IInv'
<1>0. /\ session[m].pc = "resume" /\ session[m].pc # "idle" /\ Fault(f) /\ HasWon(session[m])
      /\ puts' = puts /\ stops' = stops /\ UNCHANGED <<etcd, scope, work>>
  BY DEF Resume, In, HasWon
<1>1. Around(0)
  BY <1>0, FaultCounts, Quiet DEF IInv, Shapes
<1>2. CASE f # "ok"
  <2>1. Uncertain(m)
    BY <1>2 DEF Resume
  <2> QED BY <1>0, <1>1, <2>1, UncertainStep
<1>3. CASE f = "ok"
  <2> DEFINE w == WatchFrom(m)
  <2>1. /\ Becomes(m, [session[m] EXCEPT !.pc = "held", !.from = w, !.open = TRUE])
        /\ Authority(Lease(m), "Leader") /\ UNCHANGED etcd
    BY <1>0, <1>3 DEF Resume
  <2>2. /\ session[m] \in SessionRecs /\ Lease(m) = session[m].lease /\ Lease(m) \in Leases
        /\ Sound(session[m], auth[Lease(m)], rev, key, deleted, granted)
        /\ rev \in Nat /\ deleted \in [Leases -> Nat]
    BY <1>0, InProgress DEF IInv, Store
  <2>3. w \in Nat /\ w <= rev + 1 /\ (key[Lease(m)] = 0 => w <= deleted[Lease(m)])
    BY <1>0, <2>2 DEF WatchFrom, Sound, SessionRecs
  <2> HIDE DEF w
  <2> QED BY <1>0, <1>1, <2>1, <2>3, LeaderStep
<1> QED BY <1>2, <1>3

\* The steps that only move the session: a heartbeat cuts the relist short,
\* a recovery begins.
LEMMA InterruptStep ==
    ASSUME IInv, NEW m \in Members, Interrupt(m)
    PROVE  IInv'
<1> DEFINE s == [session[m] EXCEPT !.pc = "held"]
<1>0. /\ session[m].pc \in {"relist", "resume"} /\ session[m].pc # "idle" /\ HasWon(session[m])
      /\ puts' = puts /\ stops' = stops /\ faults' = faults + 1
      /\ UNCHANGED <<etcd, auth, scope, work>> /\ Becomes(m, s)
  BY DEF Interrupt, In, HasWon
<1>1. Around(0)
  BY <1>0, Quiet DEF IInv, Shapes
<1>2. /\ session[m] \in SessionRecs /\ Lease(m) = session[m].lease
      /\ Sound(session[m], auth[Lease(m)], rev', key', deleted', granted)
  BY <1>0, <1>1, InProgress, Evolved
<1>3. /\ s \in SessionRecs /\ s.pc = "held" /\ s.open = session[m].open
      /\ s.lease = session[m].lease
      /\ s.created = session[m].created /\ s.observed = session[m].observed
      /\ s.pred = session[m].pred /\ s.from = session[m].from
  BY <1>2 DEF SessionRecs, Pcs
<1> HIDE DEF s
<1>4. Sound(s, auth[Lease(m)], rev', key', deleted', granted)
  BY <1>0, <1>2, <1>3 DEF Sound, HasWon, Recovery
<1> QED BY <1>0, <1>1, <1>2, <1>3, <1>4, MoveStep

LEMMA BeginRecoveryStep ==
    ASSUME IInv, NEW m \in Members, BeginRecovery(m)
    PROVE  IInv'
<1> DEFINE s == [session[m] EXCEPT !.pc = "ttl"]
<1>0. /\ session[m].pc = "held" /\ session[m].pc # "idle" /\ HasWon(session[m])
      /\ UNCHANGED <<etcd, auth, scope, work, counters>> /\ Becomes(m, s)
      /\ auth[Lease(m)].phase = "Uncertain"
  BY DEF BeginRecovery, In, HasWon, Phase
<1>1. Around(0)
  BY <1>0, Quiet DEF IInv, Shapes, counters
<1>2. /\ session[m] \in SessionRecs /\ Lease(m) = session[m].lease
      /\ Sound(session[m], auth[Lease(m)], rev', key', deleted', granted)
  BY <1>0, <1>1, InProgress, Evolved
<1>3. /\ s \in SessionRecs /\ s.pc = "ttl" /\ s.lease = session[m].lease
      /\ s.created = session[m].created /\ s.observed = session[m].observed
      /\ s.pred = session[m].pred /\ s.from = session[m].from
  BY <1>2 DEF SessionRecs, Pcs, Recovery
<1> HIDE DEF s
<1>4. Sound(s, auth[Lease(m)], rev', key', deleted', granted)
  BY <1>0, <1>2, <1>3 DEF Sound, HasWon, Recovery
<1> QED BY <1>0, <1>1, <1>2, <1>3, <1>4, MoveStep

\* A step of the verification: what it found holds at that moment.
LEMMA VerifyStep ==
    ASSUME IInv, NEW m \in Members, NEW f \in Outcomes, NEW at \in Recovery, NEW holds \in BOOLEAN,
           NEW reason \in Reasons, NEW next \in Recovery \ {"ttl"},
           at = "renew" \/ next = "leader" \/ (holds => key[Lease(m)] # 0),
           Verify(m, f, at, holds, reason, next)
    PROVE  IInv'
<1>0. /\ session[m].pc = at /\ session[m].pc # "idle" /\ Fault(f) /\ HasWon(session[m])
      /\ puts' = puts /\ stops' = stops /\ UNCHANGED <<etcd, scope, work>>
  BY DEF Verify, In, HasWon, Recovery
<1>1. Around(0)
  BY <1>0, FaultCounts, Quiet DEF IInv, Shapes
<1>2. /\ Sound(session[m], auth[Lease(m)], rev, key, deleted, granted)
      /\ rev \in Nat /\ session[m].lease = Lease(m) /\ session[m] \in SessionRecs
      /\ Lease(m) \in Leases
  BY <1>0, InProgress DEF IInv, Store
<1>3. rev' = rev /\ key' = key /\ deleted' = deleted
  BY <1>0 DEF etcd
<1>4. auth[Lease(m)].phase # "Leader"
  BY <1>0, <1>2 DEF Sound
<1>5. CASE f # "ok"
  <2> DEFINE s == [session[m] EXCEPT !.pc = "held"]
  <2>1. Becomes(m, s) /\ UNCHANGED auth
    BY <1>5 DEF Verify
  <2>2. /\ s \in SessionRecs /\ s.pc = "held" /\ s.lease = session[m].lease
        /\ s.created = session[m].created /\ s.observed = session[m].observed
        /\ s.pred = session[m].pred /\ s.from = session[m].from
    BY <1>2 DEF SessionRecs, Pcs
  <2> HIDE DEF s
  <2>3. Sound(s, auth[Lease(m)], rev', key', deleted', granted)
    BY <1>0, <1>2, <1>3, <1>4, <2>2 DEF Sound, HasWon, Recovery
  <2> QED BY <1>0, <1>1, <1>2, <2>1, <2>2, <2>3, MoveStep
<1>6. CASE f = "ok" /\ ~holds
  <2>1. Retire(m, reason)
    BY <1>6 DEF Verify
  <2> QED BY <1>0, <1>1, <2>1, RetireStep
<1>7. CASE f = "ok" /\ holds
  <2> DEFINE o == Observe(m, rev)
             s == [o EXCEPT !.pc = next]
  <2>1. Becomes(m, s) /\ UNCHANGED auth
    BY <1>7 DEF Verify
  <2>2. o \in SessionRecs /\ o.open = session[m].open /\ o.from = session[m].from
    BY <1>0, <1>2, ObserveRec
  <2>3. session[m].from <= rev + 1 /\ session[m].from \in Nat
    BY <1>2 DEF Sound, SessionRecs
  <2>o. o = Observe(m, rev)
    OBVIOUS
  <2> HIDE DEF o
  <2>4. /\ s \in SessionRecs /\ s.pc = next /\ s.from = o.from /\ s.lease = o.lease
        /\ s.created = o.created /\ s.observed = o.observed /\ s.pred = o.pred
    BY <2>2 DEF SessionRecs, Pcs, Recovery
  <2> HIDE DEF s
  <2>5. HasWon(s) /\ s.pc \in {"leader", "renew", "rewatch"}
    BY <2>4 DEF HasWon, Recovery
  <2>6. s.pc \in {"renew", "rewatch"} /\ key'[Lease(m)] = 0 => s.from <= deleted'[Lease(m)]
    BY <1>0, <1>2, <1>3, <1>7, <2>2, <2>4 DEF Sound
  <2> QED BY <1>0, <1>1, <1>2, <1>3, <1>4, <2>1, <2>2, <2>3, <2>o, <2>4, <2>5, <2>6, ObservedStep
<1> QED BY <1>5, <1>6, <1>7

LEMMA RecoveryStep ==
    ASSUME IInv, NEW m \in Members, NEW f \in Outcomes,
           VerifyLease(m, f) \/ VerifyLeader(m, f) \/ VerifyRenewed(m, f)
    PROVE  IInv'
<1>1. CASE VerifyLease(m, f)
  <2> DEFINE h == Lease(m) \in alive
  <2>1. Verify(m, f, "ttl", h, "lease", "leader") /\ h \in BOOLEAN
    BY <1>1 DEF VerifyLease
  <2> HIDE DEF h
  <2> QED BY <2>1, VerifyStep DEF Recovery, Reasons
<1>2. CASE VerifyLeader(m, f)
  <2>1. Verify(m, f, "leader", StillOwner(m), "owner", "renew")
    BY <1>2 DEF VerifyLeader
  <2>2. (StillOwner(m) => key[Lease(m)] # 0) /\ StillOwner(m) \in BOOLEAN
    BY DEF StillOwner, Fenced
  <2> QED BY <2>1, <2>2, VerifyStep DEF Recovery, Reasons
<1>3. CASE VerifyRenewed(m, f)
  <2> DEFINE h == Lease(m) \in alive
  <2>1. Verify(m, f, "renew", h, "lease", "rewatch") /\ h \in BOOLEAN
    BY <1>3 DEF VerifyRenewed
  <2> HIDE DEF h
  <2> QED BY <2>1, VerifyStep DEF Recovery, Reasons
<1> QED BY <1>1, <1>2, <1>3

LEMMA RestoreStep ==
    ASSUME IInv, NEW m \in Members, NEW f \in Outcomes, Restore(m, f)
    PROVE  IInv'
<1>0. /\ session[m].pc = "rewatch" /\ session[m].pc # "idle" /\ Fault(f) /\ HasWon(session[m])
      /\ puts' = puts /\ stops' = stops /\ UNCHANGED <<etcd, scope, work>>
  BY DEF Restore, In, HasWon, Recovery
<1>1. Around(0)
  BY <1>0, FaultCounts, Quiet DEF IInv, Shapes
<1>2. CASE f # "ok"
  <2>1. Uncertain(m)
    BY <1>2 DEF Restore
  <2> QED BY <1>0, <1>1, <2>1, UncertainStep
<1>3. CASE f = "ok"
  <2> DEFINE w == ResumeFrom(m)
  <2>1. /\ Becomes(m, [session[m] EXCEPT !.pc = "held", !.from = w, !.open = TRUE])
        /\ Authority(Lease(m), "Leader") /\ UNCHANGED etcd
    BY <1>0, <1>3 DEF Restore
  <2>2. /\ session[m] \in SessionRecs /\ Lease(m) = session[m].lease
        /\ Sound(session[m], auth[Lease(m)], rev, key, deleted, granted)
    BY <1>0, InProgress
  <2>3. w \in Nat /\ w <= rev + 1 /\ (key[Lease(m)] = 0 => w <= deleted[Lease(m)])
    BY <1>0, <2>2 DEF ResumeFrom, Sound, SessionRecs
  <2> HIDE DEF w
  <2> QED BY <1>0, <1>1, <2>1, <2>3, LeaderStep
<1> QED BY <1>2, <1>3

\* An owner transaction: the writer is fenced, so it is not older than the
\* last one, and first, so no key is older than it.
LEMMA PutStep ==
    ASSUME IInv, NEW m \in Members, NEW f \in Outcomes, Put(m, f)
    PROVE  IInv' /\ target <= target'
<1> DEFINE runs == f # "lost" /\ Fenced(m)
<1>0. /\ session[m].pc = "held" /\ session[m].pc # "idle" /\ Fault(f) /\ HasWon(session[m])
      /\ puts' = puts + 1 /\ stops' = stops
      /\ rev' = IF runs THEN rev + 1 ELSE rev
      /\ target' = IF runs THEN session[m].created ELSE target
      /\ UNCHANGED <<alive, key, deleted, granted, scope, permits, results, bounds>>
  BY DEF Put, Leads, In, HasWon, work
<1>1. /\ Sound(session[m], auth[Lease(m)], rev, key, deleted, granted)
      /\ session[m].lease = Lease(m) /\ session[m] \in SessionRecs /\ Lease(m) \in Leases
      /\ Store(rev, key, deleted, target) /\ rev \in Nat
  BY <1>0, InProgress DEF IInv, Store
<1>2. /\ target' \in Nat /\ target <= target' /\ target' <= rev'
      /\ \A l \in Leases : key[l] = 0 \/ target' <= key[l]
  BY <1>0, <1>1 DEF Store, Sound, Fenced, SessionRecs
<1>3. rev' \in Nat /\ rev <= rev'
  BY <1>0, <1>1
<1>4. Around(0)
  <2>1. Store(rev', key', deleted', target')
    BY <1>0, <1>1, <1>2, <1>3 DEF Store
  <2>2. Evolves(rev, key, deleted, rev', key', deleted', 0)
    BY <1>0, <1>3 DEF Evolves
  <2>3. faults' \in Nat
    BY <1>0, FaultCounts
  <2> QED BY <1>0, <2>1, <2>2, <2>3 DEF Around, IInv, Shapes
<1>5. CASE f # "ok"
  <2>1. Uncertain(m)
    BY <1>5 DEF Put
  <2> QED BY <1>0, <1>2, <1>4, <2>1, UncertainStep
<1>6. CASE f = "ok" /\ ~runs
  <2>1. Retire(m, "owner")
    BY <1>6 DEF Put
  <2> QED BY <1>0, <1>2, <1>4, <2>1, RetireStep DEF Reasons
<1>7. CASE f = "ok" /\ runs
  <2> DEFINE r == rev + 1
             o == Observe(m, r)
  <2>1. Becomes(m, o) /\ UNCHANGED auth
    BY <1>7 DEF Put
  <2>2. r \in Nat /\ rev' = r
    BY <1>0, <1>1, <1>7
  <2> HIDE DEF r
  <2>3. /\ o \in SessionRecs /\ o.pc = "held" /\ o.from = session[m].from
        /\ o.open = session[m].open /\ o.from \in Nat
    BY <1>0, <1>1, <2>2, ObserveRec DEF SessionRecs
  <2>o. o = Observe(m, r)
    OBVIOUS
  <2> HIDE DEF o
  <2>4. Sound(session[m], auth[Lease(m)], rev', key', deleted', granted)
    BY <1>0, <1>4, Evolved
  <2>5. /\ o.from <= rev' + 1
        /\ auth[Lease(m)].phase = "Leader" /\ o.open /\ key'[Lease(m)] = 0 =>
              o.from <= deleted'[Lease(m)]
    BY <1>0, <1>1, <2>3, <2>4 DEF Sound
  <2>6. HasWon(o) /\ o.pc \notin Recovery
    BY <2>3 DEF HasWon, Recovery
  <2> QED BY <1>0, <1>2, <1>4, <2>1, <2>2, <2>3, <2>o, <2>5, <2>6, ObservedStep
<1> QED BY <1>5, <1>6, <1>7

-----------------------------------------------------------------------------
(* The end of a session *)

LEMMA RevokeScopeStep ==
    ASSUME IInv, NEW l \in Leases, NEW reason \in {"scope", "process"}, RevokeScope(l, reason)
    PROVE  IInv'
<1>1. /\ scope' = [scope EXCEPT ![l] = reason] /\ stops' = stops + 1
      /\ UNCHANGED <<rev, alive, key, target, deleted, granted, session, auth, permits,
                     results, bounds, puts, faults>>
  BY DEF RevokeScope, etcd, work
<1>2. Shapes'
  BY <1>1 DEF IInv, Shapes
<1>3. Sessions' /\ LeasesDiffer' /\ HeldByItsSession' /\ SessionAuthorities' /\ PermitsFollow'
  BY <1>1 DEF IInv, Sessions, LeasesDiffer, HeldByItsSession, SessionAuthorities, PermitsFollow
<1> QED BY <1>1, <1>2, <1>3 DEF IInv

LEMMA NoticeScopeStep ==
    ASSUME IInv, NEW m \in Members, NoticeScope(m)
    PROVE  IInv'
<1>0. UNCHANGED <<etcd, scope, work, counters>>
  BY DEF NoticeScope
<1>1. Around(0)
  BY <1>0, Quiet DEF IInv, Shapes, counters
<1>2. CASE In(m, Campaigns) /\ CampaignFails(m)
  <2>1. session[m].pc # "idle"
    BY <1>2 DEF In, Campaigns
  <2> QED BY <1>1, <1>2, <2>1, EndStep
<1>3. CASE In(m, {"held", "relist", "resume"} \cup Recovery) /\ Retire(m, scope[Lease(m)])
  <2>1. session[m].pc # "idle" /\ HasWon(session[m])
    BY <1>3 DEF In, HasWon, Recovery
  <2>2. scope[Lease(m)] \in Reasons
    BY <2>1, InProgress DEF IInv, Shapes, Reasons
  <2> QED BY <1>1, <1>3, <2>1, <2>2, RetireStep
<1> QED BY <1>2, <1>3 DEF NoticeScope

LEMMA ShutdownStep ==
    ASSUME IInv, NEW m \in Members, Shutdown(m)
    PROVE  IInv'
<1>0. /\ session[m].pc = "held" /\ session[m].pc # "idle" /\ HasWon(session[m])
      /\ UNCHANGED <<etcd, scope, work, puts, faults>>
      /\ Authority(Lease(m), "Retired")
      /\ stops' \in {stops, stops + 1}
  BY DEF Shutdown, In, HasWon
<1>1. Around(0)
  BY <1>0, Quiet DEF IInv, Shapes
<1> DEFINE a == Changed(auth[Lease(m)], "Retired")
           s == [session[m] EXCEPT !.pc = "resign"]
<1>2. /\ auth' = [auth EXCEPT ![Lease(m)] = a] /\ Advances(auth[Lease(m)], a)
      /\ a.phase \notin {"Leader", "Uncertain"}
  BY <1>0, AuthorityStep DEF Phases
<1>3. Becomes(m, NoSession) \/ Becomes(m, s)
  BY DEF Shutdown
<1>4. CASE Becomes(m, NoSession)
  BY <1>0, <1>1, <1>4, EndStep DEF CampaignFails
<1>5. CASE Becomes(m, s)
  <2>1. /\ session[m] \in SessionRecs /\ Lease(m) = session[m].lease
        /\ Sound(session[m], auth[Lease(m)], rev', key', deleted', granted)
    BY <1>0, <1>1, InProgress, Evolved
  <2>2. /\ s \in SessionRecs /\ s.pc = "resign" /\ s.lease = session[m].lease
        /\ s.created = session[m].created /\ s.observed = session[m].observed
        /\ s.pred = session[m].pred /\ s.from = session[m].from
    BY <2>1 DEF SessionRecs, Pcs
  <2> HIDE DEF s, a
  <2>3. Sound(s, a, rev', key', deleted', granted)
    BY <1>0, <1>2, <2>1, <2>2 DEF Sound, HasWon, Recovery
  <2> QED BY <1>0, <1>1, <1>2, <1>5, <2>1, <2>2, <2>3, SessionStep
<1> QED BY <1>3, <1>4, <1>5

LEMMA DropStep ==
    ASSUME IInv, NEW m \in Members, Drop(m)
    PROVE  IInv'
<1>0. /\ session[m].pc # "idle" /\ CampaignFails(m) /\ stops' = stops + 1
      /\ UNCHANGED <<etcd, scope, work, puts, faults>>
  BY DEF Drop, In, CampaignFails
<1>1. Around(0)
  BY <1>0, Quiet DEF IInv, Shapes
<1> QED BY <1>0, <1>1, EndStep

\* The deletion of a key leaves the store in order.
LEMMA DeleteKeyStore ==
    ASSUME IInv, NEW l \in Leases, DeleteKey(l), UNCHANGED target
    PROVE  /\ Store(rev', key', deleted', target')
           /\ Evolves(rev, key, deleted, rev', key', deleted', 0)
<1>1. Store(rev, key, deleted, target) /\ rev \in Nat /\ key \in [Leases -> Nat]
      /\ deleted \in [Leases -> Nat]
  BY DEF IInv, Store
<1>2. CASE key[l] = 0
  <2>1. rev' = rev /\ deleted' = deleted /\ key' = key
    BY <1>1, <1>2 DEF DeleteKey
  <2> QED BY <1>1, <2>1 DEF Evolves
<1>3. CASE key[l] # 0
  <2>1. /\ rev' = rev + 1 /\ deleted' = [deleted EXCEPT ![l] = rev + 1]
        /\ key' = [key EXCEPT ![l] = 0]
    BY <1>3 DEF DeleteKey
  <2>2. Store(rev', key', deleted', target')
    BY <1>1, <2>1 DEF Store
  <2> QED BY <1>1, <2>1, <2>2 DEF Evolves
<1> QED BY <1>2, <1>3

LEMMA ResignStep ==
    ASSUME IInv, NEW m \in Members, NEW f \in Outcomes, Resign(m, f)
    PROVE  IInv'
<1> DEFINE s == [session[m] EXCEPT !.pc = "revoke"]
<1>0. /\ session[m].pc = "resign" /\ session[m].pc # "idle" /\ Fault(f)
      /\ puts' = puts /\ stops' = stops /\ UNCHANGED auth /\ Becomes(m, s)
      /\ UNCHANGED <<alive, target, granted, scope, permits, results, bounds>>
      /\ DeleteKey(Lease(m)) \/ UNCHANGED <<rev, deleted, key>>
  BY DEF Resign, In, work
<1>1. /\ session[m] \in SessionRecs /\ Lease(m) = session[m].lease /\ Lease(m) \in Leases
  BY <1>0, InProgress
<1>2. Store(rev', key', deleted', target') /\ Evolves(rev, key, deleted, rev', key', deleted', 0)
  <2>1. CASE DeleteKey(Lease(m))
    BY <1>0, <1>1, <2>1, DeleteKeyStore
  <2>2. CASE UNCHANGED <<rev, deleted, key>>
    BY <1>0, <2>2 DEF IInv, Evolves, Store
  <2> QED BY <1>0, <2>1, <2>2
<1>3. Around(0)
  BY <1>0, <1>2, FaultCounts DEF Around, IInv, Shapes
<1>4. Sound(session[m], auth[Lease(m)], rev', key', deleted', granted)
  BY <1>0, <1>3, Evolved
<1>5. /\ s \in SessionRecs /\ s.pc = "revoke" /\ s.lease = session[m].lease
      /\ s.created = session[m].created /\ s.observed = session[m].observed
      /\ s.pred = session[m].pred /\ s.from = session[m].from
  BY <1>1 DEF SessionRecs, Pcs
<1> HIDE DEF s
<1>6. Sound(s, auth[Lease(m)], rev', key', deleted', granted)
  BY <1>0, <1>4, <1>5 DEF Sound, HasWon, Recovery
<1> QED BY <1>0, <1>1, <1>3, <1>5, <1>6, MoveStep

LEMMA RevokeLeaseStep ==
    ASSUME IInv, NEW m \in Members, NEW f \in Outcomes, RevokeLease(m, f)
    PROVE  IInv'
<1> DEFINE a == auth[Lease(m)]
<1>0. /\ session[m].pc = "revoke" /\ session[m].pc # "idle" /\ Fault(f)
      /\ puts' = puts /\ stops' = stops /\ UNCHANGED auth /\ Becomes(m, NoSession)
      /\ UNCHANGED <<target, granted, scope, permits, results, bounds>>
      /\ DeleteKey(Lease(m)) \/ UNCHANGED <<rev, deleted, key>>
      /\ alive' \subseteq alive
  BY DEF RevokeLease, In, work
<1>1. /\ Lease(m) \in Leases /\ a \in AuthorityRecs /\ Retires(a)
      /\ Sound(session[m], a, rev, key, deleted, granted)
  BY <1>0, InProgress
<1>2. Store(rev', key', deleted', target') /\ Evolves(rev, key, deleted, rev', key', deleted', 0)
  <2>1. CASE DeleteKey(Lease(m))
    BY <1>0, <1>1, <2>1, DeleteKeyStore
  <2>2. CASE UNCHANGED <<rev, deleted, key>>
    BY <1>0, <2>2 DEF IInv, Evolves, Store
  <2> QED BY <1>0, <2>1, <2>2
<1>3. Around(0)
  BY <1>0, <1>2, FaultCounts DEF Around, IInv, Shapes
<1>4. a.phase \notin {"Leader", "Uncertain"}
  BY <1>0, <1>1 DEF Sound
<1>5. auth' = [auth EXCEPT ![Lease(m)] = a] /\ Advances(a, a)
  BY <1>0, <1>1 DEF IInv, Shapes, Advances
<1> HIDE DEF a
<1> QED BY <1>0, <1>3, <1>4, <1>5, NoSessionRec, SessionStep DEF a

\* A key ends from outside: a lease expires, an operator removes the key.
LEMMA OutsideStep ==
    ASSUME IInv, NEW l \in Leases, Expire(l) \/ Removed(l)
    PROVE  IInv'
<1>0. /\ DeleteKey(l) /\ alive' \subseteq alive /\ faults' \in Nat
      /\ UNCHANGED <<target, granted, session, auth, scope, permits, results, bounds, puts, stops>>
  BY DEF Expire, Removed, local, work, counters, IInv, Shapes
<1>1. Store(rev', key', deleted', target') /\ Evolves(rev, key, deleted, rev', key', deleted', 0)
  BY <1>0, DeleteKeyStore
<1>2. Around(0)
  BY <1>0, <1>1 DEF Around, IInv, Shapes
<1>3. Shapes'
  BY <1>0 DEF IInv, Shapes
<1>4. Sessions'
  <2> SUFFICES ASSUME NEW m \in Members, session[m] # NoSession
               PROVE  Sound(session[m], auth[session[m].lease], rev', key', deleted', granted)
    BY <1>0 DEF Sessions
  <2>1. session[m].pc # "idle"
    BY DEF IInv, Sessions, Sound
  <2> QED BY <1>2, <2>1, Evolved DEF Lease
<1>5. LeasesDiffer' /\ HeldByItsSession' /\ SessionAuthorities' /\ PermitsFollow'
  BY <1>0 DEF IInv, LeasesDiffer, HeldByItsSession, SessionAuthorities, PermitsFollow
<1> QED BY <1>1, <1>3, <1>4, <1>5 DEF IInv

-----------------------------------------------------------------------------
(* Work *)

LEMMA WorkStep ==
    ASSUME IInv,
           (\E l \in Leases : CaptureWork(l)) \/ (\E p \in permits : Publish(p) \/ GiveUp(p))
    PROVE  IInv'
<1>0. UNCHANGED <<rev, alive, key, target, deleted, granted, session, auth, scope, bounds,
                  puts, faults, stops>>
  BY DEF CaptureWork, Publish, GiveUp, etcd, local, counters
<1>1. \A q \in permits' : q \in PermitRecs /\ Follows(q, auth[q.lease])
  <2>1. ASSUME NEW l \in Leases, CaptureWork(l)
        PROVE  \A q \in permits' : q \in PermitRecs /\ Follows(q, auth[q.lease])
    <3> DEFINE n == [lease |-> l, interval |-> auth[l].interval, lapses |-> auth[l].lapses]
    <3>1. permits' = permits \cup {n}
      BY <2>1 DEF CaptureWork
    <3>2. auth[l] \in AuthorityRecs
      BY DEF IInv, Shapes
    <3>3. n \in PermitRecs /\ Follows(n, auth[n.lease])
      BY <3>2 DEF PermitRecs, Follows, AuthorityRecs
    <3> HIDE DEF n
    <3> QED BY <3>1, <3>3 DEF IInv, Shapes, PermitsFollow
  <2>2. ASSUME NEW p \in permits, Publish(p) \/ GiveUp(p)
        PROVE  \A q \in permits' : q \in PermitRecs /\ Follows(q, auth[q.lease])
    BY <2>2 DEF Publish, GiveUp, IInv, Shapes, PermitsFollow
  <2> QED BY <2>1, <2>2
<1>2. results' \subseteq results \cup permits
  BY DEF CaptureWork, Publish, GiveUp
<1>3. Shapes'
  BY <1>0, <1>1, <1>2 DEF IInv, Shapes
<1>4. PermitsFollow'
  BY <1>0, <1>1 DEF PermitsFollow
<1>5. Sessions' /\ LeasesDiffer' /\ HeldByItsSession' /\ SessionAuthorities'
  BY <1>0 DEF IInv, Sessions, LeasesDiffer, HeldByItsSession, SessionAuthorities
<1> QED BY <1>0, <1>3, <1>4, <1>5 DEF IInv

-----------------------------------------------------------------------------
(* The inductive invariant and the theorems *)

LEMMA InitIInv == Init => IInv
<1> SUFFICES ASSUME Init PROVE IInv
  OBVIOUS
<1>1. NewAuthority \in AuthorityRecs /\ NewAuthority.phase = "Campaigning" /\ ~NewAuthority.retired
  BY DEF NewAuthority, AuthorityRecs, Phases
<1>2. /\ \A m \in Members : session[m] = NoSession
      /\ \A l \in Leases : auth[l] = NewAuthority
  BY DEF Init
<1>3. Shapes
  BY <1>1, NoSessionRec, ElectionAssumption DEF Init, Shapes
<1>4. Store(rev, key, deleted, target)
  BY DEF Init, Store
<1>5. Sessions
  BY <1>2 DEF Sessions
<1>6. LeasesDiffer
  BY <1>2, NoSessionRec DEF LeasesDiffer
<1>7. SessionAuthorities /\ HeldByItsSession
  BY <1>1, <1>2 DEF SessionAuthorities, HeldByItsSession, Retires
<1>8. PermitsFollow
  BY DEF Init, PermitsFollow
<1> QED BY <1>3, <1>4, <1>5, <1>6, <1>7, <1>8 DEF IInv

LEMMA RequestStep ==
    ASSUME IInv, NEW m \in Members, Request(m)
    PROVE  IInv'
BY CreateStep, QueryStep, WaitStep, AttachStep, BecomeLeaderStep, KeepAliveStep, WatchStep,
   RelistStep, ResumeStep, BeginRecoveryStep, RecoveryStep, RestoreStep, NoticeScopeStep,
   ResignStep, RevokeLeaseStep
   DEF Request

LEMMA NextIInv == IInv /\ [Next]_vars => IInv'
<1> SUFFICES ASSUME IInv, [Next]_vars PROVE IInv'
  OBVIOUS
<1>1. ASSUME NEW m \in bounds.members, Grant(m)
      PROVE  IInv'
  <2>1. m \in Members
    BY DEF IInv, Shapes, Bounds
  <2> QED BY <1>1, <2>1, GrantStep
<1>2. CASE \E m \in Members : Request(m)
  BY <1>2, RequestStep
<1>3. CASE \E m \in Members : \/ WatchCompacted(m) \/ WaitFails(m) \/ WatchBreaks(m)
                              \/ WatchIsCompacted(m) \/ Interrupt(m)
                              \/ Shutdown(m) \/ Drop(m)
  BY <1>3, WaitStep, WatchStep, InterruptStep, ShutdownStep, DropStep
<1>4. CASE \E m \in Members, f \in Outcomes : Put(m, f)
  BY <1>4, PutStep
<1>5. CASE \E l \in Leases, reason \in {"scope", "process"} : RevokeScope(l, reason)
  BY <1>5, RevokeScopeStep
<1>6. CASE \E l \in Leases : Removed(l) \/ Expire(l)
  BY <1>6, OutsideStep
<1>7. CASE (\E l \in Leases : CaptureWork(l)) \/ (\E p \in permits : Publish(p) \/ GiveUp(p))
  BY <1>7, WorkStep
<1>8. CASE UNCHANGED vars
  <2>1. UNCHANGED <<rev, alive, key, target, deleted, granted, session, auth, scope, permits,
                    results, puts, faults, stops, bounds>>
    BY <1>8 DEF vars
  <2>2. Shapes' /\ Store(rev', key', deleted', target')
    BY <2>1 DEF IInv, Shapes
  <2>3. Sessions' /\ LeasesDiffer' /\ HeldByItsSession' /\ SessionAuthorities' /\ PermitsFollow'
    BY <2>1 DEF IInv, Sessions, LeasesDiffer, HeldByItsSession, SessionAuthorities, PermitsFollow
  <2> QED BY <2>2, <2>3 DEF IInv
<1> QED BY <1>1, <1>2, <1>3, <1>4, <1>5, <1>6, <1>7, <1>8 DEF Next

LEMMA IInvAlways == Spec => []IInv
BY InitIInv, NextIInv, PTL DEF Spec

LEMMA IInvConsistent == IInv => ElectionConsistent
<1> SUFFICES ASSUME IInv PROVE ElectionConsistent
  OBVIOUS
<1>0. /\ rev \in Nat /\ MaxLeases \in Nat
  BY ElectionAssumption DEF IInv, Store
<1>1. session \in [Members -> [pc : Pcs, lease : 0 .. MaxLeases, created : Revisions,
                               pred : 0 .. MaxLeases, observed : Revisions, from : Revisions,
                               open : BOOLEAN, reason : Reasons]]
  <2> SUFFICES ASSUME NEW m \in Members
               PROVE  session[m] \in [pc : Pcs, lease : 0 .. MaxLeases, created : Revisions,
                               pred : 0 .. MaxLeases, observed : Revisions, from : Revisions,
                               open : BOOLEAN, reason : Reasons]
    BY DEF IInv, Shapes
  <2>1. session[m] \in SessionRecs
    BY DEF IInv, Shapes
  <2>2. CASE session[m] = NoSession
    BY <1>0, <2>2 DEF NoSession, Revisions, Pcs, Reasons
  <2>3. CASE session[m] # NoSession
    <3>1. Sound(session[m], auth[session[m].lease], rev, key, deleted, granted)
      BY <2>3 DEF IInv, Sessions
    <3>2. /\ session[m].lease \in 0 .. MaxLeases /\ session[m].pred \in 0 .. MaxLeases
          /\ session[m].created \in Revisions /\ session[m].observed \in Revisions
          /\ session[m].from \in Revisions
      BY <1>0, <2>1, <3>1 DEF Sound, Leases, Revisions, SessionRecs
    <3> QED BY <2>1, <3>2 DEF SessionRecs
  <2> QED BY <2>2, <2>3
<1>2. key \in [Leases -> Revisions] /\ deleted \in [Leases -> Revisions]
  BY <1>0 DEF IInv, Store, Revisions
<1>3. TypeOK
  BY <1>0, <1>1, <1>2 DEF IInv, Shapes, Store, TypeOK, AuthorityRecs, PermitRecs
<1>4. WinnerIsFirst
  <2> SUFFICES ASSUME NEW m \in Members, In(m, Pcs \ {"idle", "create", "query", "wait"}), Fenced(m)
               PROVE  IsFirst(Lease(m))
    BY DEF WinnerIsFirst
  <2>1. session[m].pc # "idle" /\ HasWon(session[m])
    BY DEF In, Pcs, Campaigns, HasWon, Recovery
  <2>2. Sound(session[m], auth[Lease(m)], rev, key, deleted, granted)
    BY <2>1, InProgress
  <2> QED BY <2>1, <2>2 DEF Sound, IsFirst, Candidates, Fenced
<1>5. WatchMissesNothing
  <2> SUFFICES ASSUME NEW m \in Members, Leads(m), session[m].open, key[Lease(m)] = 0
               PROVE  deleted[Lease(m)] >= session[m].from
    BY DEF WatchMissesNothing
  <2>1. session[m].pc = "held" /\ auth[Lease(m)].phase = "Leader"
    BY DEF Leads, In, Phase
  <2>2. /\ Sound(session[m], auth[Lease(m)], rev, key, deleted, granted)
        /\ session[m].lease = Lease(m) /\ session[m] \in SessionRecs /\ Lease(m) \in Leases
    BY <2>1, InProgress
  <2> QED BY <2>1, <2>2 DEF Sound, SessionRecs, IInv, Store
<1>6. EndedSessionsRetainNothing
  BY DEF IInv, HeldByItsSession, EndedSessionsRetainNothing, Retained, Lease
<1> QED BY <1>3, <1>4, <1>5, <1>6 DEF ElectionConsistent

\* Whatever requests fail, leases expire, keys are removed and sessions stop:
\* a session that has won has no older candidate, an open watch has not missed
\* the end of its key, and no authority outlives its session.
THEOREM Consistency == Spec => []ElectionConsistent
BY IInvAlways, IInvConsistent, PTL

\* Owner writes succeed in the order in which their sessions were created.
THEOREM Succession == Spec => WritesFollowSuccession
<1>1. IInv /\ [Next]_vars => [target' >= target]_vars
  <2> SUFFICES ASSUME IInv, Next PROVE target' >= target
    OBVIOUS
  <2>0. target \in Nat
    BY DEF IInv, Store
  <2>1. CASE UNCHANGED target
    BY <2>0, <2>1
  <2>2. ASSUME NEW m \in Members, NEW f \in Outcomes, Put(m, f)
        PROVE  target' >= target
    <3>1. IInv' /\ target <= target'
      BY <2>2, PutStep
    <3>2. target' \in Nat
      BY <3>1 DEF IInv, Store
    <3> QED BY <2>0, <3>1, <3>2
  <2>3. ASSUME NEW m \in Members, Request(m)
        PROVE  UNCHANGED target
    BY <2>3 DEF Request, CreateCandidate, Query, PredecessorGone, Attach, BecomeLeader, KeepAlive,
         WatchProgress, WatchDelete, Relist, Resume, BeginRecovery, VerifyLease, VerifyLeader,
         VerifyRenewed, Verify, Restore, NoticeScope, Resign, RevokeLease, etcd
  <2> QED BY <2>1, <2>2, <2>3
       DEF Next, Grant, WatchCompacted, WaitFails, WatchBreaks, WatchIsCompacted, Interrupt,
           Shutdown, Drop, RevokeScope, Removed, Expire, CaptureWork, Publish, GiveUp, etcd
<1> QED BY <1>1, IInvAlways, PTL DEF Spec, WritesFollowSuccession

\* Nothing is published under a permit whose session stopped being the leader,
\* for however short a time, since the permit was captured.
THEOREM FreshWork == Spec => NoStalePublication
<1>1. IInv /\ [Next]_vars =>
        [\A p \in results' \ results : p.lapses = auth[p.lease].lapses]_vars
  <2> SUFFICES ASSUME IInv, Next, NEW p \in results' \ results
               PROVE  p.lapses = auth[p.lease].lapses
    OBVIOUS
  <2>1. ASSUME NEW m \in Members, Request(m)
        PROVE  UNCHANGED results
    BY <2>1 DEF Request, CreateCandidate, Query, PredecessorGone, Attach, BecomeLeader, KeepAlive,
         WatchProgress, WatchDelete, Relist, Resume, BeginRecovery, VerifyLease, VerifyLeader,
         VerifyRenewed, Verify, Restore, NoticeScope, Resign, RevokeLease, work
  <2>2. PICK q \in permits : Publish(q)
    BY <2>1 DEF Next, Grant, WatchCompacted, WaitFails, WatchBreaks, WatchIsCompacted, Interrupt,
           Put, Shutdown, Drop, RevokeScope, Removed, Expire, CaptureWork, GiveUp, work
  <2>3. p = q /\ Current(q)
    BY <2>2 DEF Publish
  <2>4. Follows(q, auth[q.lease])
    BY DEF IInv, PermitsFollow
  <2> QED BY <2>3, <2>4 DEF Current, Follows
<1> QED BY <1>1, IInvAlways, PTL DEF Spec, NoStalePublication

-----------------------------------------------------------------------------
(***************************************************************************)
(* The permits that ownership leads to (Authority), for any number of      *)
(* threads, runtimes, snapshots and epochs.  A permit whose lock an effect *)
(* holds is not revoked, and a valid permit says that what it stands for   *)
(* is current (ValidIsCurrent); an effect holds every permit it rests on   *)
(* (LocksAreHeld) and found them valid, so all it rests on stays current   *)
(* until it ends.                                                          *)
(***************************************************************************)

\* The permits an effect rests on, as a set.
RestsOn(e) ==
    {EpochPermit(e.epoch), LeasePermit(e.of)}
        \cup (IF e.whole THEN {ReadyPermit(e.of), ConfigPermit(e.config)} ELSE {})

\* The bounds of the budget are those of the constants.
BudgetFits ==
    /\ left.runtimes <= MaxRuntimes
    /\ left.configs <= MaxConfigs
    /\ left.epochs <= MaxEpochs

\* A captured effect names a runtime, a snapshot and an epoch that existed.
EffectsAreNamed ==
    \A c \in Effects : effect[c].pc # "idle" =>
        /\ effect[c].of \in Runtimes
        /\ effect[c].config \in 1 .. MaxConfigs
        /\ effect[c].epoch \in 1 .. MaxEpochs

\* What an effect has locked and has still to lock is what it rests on; when it
\* runs it has locked all of it, and all of it is valid.
LocksAreHeld ==
    \A c \in Effects :
        /\ effect[c].pc \in {"idle", "captured"} => Holding(c) = {}
        /\ effect[c].pc = "acquire" => Holding(c) = RestsOn(effect[c]) \ effect[c].todo
        /\ effect[c].pc = "acquire" => effect[c].todo \subseteq RestsOn(effect[c])
        /\ effect[c].pc = "effect" => Holding(c) = RestsOn(effect[c])
        /\ effect[c].pc = "effect" => RestsOn(effect[c]) \subseteq valid

\* The phase a runtime is on its way to: a claimed one never becomes unclaimed,
\* and one that is dropped is on its way nowhere.
PhasesAdvance ==
    \A i \in Runtimes :
        /\ runtime[i].next = "Unclaimed" <=> runtime[i].phase = "Unclaimed"
        /\ runtime[i].dropped => Unlocked(i)

\* A release is of a lease that was claimed, and past its first step the lease
\* is revoked.
ReleasesRevoke ==
    \A t \in Releasers : release[t].at # 0 =>
        /\ release[t].lease \in Runtimes
        /\ runtime[release[t].lease].phase # "Unclaimed"
        /\ release[t].at > 1 => LeasePermit(release[t].lease) \notin valid

\* A valid permit says that what it stands for is current.
ValidIsCurrent ==
    /\ \A i \in Runtimes : LeasePermit(i) \in valid => owner = i /\ runtime[i].phase # "Unclaimed"
    /\ \A i \in Runtimes : ReadyPermit(i) \in valid => runtime[i].phase = "Ready" /\ ~runtime[i].dropped
    /\ \A g \in 1 .. MaxConfigs :
            ConfigPermit(g) \in valid => g = config.current /\ config.step # "swap"
    /\ \A e \in 1 .. MaxEpochs : EpochPermit(e) \in valid => e = epoch

\* A publication was begun because there is a snapshot left to publish.
PublicationFits == config.step # "idle" => config.current < left.configs

\* The inductive invariant.
AuthorityInv ==
    /\ AuthorityTypes /\ BudgetFits /\ EffectsAreNamed /\ LocksAreHeld
    /\ PhasesAdvance /\ ReleasesRevoke /\ ValidIsCurrent /\ PublicationFits

-----------------------------------------------------------------------------
(* Permits                                                                 *)

\* The permits of leases, readiness, snapshots and epochs are numbers of their
\* own.
LEMMA PermitsDistinct ==
    /\ \A i, j \in Runtimes :
            /\ LeasePermit(i) = LeasePermit(j) => i = j
            /\ ReadyPermit(i) = ReadyPermit(j) => i = j
            /\ LeasePermit(i) # ReadyPermit(j)
    /\ \A i \in Runtimes, g \in 1 .. MaxConfigs :
            LeasePermit(i) # ConfigPermit(g) /\ ReadyPermit(i) # ConfigPermit(g)
    /\ \A i \in Runtimes, e \in 1 .. MaxEpochs :
            LeasePermit(i) # EpochPermit(e) /\ ReadyPermit(i) # EpochPermit(e)
    /\ \A g \in 1 .. MaxConfigs, e \in 1 .. MaxEpochs : ConfigPermit(g) # EpochPermit(e)
    /\ \A g, h \in 1 .. MaxConfigs : ConfigPermit(g) = ConfigPermit(h) => g = h
    /\ \A e, f \in 1 .. MaxEpochs : EpochPermit(e) = EpochPermit(f) => e = f
BY AuthorityAssumption DEF Runtimes, LeasePermit, ReadyPermit, ConfigPermit, EpochPermit

LEMMA PermitsExist ==
    /\ \A i \in Runtimes : LeasePermit(i) \in Permits /\ ReadyPermit(i) \in Permits
    /\ \A g \in 1 .. MaxConfigs : ConfigPermit(g) \in Permits
    /\ \A e \in 1 .. MaxEpochs : EpochPermit(e) \in Permits
    /\ 1 \in 1 .. MaxConfigs /\ 1 \in 1 .. MaxEpochs
BY AuthorityAssumption DEF Runtimes, LeasePermit, ReadyPermit, ConfigPermit, EpochPermit, Permits

\* The list commit_all is given names what the effect rests on.
LEMMA AuthoritiesAreRestsOn ==
    ASSUME NEW e
    PROVE  Range(Authorities(e)) = RestsOn(e)
<1>1. CASE e.whole
  <2>1. Authorities(e) = <<ReadyPermit(e.of), ConfigPermit(e.config), LeasePermit(e.of),
                           EpochPermit(e.epoch), LeasePermit(e.of)>>
    BY <1>1 DEF Authorities
  <2> QED BY <1>1, <2>1 DEF Range, RestsOn
<1>2. CASE ~e.whole
  <2>1. Authorities(e) = <<EpochPermit(e.epoch), LeasePermit(e.of)>>
    BY <1>2 DEF Authorities
  <2> QED BY <1>2, <2>1 DEF Range, RestsOn
<1> QED BY <1>1, <1>2

LEMMA RestsOnPermits ==
    ASSUME NEW e, e.of \in Runtimes, e.config \in 1 .. MaxConfigs, e.epoch \in 1 .. MaxEpochs
    PROVE  RestsOn(e) \subseteq Permits
BY PermitsExist DEF RestsOn

-----------------------------------------------------------------------------
(* Locks                                                                   *)

\* A step that leaves the effects and the locks alone and revokes at most one
\* permit, whose lock is free, leaves every running effect its permits.
LEMMA LocksSurvive ==
    ASSUME AuthorityInv, UNCHANGED <<holder, effect>>,
           NEW p \in Permits, holder[p] = Free, valid \ {p} \subseteq valid'
    PROVE  LocksAreHeld'
<1> SUFFICES ASSUME NEW c \in Effects
             PROVE  /\ effect[c].pc \in {"idle", "captured"} => Holding(c) = {}
                    /\ effect[c].pc = "acquire" => Holding(c) = RestsOn(effect[c]) \ effect[c].todo
                    /\ effect[c].pc = "acquire" => effect[c].todo \subseteq RestsOn(effect[c])
                    /\ effect[c].pc = "effect" => Holding(c) = RestsOn(effect[c])
                    /\ effect[c].pc = "effect" => RestsOn(effect[c]) \subseteq valid'
  BY DEF LocksAreHeld, Holding, RestsOn
<1>1. p \notin Holding(c)
  BY AuthorityAssumption DEF Holding
<1> QED BY <1>1 DEF AuthorityInv, LocksAreHeld

\* ... and one that revokes nothing.
LEMMA LocksStay ==
    ASSUME AuthorityInv, UNCHANGED <<holder, effect>>, valid \subseteq valid'
    PROVE  LocksAreHeld'
BY DEF AuthorityInv, LocksAreHeld, Holding, RestsOn

-----------------------------------------------------------------------------
(* Init and the steps of the owners                                        *)

LEMMA InitAuthorityInv == AuthorityInit => AuthorityInv
<1> SUFFICES ASSUME AuthorityInit PROVE AuthorityInv
  OBVIOUS
<1> USE DEF AuthorityInit
<1>1. left \in Budgets /\ BudgetFits
  BY AuthorityAssumption DEF BudgetFits
<1>2. AuthorityTypes
  BY <1>1, PermitsExist, AuthorityAssumption
  DEF AuthorityTypes, RuntimeStates, EffectStates, NoRuntime, NoEffect, RuntimePhases, Runtimes, Returned, ReleaseOrder
<1>3. EffectsAreNamed /\ LocksAreHeld
  BY AuthorityAssumption DEF EffectsAreNamed, LocksAreHeld, NoEffect, Holding
<1>4. PhasesAdvance /\ ReleasesRevoke /\ PublicationFits
  BY DEF PhasesAdvance, ReleasesRevoke, PublicationFits, NoRuntime, Unlocked
<1>5. ValidIsCurrent
  <2>1. 1 \in 1 .. MaxConfigs /\ 1 \in 1 .. MaxEpochs
    BY PermitsExist
  <2> QED BY <2>1, PermitsDistinct DEF ValidIsCurrent
<1> QED BY <1>1, <1>2, <1>3, <1>4, <1>5 DEF AuthorityInv

LEMMA ClaimStep ==
    ASSUME AuthorityInv, NEW i \in Runtimes, Claim(i)
    PROVE  AuthorityInv'
<1> USE DEF Claim, Claimed
<1>1. AuthorityTypes' /\ BudgetFits' /\ EffectsAreNamed' /\ PublicationFits'
  <2>1. runtime' \in [Runtimes -> RuntimeStates]
    BY DEF AuthorityInv, AuthorityTypes, RuntimeStates, RuntimePhases
  <2> QED BY PermitsExist, <2>1 DEF AuthorityInv, AuthorityTypes, BudgetFits, EffectsAreNamed, PublicationFits,
                        Runtimes, Returned, ReleaseOrder
<1>2. LocksAreHeld'
  BY LocksStay
<1>3. PhasesAdvance'
  BY DEF AuthorityInv, AuthorityTypes, RuntimeStates, PhasesAdvance, Unlocked
<1>4. ReleasesRevoke'
  BY PermitsDistinct, PermitsExist DEF AuthorityInv, AuthorityTypes, ReleasesRevoke
<1>5. ValidIsCurrent'
  BY PermitsDistinct, PermitsExist DEF AuthorityInv, AuthorityTypes, RuntimeStates, ValidIsCurrent, Runtimes
<1> QED BY <1>1, <1>2, <1>3, <1>4, <1>5 DEF AuthorityInv

LEMMA ReleaseBegins ==
    ASSUME AuthorityInv, NEW t \in Releasers, NEW i \in Runtimes, Release(t, i)
    PROVE  AuthorityInv'
<1> USE DEF Release
<1>1. AuthorityTypes' /\ BudgetFits' /\ EffectsAreNamed' /\ PublicationFits'
  BY DEF AuthorityInv, AuthorityTypes, BudgetFits, EffectsAreNamed, PublicationFits, Runtimes, Returned, ReleaseOrder
<1>2. LocksAreHeld'
  BY LocksStay
<1>3. PhasesAdvance' /\ ValidIsCurrent'
  BY DEF AuthorityInv, PhasesAdvance, Unlocked, ValidIsCurrent
<1>4. ReleasesRevoke'
  BY DEF AuthorityInv, AuthorityTypes, ReleasesRevoke
<1> QED BY <1>1, <1>2, <1>3, <1>4 DEF AuthorityInv

LEMMA ReleaseRevokesStep ==
    ASSUME AuthorityInv, NEW t \in Releasers, ReleaseRevokes(t)
    PROVE  AuthorityInv'
<1> USE DEF ReleaseRevokes, Revoke, Revocable, Advance
<1>0. /\ release[t].at \in 1 .. 3 /\ release[t].lease \in Runtimes
      /\ LeasePermit(release[t].lease) \in Permits
  BY PermitsExist DEF InRelease, ReleaseOrder, AuthorityInv, ReleasesRevoke
<1>1. AuthorityTypes' /\ BudgetFits' /\ EffectsAreNamed' /\ PublicationFits'
  BY <1>0 DEF AuthorityInv, AuthorityTypes, BudgetFits, EffectsAreNamed, PublicationFits, Returned, ReleaseOrder
<1>2. LocksAreHeld'
  BY <1>0, LocksSurvive
<1>3. PhasesAdvance' /\ ValidIsCurrent'
  BY DEF AuthorityInv, PhasesAdvance, Unlocked, ValidIsCurrent
<1>4. ReleasesRevoke'
  BY <1>0 DEF AuthorityInv, AuthorityTypes, ReleasesRevoke
<1> QED BY <1>1, <1>2, <1>3, <1>4 DEF AuthorityInv

LEMMA SwapUnregisteredStep ==
    ASSUME AuthorityInv, NEW t \in Releasers, SwapUnregistered(t)
    PROVE  AuthorityInv'
<1> USE DEF SwapUnregistered, Advance
<1>0. release[t].at = 2 /\ release[t].lease \in Runtimes
  BY DEF InRelease, ReleaseOrder, AuthorityInv, ReleasesRevoke
<1>1. AuthorityTypes' /\ BudgetFits' /\ EffectsAreNamed' /\ PublicationFits'
  <2>1. runtime' \in [Runtimes -> RuntimeStates]
    BY <1>0, ZenonT(40) DEF AuthorityInv, AuthorityTypes, RuntimeStates
  <2> QED BY <1>0, <2>1 DEF AuthorityInv, AuthorityTypes, BudgetFits, EffectsAreNamed, PublicationFits,
                        Runtimes, Returned, ReleaseOrder
<1>2. LocksAreHeld'
  BY LocksStay
<1>3. PhasesAdvance' /\ ValidIsCurrent'
  BY <1>0 DEF AuthorityInv, AuthorityTypes, RuntimeStates, PhasesAdvance, Unlocked, ValidIsCurrent
<1>4. ReleasesRevoke'
  BY <1>0 DEF AuthorityInv, AuthorityTypes, ReleasesRevoke, Returned, ReleaseOrder
<1> QED BY <1>1, <1>2, <1>3, <1>4 DEF AuthorityInv

\* The registry forgets an owner only after its lease was revoked.
LEMMA RemoveOwnerStep ==
    ASSUME AuthorityInv, NEW t \in Releasers, RemoveOwner(t)
    PROVE  AuthorityInv'
<1> USE DEF RemoveOwner, Advance
<1>0. /\ release[t].at = 3 /\ release[t].lease \in Runtimes
      /\ LeasePermit(release[t].lease) \notin valid
  BY DEF InRelease, ReleaseOrder, AuthorityInv, ReleasesRevoke
<1>1. AuthorityTypes' /\ BudgetFits' /\ EffectsAreNamed' /\ PublicationFits'
  <2>1. owner' \in 0 .. MaxRuntimes
    BY AuthorityAssumption DEF AuthorityInv, AuthorityTypes
  <2> QED BY <1>0, <2>1 DEF AuthorityInv, AuthorityTypes, BudgetFits, EffectsAreNamed, PublicationFits,
                            Returned, ReleaseOrder
<1>2. LocksAreHeld'
  BY LocksStay
<1>3. PhasesAdvance' /\ ValidIsCurrent'
  BY <1>0 DEF AuthorityInv, PhasesAdvance, Unlocked, ValidIsCurrent
<1>4. ReleasesRevoke'
  BY <1>0 DEF AuthorityInv, AuthorityTypes, ReleasesRevoke
<1> QED BY <1>1, <1>2, <1>3, <1>4 DEF AuthorityInv

-----------------------------------------------------------------------------
(* The lifecycle                                                           *)

LEMMA BeginTransitionStep ==
    ASSUME AuthorityInv, NEW i \in Runtimes, NEW next \in RuntimePhases, BeginTransition(i, next)
    PROVE  AuthorityInv'
<1> USE DEF BeginTransition
<1>1. AuthorityTypes' /\ BudgetFits' /\ EffectsAreNamed' /\ PublicationFits'
  <2>1. runtime' \in [Runtimes -> RuntimeStates]
    BY DEF AuthorityInv, AuthorityTypes, RuntimeStates
  <2> QED BY <2>1 DEF AuthorityInv, AuthorityTypes, BudgetFits, EffectsAreNamed, PublicationFits,
                        Runtimes, Returned, ReleaseOrder
<1>2. LocksAreHeld'
  BY LocksStay
<1>3. PhasesAdvance'
  BY DEF AuthorityInv, AuthorityTypes, RuntimeStates, PhasesAdvance, Unlocked, Transitions, Failures
<1>4. ReleasesRevoke' /\ ValidIsCurrent'
  BY DEF AuthorityInv, AuthorityTypes, RuntimeStates, ReleasesRevoke, ValidIsCurrent
<1> QED BY <1>1, <1>2, <1>3, <1>4 DEF AuthorityInv

LEMMA SetPhaseStep ==
    ASSUME AuthorityInv, NEW i \in Runtimes, SetPhase(i)
    PROVE  AuthorityInv'
<1> USE DEF SetPhase, Revoke, Revocable
<1>0. /\ ReadyPermit(i) \in Permits /\ valid' \subseteq valid \cup {ReadyPermit(i)}
      /\ runtime[i].next = "Ready" \/ ReadyPermit(i) \notin valid'
  BY PermitsExist
<1>1. AuthorityTypes' /\ BudgetFits' /\ EffectsAreNamed' /\ PublicationFits'
  <2>1. runtime' \in [Runtimes -> RuntimeStates]
    BY ZenonT(40) DEF AuthorityInv, AuthorityTypes, RuntimeStates
  <2> QED BY <1>0, <2>1 DEF AuthorityInv, AuthorityTypes, BudgetFits, EffectsAreNamed, PublicationFits,
                        Runtimes, Returned, ReleaseOrder
<1>2. LocksAreHeld'
  <2>1. CASE valid \subseteq valid'
    BY <2>1, LocksStay
  <2>2. CASE Revoke(ReadyPermit(i))
    BY <1>0, <2>2, LocksSurvive
  <2> QED BY <2>1, <2>2
<1>3. PhasesAdvance'
  BY DEF AuthorityInv, AuthorityTypes, RuntimeStates, PhasesAdvance, Unlocked
<1>4. ReleasesRevoke'
  BY <1>0, PermitsDistinct, PermitsExist DEF AuthorityInv, AuthorityTypes, ReleasesRevoke, PhasesAdvance
<1>5. ValidIsCurrent'
  BY <1>0, PermitsDistinct, PermitsExist DEF AuthorityInv, AuthorityTypes, RuntimeStates, ValidIsCurrent, PhasesAdvance, Unlocked
<1> QED BY <1>1, <1>2, <1>3, <1>4, <1>5 DEF AuthorityInv

LEMMA DropRuntimeStep ==
    ASSUME AuthorityInv, NEW i \in Runtimes, DropRuntime(i)
    PROVE  AuthorityInv'
<1> USE DEF DropRuntime, Revoke, Revocable
<1>0. ReadyPermit(i) \in Permits /\ valid' \subseteq valid /\ ReadyPermit(i) \notin valid'
  BY PermitsExist
<1>1. AuthorityTypes' /\ BudgetFits' /\ EffectsAreNamed' /\ PublicationFits'
  <2>1. runtime' \in [Runtimes -> RuntimeStates]
    BY ZenonT(40) DEF AuthorityInv, AuthorityTypes, RuntimeStates
  <2> QED BY <1>0, <2>1 DEF AuthorityInv, AuthorityTypes, BudgetFits, EffectsAreNamed, PublicationFits,
                        Runtimes, Returned, ReleaseOrder
<1>2. LocksAreHeld'
  <2>1. CASE UNCHANGED valid
    BY <2>1, LocksStay
  <2>2. CASE Revoke(ReadyPermit(i))
    BY <1>0, <2>2, LocksSurvive
  <2> QED BY <2>1, <2>2
<1>3. PhasesAdvance'
  BY DEF AuthorityInv, AuthorityTypes, RuntimeStates, PhasesAdvance, Unlocked
<1>4. ReleasesRevoke' /\ ValidIsCurrent'
  BY <1>0 DEF AuthorityInv, AuthorityTypes, RuntimeStates, ReleasesRevoke, ValidIsCurrent
<1> QED BY <1>1, <1>2, <1>3, <1>4 DEF AuthorityInv

-----------------------------------------------------------------------------
(* The publishers                                                          *)

LEMMA PublishBeginStep ==
    ASSUME AuthorityInv, PublishBegin
    PROVE  AuthorityInv'
<1> USE DEF PublishBegin
<1>1. AuthorityTypes' /\ BudgetFits' /\ EffectsAreNamed' /\ PublicationFits'
  BY DEF AuthorityInv, AuthorityTypes, BudgetFits, EffectsAreNamed, PublicationFits
<1>2. LocksAreHeld'
  BY LocksStay
<1>3. PhasesAdvance' /\ ReleasesRevoke' /\ ValidIsCurrent'
  BY DEF AuthorityInv, AuthorityTypes, PhasesAdvance, Unlocked, ReleasesRevoke, ValidIsCurrent
<1> QED BY <1>1, <1>2, <1>3 DEF AuthorityInv

LEMMA PublishRevokeStep ==
    ASSUME AuthorityInv, PublishRevoke
    PROVE  AuthorityInv'
<1> USE DEF PublishRevoke, Revoke, Revocable
<1>0. config.current \in 1 .. MaxConfigs /\ ConfigPermit(config.current) \in Permits
  BY PermitsExist DEF AuthorityInv, AuthorityTypes
<1>1. AuthorityTypes' /\ BudgetFits' /\ EffectsAreNamed' /\ PublicationFits'
  BY DEF AuthorityInv, AuthorityTypes, BudgetFits, EffectsAreNamed, PublicationFits
<1>2. LocksAreHeld'
  BY <1>0, LocksSurvive
<1>3. PhasesAdvance' /\ ReleasesRevoke' /\ ValidIsCurrent'
  BY DEF AuthorityInv, AuthorityTypes, PhasesAdvance, Unlocked, ReleasesRevoke, ValidIsCurrent
<1> QED BY <1>1, <1>2, <1>3 DEF AuthorityInv

LEMMA PublishSwapStep ==
    ASSUME AuthorityInv, PublishSwap
    PROVE  AuthorityInv'
<1> USE DEF PublishSwap
<1>0. config.current + 1 \in 1 .. MaxConfigs /\ ConfigPermit(config.current + 1) \in Permits
  <2>1. /\ config.current \in 1 .. MaxConfigs /\ config.current < left.configs
        /\ left.configs \in Nat /\ left.configs <= MaxConfigs
    BY DEF AuthorityInv, AuthorityTypes, PublicationFits, BudgetFits, Budgets
  <2>2. config.current + 1 \in 1 .. MaxConfigs
    BY <2>1, AuthorityAssumption
  <2> QED BY <2>2, PermitsExist
<1>1. AuthorityTypes' /\ BudgetFits' /\ EffectsAreNamed' /\ PublicationFits'
  BY <1>0 DEF AuthorityInv, AuthorityTypes, BudgetFits, EffectsAreNamed, PublicationFits
<1>2. LocksAreHeld'
  BY LocksStay
<1>3. PhasesAdvance'
  BY DEF AuthorityInv, PhasesAdvance, Unlocked
<1>4. ReleasesRevoke' /\ ValidIsCurrent'
  BY <1>0, PermitsDistinct DEF AuthorityInv, AuthorityTypes, ReleasesRevoke, ValidIsCurrent
<1> QED BY <1>1, <1>2, <1>3, <1>4 DEF AuthorityInv

LEMMA RevokeEpochStep ==
    ASSUME AuthorityInv, RevokeEpoch
    PROVE  AuthorityInv'
<1> USE DEF RevokeEpoch, Revoke, Revocable
<1>0. EpochPermit(epoch) \in Permits
  BY PermitsExist DEF AuthorityInv, AuthorityTypes
<1>1. AuthorityTypes' /\ BudgetFits' /\ EffectsAreNamed' /\ PublicationFits'
  BY DEF AuthorityInv, AuthorityTypes, BudgetFits, EffectsAreNamed, PublicationFits
<1>2. LocksAreHeld'
  BY <1>0, LocksSurvive
<1>3. PhasesAdvance' /\ ReleasesRevoke' /\ ValidIsCurrent'
  BY DEF AuthorityInv, PhasesAdvance, Unlocked, ReleasesRevoke, ValidIsCurrent
<1> QED BY <1>1, <1>2, <1>3 DEF AuthorityInv

LEMMA PublishEpochStep ==
    ASSUME AuthorityInv, PublishEpoch
    PROVE  AuthorityInv'
<1> USE DEF PublishEpoch, Revocable
<1>0. /\ epoch \in 1 .. MaxEpochs /\ epoch + 1 \in 1 .. MaxEpochs
      /\ EpochPermit(epoch) \in Permits /\ EpochPermit(epoch + 1) \in Permits
  <2>1. /\ epoch \in 1 .. MaxEpochs /\ epoch < left.epochs
        /\ left.epochs \in Nat /\ left.epochs <= MaxEpochs
    BY DEF AuthorityInv, AuthorityTypes, BudgetFits, Budgets
  <2>2. epoch + 1 \in 1 .. MaxEpochs
    BY <2>1, AuthorityAssumption
  <2> QED BY <2>1, <2>2, PermitsExist
<1>1. AuthorityTypes' /\ BudgetFits' /\ EffectsAreNamed' /\ PublicationFits'
  BY <1>0 DEF AuthorityInv, AuthorityTypes, BudgetFits, EffectsAreNamed, PublicationFits
<1>2. LocksAreHeld'
  BY <1>0, LocksSurvive
<1>3. PhasesAdvance'
  BY DEF AuthorityInv, PhasesAdvance, Unlocked
<1>4. ReleasesRevoke' /\ ValidIsCurrent'
  BY <1>0, PermitsDistinct DEF AuthorityInv, AuthorityTypes, ReleasesRevoke, ValidIsCurrent
<1> QED BY <1>1, <1>2, <1>3, <1>4 DEF AuthorityInv

-----------------------------------------------------------------------------
(* The effects                                                             *)

\* A step of one effect leaves the authorities, their owners and publishers
\* alone; what remains to be shown is about the effects.
LEMMA EffectFrame ==
    ASSUME AuthorityInv, UNCHANGED <<valid, owner, runtime, release, config, epoch>>,
           holder' \in [Permits -> Effects \cup {Free}], effect' \in [Effects -> EffectStates],
           left' \in Budgets, left'.runtimes = left.runtimes, left'.configs = left.configs,
           left'.epochs = left.epochs, EffectsAreNamed', LocksAreHeld'
    PROVE  AuthorityInv'
<1>1. AuthorityTypes' /\ BudgetFits' /\ PublicationFits'
  BY DEF AuthorityInv, AuthorityTypes, BudgetFits, PublicationFits
<1>2. PhasesAdvance' /\ ReleasesRevoke' /\ ValidIsCurrent'
  BY DEF AuthorityInv, PhasesAdvance, Unlocked, ReleasesRevoke, ValidIsCurrent
<1> QED BY <1>1, <1>2 DEF AuthorityInv

LEMMA CaptureStep ==
    ASSUME AuthorityInv, NEW c \in Effects, NEW i \in Runtimes, NEW whole \in BOOLEAN,
           Capture(c, i, whole)
    PROVE  AuthorityInv'
<1> USE DEF Capture
<1>1. effect' \in [Effects -> EffectStates]
  BY AuthorityAssumption DEF AuthorityInv, AuthorityTypes, EffectStates, Runtimes
<1>2. /\ holder' \in [Permits -> Effects \cup {Free}] /\ left' \in Budgets
      /\ left'.runtimes = left.runtimes /\ left'.configs = left.configs
      /\ left'.epochs = left.epochs
  BY DEF AuthorityInv, AuthorityTypes, Budgets
<1>3. EffectsAreNamed'
  BY DEF AuthorityInv, AuthorityTypes, EffectsAreNamed, EffectStates
<1>4. LocksAreHeld'
  BY DEF AuthorityInv, AuthorityTypes, LocksAreHeld, EffectStates, Holding, RestsOn
<1> QED BY <1>1, <1>2, <1>3, <1>4, EffectFrame

LEMMA CheckStep ==
    ASSUME AuthorityInv, NEW c \in Effects, Check(c)
    PROVE  AuthorityInv'
<1> USE DEF Check, Refuse
<1>0. /\ Range(Authorities(effect[c])) = RestsOn(effect[c])
      /\ RestsOn(effect[c]) \subseteq Permits
  BY AuthoritiesAreRestsOn, RestsOnPermits DEF AuthorityInv, EffectsAreNamed
<1> DEFINE Locking == [effect[c] EXCEPT !.pc = "acquire", !.todo = RestsOn(effect[c])]
<1>a. NoEffect \in EffectStates /\ NoEffect.pc = "idle" /\ Locking \in EffectStates
  <2>1. NoEffect \in EffectStates /\ NoEffect.pc = "idle"
    BY AuthorityAssumption DEF EffectStates, NoEffect
  <2>2. effect[c] \in EffectStates
    BY DEF AuthorityInv, AuthorityTypes
  <2>3. Locking \in EffectStates
    <3> HIDE DEF Check
    <3> QED BY <1>0, <2>2 DEF EffectStates
  <2> QED BY <2>1, <2>3
<1>b. /\ Locking.pc = "acquire" /\ Locking.todo = RestsOn(effect[c])
      /\ Locking.of = effect[c].of /\ Locking.config = effect[c].config
      /\ Locking.epoch = effect[c].epoch /\ Locking.whole = effect[c].whole
  BY DEF AuthorityInv, AuthorityTypes, EffectStates
<1>c. PICK q \in {NoEffect, Locking} : effect' = [effect EXCEPT ![c] = q]
  BY <1>0 DEF AuthorityInv, AuthorityTypes
<1> HIDE DEF Locking
<1>1. effect' \in [Effects -> EffectStates]
  BY <1>a, <1>c DEF AuthorityInv, AuthorityTypes
<1>d. effect'[c] = q /\ \A d \in Effects \ {c} : effect'[d] = effect[d]
  BY <1>c DEF AuthorityInv, AuthorityTypes
<1>2. EffectsAreNamed'
  BY <1>a, <1>b, <1>d DEF AuthorityInv, EffectsAreNamed
<1>3. LocksAreHeld'
  <2>1. RestsOn(Locking) = RestsOn(effect[c])
    BY <1>b DEF RestsOn
  <2>2. \A d \in Effects : Holding(d)' = Holding(d)
    BY DEF Holding
  <2>3. Holding(c) = {}
    BY DEF AuthorityInv, LocksAreHeld
  <2> HIDE DEF Check
  <2>4. ASSUME NEW d \in Effects
        PROVE  /\ effect'[d].pc \in {"idle", "captured"} => Holding(d) = {}
               /\ effect'[d].pc = "acquire" => Holding(d) = RestsOn(effect'[d]) \ effect'[d].todo
               /\ effect'[d].pc = "acquire" => effect'[d].todo \subseteq RestsOn(effect'[d])
               /\ effect'[d].pc = "effect" => Holding(d) = RestsOn(effect'[d])
               /\ effect'[d].pc = "effect" => RestsOn(effect'[d]) \subseteq valid
    BY <1>a, <1>b, <1>d, <2>1, <2>3 DEF AuthorityInv, LocksAreHeld
  <2> QED BY <2>2, <2>4 DEF LocksAreHeld, Check, RestsOn
<1> QED BY <1>1, <1>2, <1>3, EffectFrame DEF AuthorityInv, AuthorityTypes

LEMMA LockStep ==
    ASSUME AuthorityInv, NEW c \in Effects, Lock(c)
    PROVE  AuthorityInv'
<1> USE DEF Lock
<1>0. PICK p \in effect[c].todo :
        /\ holder[p] = Free
        /\ holder' = [holder EXCEPT ![p] = c]
        /\ effect' = [effect EXCEPT ![c].todo = @ \ {p}]
  OBVIOUS
<1>p. p \in Permits /\ p \in RestsOn(effect[c])
  BY DEF AuthorityInv, AuthorityTypes, EffectStates, LocksAreHeld
<1>1. effect' \in [Effects -> EffectStates]
  BY <1>0 DEF AuthorityInv, AuthorityTypes, EffectStates
<1>2. holder' \in [Permits -> Effects \cup {Free}]
  BY <1>0 DEF AuthorityInv, AuthorityTypes
<1>3. EffectsAreNamed'
  BY <1>0 DEF AuthorityInv, AuthorityTypes, EffectsAreNamed, EffectStates
<1>4. LocksAreHeld'
  <2>1. /\ Holding(c)' = Holding(c) \cup {p}
        /\ \A d \in Effects \ {c} : Holding(d)' = Holding(d)
    BY <1>0, <1>p, AuthorityAssumption DEF AuthorityInv, AuthorityTypes, Holding
  <2>2. \A d \in Effects : RestsOn(effect'[d]) = RestsOn(effect[d])
    BY <1>0 DEF AuthorityInv, AuthorityTypes, EffectStates, RestsOn
  <2>3. /\ effect'[c].pc = "acquire" /\ effect'[c].todo = effect[c].todo \ {p}
        /\ \A d \in Effects \ {c} : effect'[d] = effect[d]
    BY <1>0 DEF AuthorityInv, AuthorityTypes, EffectStates
  <2>4. ASSUME NEW d \in Effects
        PROVE  /\ effect'[d].pc \in {"idle", "captured"} => Holding(d)' = {}
               /\ effect'[d].pc = "acquire" => Holding(d)' = RestsOn(effect'[d]) \ effect'[d].todo
               /\ effect'[d].pc = "acquire" => effect'[d].todo \subseteq RestsOn(effect'[d])
               /\ effect'[d].pc = "effect" => Holding(d)' = RestsOn(effect'[d])
               /\ effect'[d].pc = "effect" => RestsOn(effect'[d]) \subseteq valid
    <3>1. CASE d = c
      BY <1>p, <2>1, <2>2, <2>3, <3>1 DEF AuthorityInv, LocksAreHeld
    <3>2. CASE d # c
      BY <2>1, <2>2, <2>3, <3>2 DEF AuthorityInv, LocksAreHeld
    <3> QED BY <3>1, <3>2
  <2> QED BY <2>4 DEF LocksAreHeld, RestsOn
<1> QED BY <1>1, <1>2, <1>3, <1>4, EffectFrame DEF AuthorityInv, AuthorityTypes

\* An effect ends, or is refused, and gives back every lock it held.
LEMMA UnlockStep ==
    ASSUME AuthorityInv, NEW c \in Effects, Refuse(c), Unlock(c),
           UNCHANGED <<valid, owner, runtime, release, config, epoch, left>>
    PROVE  AuthorityInv'
<1> USE DEF Refuse, Unlock
<1>1. effect' \in [Effects -> EffectStates]
  BY AuthorityAssumption DEF AuthorityInv, AuthorityTypes, EffectStates, NoEffect
<1>2. holder' \in [Permits -> Effects \cup {Free}]
  BY DEF AuthorityInv, AuthorityTypes
<1>3. EffectsAreNamed'
  BY DEF AuthorityInv, AuthorityTypes, EffectsAreNamed, EffectStates, NoEffect
<1>4. LocksAreHeld'
  <2>1. /\ Holding(c)' = {}
        /\ \A d \in Effects \ {c} : Holding(d)' = Holding(d)
    BY AuthorityAssumption DEF AuthorityInv, AuthorityTypes, Holding
  <2>2. /\ effect'[c].pc = "idle"
        /\ \A d \in Effects \ {c} : effect'[d] = effect[d]
    BY DEF AuthorityInv, AuthorityTypes, NoEffect
  <2> QED BY <2>1, <2>2 DEF AuthorityInv, LocksAreHeld, RestsOn
<1> QED BY <1>1, <1>2, <1>3, <1>4, EffectFrame DEF AuthorityInv, AuthorityTypes

LEMMA DecideStep ==
    ASSUME AuthorityInv, NEW c \in Effects, Decide(c)
    PROVE  AuthorityInv'
<1> USE DEF Decide
<1>1. CASE Holding(c) \subseteq valid
  <2>1. effect' \in [Effects -> EffectStates]
    BY <1>1 DEF AuthorityInv, AuthorityTypes, EffectStates
  <2>2. EffectsAreNamed'
    BY <1>1 DEF AuthorityInv, AuthorityTypes, EffectsAreNamed, EffectStates
  <2>3. LocksAreHeld'
    <3>1. /\ effect'[c].pc = "effect" /\ RestsOn(effect'[c]) = RestsOn(effect[c])
          /\ \A d \in Effects \ {c} : effect'[d] = effect[d]
      BY <1>1 DEF AuthorityInv, AuthorityTypes, EffectStates, RestsOn
    <3>2. \A d \in Effects : Holding(d)' = Holding(d)
      BY <1>1 DEF Holding
    <3>3. Holding(c) = RestsOn(effect[c])
      BY DEF AuthorityInv, LocksAreHeld
    <3>4. ASSUME NEW d \in Effects
          PROVE  /\ effect'[d].pc \in {"idle", "captured"} => Holding(d) = {}
                 /\ effect'[d].pc = "acquire" => Holding(d) = RestsOn(effect'[d]) \ effect'[d].todo
                 /\ effect'[d].pc = "acquire" => effect'[d].todo \subseteq RestsOn(effect'[d])
                 /\ effect'[d].pc = "effect" => Holding(d) = RestsOn(effect'[d])
                 /\ effect'[d].pc = "effect" => RestsOn(effect'[d]) \subseteq valid
      BY <1>1, <3>1, <3>3 DEF AuthorityInv, LocksAreHeld
    <3> QED BY <3>2, <3>4 DEF LocksAreHeld, RestsOn
  <2> QED BY <1>1, <2>1, <2>2, <2>3, EffectFrame DEF AuthorityInv, AuthorityTypes
<1>2. CASE ~(Holding(c) \subseteq valid)
  BY <1>2, UnlockStep
<1> QED BY <1>1, <1>2

LEMMA FinishStep ==
    ASSUME AuthorityInv, NEW c \in Effects, Finish(c)
    PROVE  AuthorityInv'
BY UnlockStep DEF Finish

-----------------------------------------------------------------------------
(* The theorems                                                            *)

LEMMA StutterStep ==
    ASSUME AuthorityInv, UNCHANGED authorityVars
    PROVE  AuthorityInv'
BY DEF authorityVars, AuthorityInv, AuthorityTypes, BudgetFits, EffectsAreNamed, LocksAreHeld, Holding, RestsOn,
       PhasesAdvance, Unlocked, ReleasesRevoke, ValidIsCurrent, PublicationFits

LEMMA NextAuthorityInv == AuthorityInv /\ [AuthorityNext]_authorityVars => AuthorityInv'
<1> SUFFICES ASSUME AuthorityInv, [AuthorityNext]_authorityVars PROVE AuthorityInv'
  OBVIOUS
<1>1. ASSUME NEW i \in Runtimes, Claim(i) \/ SetPhase(i) \/ DropRuntime(i) PROVE AuthorityInv'
  BY <1>1, ClaimStep, SetPhaseStep, DropRuntimeStep
<1>2. ASSUME NEW i \in Runtimes, NEW next \in RuntimePhases, BeginTransition(i, next) PROVE AuthorityInv'
  BY <1>2, BeginTransitionStep
<1>3. ASSUME NEW t \in Releasers, NEW i \in Runtimes, Release(t, i) PROVE AuthorityInv'
  BY <1>3, ReleaseBegins
<1>4. ASSUME NEW t \in Releasers, ReleaseStep(t) PROVE AuthorityInv'
  BY <1>4, ReleaseRevokesStep, SwapUnregisteredStep, RemoveOwnerStep DEF ReleaseStep
<1>5. CASE PublishBegin \/ PublishRevoke \/ PublishSwap \/ RevokeEpoch \/ PublishEpoch
  BY <1>5, PublishBeginStep, PublishRevokeStep, PublishSwapStep, RevokeEpochStep, PublishEpochStep
<1>6. ASSUME NEW c \in Effects, NEW i \in Runtimes, NEW whole \in BOOLEAN, Capture(c, i, whole)
      PROVE  AuthorityInv'
  BY <1>6, CaptureStep
<1>7. ASSUME NEW c \in Effects, EffectStep(c) PROVE AuthorityInv'
  BY <1>7, CheckStep, LockStep, DecideStep, FinishStep DEF EffectStep
<1>8. CASE UNCHANGED authorityVars
  BY <1>8, StutterStep
<1> QED BY <1>1, <1>2, <1>3, <1>4, <1>5, <1>6, <1>7, <1>8 DEF AuthorityNext

LEMMA AuthorityInvariance == AuthoritySpec => []AuthorityInv
BY InitAuthorityInv, NextAuthorityInv, PTL DEF AuthoritySpec

\* For any number of committing threads, releasing threads, runtimes, snapshots
\* and mode epochs: while an effect runs, its lease is registered and no
\* release of it has returned, and the phase, the configuration and the mode it
\* captured are the current ones (commit_all, revoke, set_phase,
\* publish_candidate, ModePublisher::publish).
THEOREM Authorised == AuthoritySpec => []EffectsAreAuthorised
<1>1. AuthorityInv => EffectsAreAuthorised
  <2> SUFFICES ASSUME AuthorityInv, NEW c \in Effects, effect[c].pc = "effect"
               PROVE  /\ ~Released(effect[c].of) /\ owner = effect[c].of
                      /\ effect[c].epoch = epoch
                      /\ effect[c].whole => /\ runtime[effect[c].of].phase = "Ready"
                                            /\ ~runtime[effect[c].of].dropped
                                            /\ effect[c].config = config.current
    BY DEF EffectsAreAuthorised
  <2>1. /\ effect[c].of \in Runtimes
        /\ effect[c].config \in 1 .. MaxConfigs
        /\ effect[c].epoch \in 1 .. MaxEpochs
        /\ RestsOn(effect[c]) \subseteq valid
    BY DEF AuthorityInv, EffectsAreNamed, LocksAreHeld
  <2>2. ~Released(effect[c].of)
    BY <2>1 DEF Released, AuthorityInv, ReleasesRevoke, RestsOn, Returned, ReleaseOrder
  <2> QED BY <2>1, <2>2 DEF AuthorityInv, ValidIsCurrent, RestsOn
<1> QED BY <1>1, AuthorityInvariance, PTL

\* Two runtimes never both hold a valid lease of the process, and once a release
\* has returned, to whichever of several callers, the lease is not valid (claim,
\* LeaseState::release).
THEOREM Ownership == AuthoritySpec => []OwnershipConsistent
<1>1. AuthorityInv => OwnershipConsistent
  <2> SUFFICES ASSUME AuthorityInv PROVE OwnershipConsistent
    OBVIOUS
  <2>1. ReleasedIsOver
    BY DEF ReleasedIsOver, Released, AuthorityInv, ReleasesRevoke, Returned, ReleaseOrder
  <2>2. OneOwner
    BY DEF OneOwner, AuthorityInv, ValidIsCurrent
  <2> QED BY <2>1, <2>2 DEF OwnershipConsistent, AuthorityInv
<1> QED BY <1>1, AuthorityInvariance, PTL

=============================================================================
