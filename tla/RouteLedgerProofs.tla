------------------------- MODULE RouteLedgerProofs -------------------------
(***************************************************************************)
(* Proofs about RouteLedger.  Every operation changes the stage of one     *)
(* session, so the argument is local: if the counters change by what the   *)
(* session's old and new stage charge, they still are the numbers of       *)
(* sessions charged (CountsFollowStage).  What makes an operation do so is *)
(* that a handle it accepts is the very one the ledger holds (Exact).      *)
(***************************************************************************)
EXTENDS RouteLedger, FiniteSetTheorems, SequenceTheorems, TLAPS

Num(b) == IF b THEN 1 ELSE 0

\* What one stage charges to an account.
Reserves(stage, a) == stage.stage = "pending" /\ stage.reservation.account = a
Owns(stage, a) == stage.stage = "active" /\ stage.account = a
Leaves(stage, a) == stage.stage = "active" /\ \E r \in stage.redirect : r.source = a
Arrives(stage, a) == stage.stage = "active" /\ \E r \in stage.redirect : r.target = a

\* The pending redirect of a session is one that was minted for it, from the
\* account that owns it; likewise its reservation.  A sequence names one handle.
Exact ==
    /\ \A s \in SessionIds : IsPending(s) =>
            /\ sessions[s].reservation \in minted.reservations
            /\ sessions[s].reservation.session = s
    /\ \A s \in SessionIds : IsActive(s) => \A r \in sessions[s].redirect :
            /\ r \in minted.redirects
            /\ r.session = s
            /\ r.source = sessions[s].account
    /\ \A s \in SessionIds : s >= next.session => sessions[s] = Absent
    /\ \A a \in accounts : a < next.account
    /\ \A r \in minted.reservations : r.sequence < next.reservation
    /\ \A r \in minted.redirects : r.sequence < next.redirect
    /\ \A p, q \in minted.reservations : p.sequence = q.sequence => p = q
    /\ \A p, q \in minted.redirects : p.sequence = q.sequence => p = q

\* The counters change by what a session's old and new stage charge.
ChargesMove(old, new) ==
    \A a \in AccountIds :
        /\ counts'[a].reserved =
              counts[a].reserved - Num(Reserves(old, a)) + Num(Reserves(new, a))
        /\ counts'[a].active =
              counts[a].active - Num(Owns(old, a)) + Num(Owns(new, a))
        /\ counts'[a].outgoing =
              counts[a].outgoing - Num(Leaves(old, a)) + Num(Leaves(new, a))
        /\ counts'[a].incoming =
              counts[a].incoming - Num(Arrives(old, a)) + Num(Arrives(new, a))

IInv == TypeOK /\ CountsMatchSessions /\ ChargedIsRetained /\ Exact

CountRecords == [reserved : Nat, active : Nat, incoming : Nat, outgoing : Nat]
IntRecords == [reserved : Int, active : Int, incoming : Int, outgoing : Int]

-----------------------------------------------------------------------------
(* Cardinalities                                                           *)

LEMMA SessionSetsFinite ==
    ASSUME NEW S \in SUBSET SessionIds
    PROVE  IsFiniteSet(S) /\ Cardinality(S) \in Nat
<1>1. IsFiniteSet(SessionIds)
  BY BoundsAssumption, FS_Interval DEF SessionIds
<1>2. IsFiniteSet(S)
  BY <1>1, FS_Subset
<1> QED BY <1>2, FS_CardinalityType

\* Two sets of sessions that agree but on s differ in size by s alone.
LEMMA OneSessionMoves ==
    ASSUME NEW S \in SUBSET SessionIds, NEW T \in SUBSET SessionIds,
           NEW s \in SessionIds,
           \A t \in SessionIds : t # s => (t \in S <=> t \in T)
    PROVE  /\ Cardinality(S) \in Nat
           /\ Cardinality(T) \in Nat
           /\ Cardinality(T) = Cardinality(S) - Num(s \in S) + Num(s \in T)
<1> DEFINE R == S \ {s}
<1>1. IsFiniteSet(S) /\ Cardinality(S) \in Nat /\ Cardinality(T) \in Nat
  BY SessionSetsFinite
<1>2. IsFiniteSet(R) /\ Cardinality(R) = IF s \in S THEN Cardinality(S) - 1 ELSE Cardinality(S)
  BY <1>1, FS_RemoveElement
<1>3. s \notin R
  OBVIOUS
<1>4. CASE s \in T
  <2>1. T = R \union {s}
    BY <1>4
  <2>2. Cardinality(R \union {s}) = Cardinality(R) + 1
    <3> HIDE DEF R
    <3> QED BY <1>2, <1>3, FS_AddElement
  <2> HIDE DEF R
  <2> QED BY <1>1, <1>2, <1>4, <2>1, <2>2 DEF Num
<1>5. CASE s \notin T
  <2>1. T = R
    BY <1>5
  <2> HIDE DEF R
  <2> QED BY <1>1, <1>2, <1>5, <2>1 DEF Num
<1> QED BY <1>4, <1>5

-----------------------------------------------------------------------------
(* One session changes its stage                                           *)

\* If the counters change by what the stage of s charges before and after,
\* they keep counting the sessions, and stay natural numbers.
LEMMA CountsFollowStage ==
    ASSUME CountsMatchSessions, sessions \in [SessionIds -> Stages],
           NEW s \in SessionIds, NEW new,
           sessions' = [sessions EXCEPT ![s] = new],
           counts' \in [AccountIds -> IntRecords],
           ChargesMove(sessions[s], new)
    PROVE  /\ CountsMatchSessions'
           /\ counts' \in [AccountIds -> CountRecords]
<1>1. ASSUME NEW a \in AccountIds
      PROVE  /\ counts'[a].reserved = Cardinality(ReservedOn(a)')
             /\ counts'[a].active = Cardinality(OwnedBy(a)')
             /\ counts'[a].outgoing = Cardinality(LeavingFrom(a)')
             /\ counts'[a].incoming = Cardinality(ArrivingAt(a)')
             /\ counts'[a].reserved \in Nat /\ counts'[a].active \in Nat
             /\ counts'[a].outgoing \in Nat /\ counts'[a].incoming \in Nat
  <2>0. sessions'[s] = new /\ \A t \in SessionIds : t # s => sessions'[t] = sessions[t]
    OBVIOUS
  <2>1. /\ Cardinality(ReservedOn(a)') = Cardinality(ReservedOn(a))
                - Num(s \in ReservedOn(a)) + Num(s \in ReservedOn(a)')
        /\ Cardinality(ReservedOn(a)') \in Nat
    <3>1. \A t \in SessionIds : t # s => (t \in ReservedOn(a) <=> t \in ReservedOn(a)')
      BY <2>0 DEF ReservedOn, IsPending
    <3>2. ReservedOn(a) \in SUBSET SessionIds /\ ReservedOn(a)' \in SUBSET SessionIds
      BY DEF ReservedOn
    <3> QED BY <3>1, <3>2, OneSessionMoves
  <2>2. /\ Cardinality(OwnedBy(a)') = Cardinality(OwnedBy(a))
                - Num(s \in OwnedBy(a)) + Num(s \in OwnedBy(a)')
        /\ Cardinality(OwnedBy(a)') \in Nat
    <3>1. \A t \in SessionIds : t # s => (t \in OwnedBy(a) <=> t \in OwnedBy(a)')
      BY <2>0 DEF OwnedBy, IsActive
    <3>2. OwnedBy(a) \in SUBSET SessionIds /\ OwnedBy(a)' \in SUBSET SessionIds
      BY DEF OwnedBy
    <3> QED BY <3>1, <3>2, OneSessionMoves
  <2>3. /\ Cardinality(LeavingFrom(a)') = Cardinality(LeavingFrom(a))
                - Num(s \in LeavingFrom(a)) + Num(s \in LeavingFrom(a)')
        /\ Cardinality(LeavingFrom(a)') \in Nat
    <3>1. \A t \in SessionIds : t # s => (t \in LeavingFrom(a) <=> t \in LeavingFrom(a)')
      BY <2>0 DEF LeavingFrom, IsActive
    <3>2. LeavingFrom(a) \in SUBSET SessionIds /\ LeavingFrom(a)' \in SUBSET SessionIds
      BY DEF LeavingFrom
    <3> QED BY <3>1, <3>2, OneSessionMoves
  <2>4. /\ Cardinality(ArrivingAt(a)') = Cardinality(ArrivingAt(a))
                - Num(s \in ArrivingAt(a)) + Num(s \in ArrivingAt(a)')
        /\ Cardinality(ArrivingAt(a)') \in Nat
    <3>1. \A t \in SessionIds : t # s => (t \in ArrivingAt(a) <=> t \in ArrivingAt(a)')
      BY <2>0 DEF ArrivingAt, IsActive
    <3>2. ArrivingAt(a) \in SUBSET SessionIds /\ ArrivingAt(a)' \in SUBSET SessionIds
      BY DEF ArrivingAt
    <3> QED BY <3>1, <3>2, OneSessionMoves
  <2>5. /\ s \in ReservedOn(a) <=> Reserves(sessions[s], a)
        /\ s \in ReservedOn(a)' <=> Reserves(new, a)
        /\ s \in OwnedBy(a) <=> Owns(sessions[s], a)
        /\ s \in OwnedBy(a)' <=> Owns(new, a)
    BY <2>0 DEF ReservedOn, OwnedBy, Reserves, Owns, IsPending, IsActive
  <2>6. /\ s \in LeavingFrom(a) <=> Leaves(sessions[s], a)
        /\ s \in LeavingFrom(a)' <=> Leaves(new, a)
        /\ s \in ArrivingAt(a) <=> Arrives(sessions[s], a)
        /\ s \in ArrivingAt(a)' <=> Arrives(new, a)
    BY <2>0 DEF LeavingFrom, ArrivingAt, Leaves, Arrives, IsActive
  <2>7. /\ counts[a].reserved = Cardinality(ReservedOn(a))
        /\ counts[a].active = Cardinality(OwnedBy(a))
        /\ counts[a].outgoing = Cardinality(LeavingFrom(a))
        /\ counts[a].incoming = Cardinality(ArrivingAt(a))
    BY DEF CountsMatchSessions
  <2>8. /\ Num(s \in ReservedOn(a)) = Num(Reserves(sessions[s], a))
        /\ Num(s \in ReservedOn(a)') = Num(Reserves(new, a))
        /\ Num(s \in OwnedBy(a)) = Num(Owns(sessions[s], a))
        /\ Num(s \in OwnedBy(a)') = Num(Owns(new, a))
        /\ Num(s \in LeavingFrom(a)) = Num(Leaves(sessions[s], a))
        /\ Num(s \in LeavingFrom(a)') = Num(Leaves(new, a))
        /\ Num(s \in ArrivingAt(a)) = Num(Arrives(sessions[s], a))
        /\ Num(s \in ArrivingAt(a)') = Num(Arrives(new, a))
    BY <2>5, <2>6 DEF Num
  <2> QED BY <2>1, <2>2, <2>3, <2>4, <2>7, <2>8 DEF ChargesMove
<1>2. CountsMatchSessions'
  BY <1>1 DEF CountsMatchSessions
<1>3. counts' \in [AccountIds -> CountRecords]
  BY <1>1 DEF CountRecords, IntRecords
<1> QED BY <1>2, <1>3

-----------------------------------------------------------------------------
(* Types                                                                   *)

LEMMA StageCases ==
    ASSUME NEW x \in Stages
    PROVE  /\ x.stage = "pending" <=> x \in PendingStages
           /\ x.stage = "active" <=> x \in ActiveStages
           /\ x.stage \notin {"pending", "active"} => x \in {Absent, Idle}
BY DEF Stages, PendingStages, ActiveStages, Absent, Idle

LEMMA RestingStages ==
    /\ Absent \in Stages /\ Idle \in Stages
    /\ \A x \in {Absent, Idle}, a \in AccountIds :
          ~Reserves(x, a) /\ ~Owns(x, a) /\ ~Leaves(x, a) /\ ~Arrives(x, a)
BY DEF Stages, Absent, Idle, Reserves, Owns, Leaves, Arrives

LEMMA ActiveType ==
    ASSUME NEW a \in AccountIds, NEW assignment \in Assignments,
           NEW redirect \in Option(Redirects), NEW failed_at \in Option(Times),
           NEW closing \in Option(ForceCloses)
    PROVE  Active(a, assignment, redirect, failed_at, closing) \in ActiveStages
BY DEF Active, ActiveStages

LEMMA WithoutType ==
    ASSUME NEW list \in Seq(SessionIds), NEW s
    PROVE  Without(list, s) \in Seq(SessionIds)
<1>1. CASE \E i \in DOMAIN list : list[i] = s
  <2> DEFINE i == CHOOSE i \in DOMAIN list : list[i] = s
  <2>1. i \in DOMAIN list
    BY <1>1
  <2>2. i \in 1 .. Len(list)
    BY <2>1
  <2> HIDE DEF i
  <2>3. SubSeq(list, 1, i - 1) \in Seq(SessionIds)
    BY <2>2, SubSeqProperties
  <2>4. SubSeq(list, i + 1, Len(list)) \in Seq(SessionIds)
    BY <2>2, SubSeqProperties
  <2>5. SubSeq(list, 1, i - 1) \o SubSeq(list, i + 1, Len(list)) \in Seq(SessionIds)
    BY <2>3, <2>4, ConcatProperties
  <2> QED BY <1>1, <2>5 DEF Without, i
<1>2. CASE ~\E i \in DOMAIN list : list[i] = s
  BY <1>2 DEF Without
<1> QED BY <1>1, <1>2

LEMMA RememberType ==
    ASSUME NEW h \in Histories
    PROVE  /\ \A labels \in MigrationLabels : Remember(h, labels) \in Histories
           /\ \A address \in Addresses : RememberBackend(h, address) \in Histories
BY DEF Histories, Remember, RememberBackend, Retain

LEMMA SettleTerminalType ==
    ASSUME NEW h \in Histories, NEW labels \in MigrationLabels, NEW success \in BOOLEAN
    PROVE  SettleTerminal(h, labels, success) \in Histories
<1> DEFINE key == [labels |-> labels, succeeded |-> success]
<1>1. key \in TerminalKeys
  BY DEF TerminalKeys
<1>2. DurationKey(key) \in DurationKeys
  BY DEF DurationKey, DurationKeys, MigrationLabels
<1>3. Count(h.terminals, key) \in [TerminalKeys -> Nat]
  <2> HIDE DEF key
  <2> QED BY <1>1 DEF Histories, Count
<1>4. Count(h.durations, DurationKey(key)) \in [DurationKeys -> Nat]
  <2>1. h.durations \in [DurationKeys -> Nat]
    BY DEF Histories
  <2> HIDE DEF key
  <2> QED BY <1>2, <2>1 DEF Count
<1>5. SettleTerminal(h, labels, success) =
        [h EXCEPT !.terminals = Count(h.terminals, key),
                  !.durations = Count(h.durations, DurationKey(key))]
  BY DEF SettleTerminal
<1> HIDE DEF key
<1> QED BY <1>3, <1>4, <1>5 DEF Histories

LEMMA ForgetType ==
    ASSUME NEW h \in Histories, NEW address \in Addresses
    PROVE  ForgetBackend(h, address) \in Histories
<1>1. [key \in TerminalKeys |->
          IF address \in {key.labels.from, key.labels.to} THEN 0 ELSE h.terminals[key]]
        \in [TerminalKeys -> Nat]
  BY DEF Histories
<1>2. [key \in DurationKeys |->
          IF address \in {key.from, key.to} THEN 0 ELSE h.durations[key]]
        \in [DurationKeys -> Nat]
  BY DEF Histories
<1> QED BY <1>1, <1>2 DEF Histories, ForgetBackend

LEMMA LabelsType ==
    ASSUME NEW r \in Redirects
    PROVE  Labels(r) \in MigrationLabels
BY DEF Labels, MigrationLabels, Redirects, Assignments

\* Issuing and settling keep the metrics' types.
LEMMA IssueType ==
    ASSUME TypeOK, NEW r \in Redirects, IssueMigration(r)
    PROVE  history' \in Histories /\ pending_migrations' \in [MigrationLabels -> Nat]
<1>1. Labels(r) \in MigrationLabels
  BY LabelsType
<1>2. history' \in Histories
  BY <1>1, RememberType DEF IssueMigration, TypeOK
<1>3. pending_migrations' \in [MigrationLabels -> Nat]
  <2>1. pending_migrations' = pending_migrations \/
        pending_migrations' = [pending_migrations EXCEPT ![Labels(r)] = @ + 1]
    BY DEF IssueMigration
  <2>2. pending_migrations \in [MigrationLabels -> Nat]
    BY DEF TypeOK
  <2> QED BY <1>1, <2>1, <2>2
<1> QED BY <1>2, <1>3

LEMMA SettleType ==
    ASSUME TypeOK, NEW h \in Histories, NEW r \in Redirects, NEW success \in BOOLEAN,
           SettleMigration(h, r, success)
    PROVE  /\ history' \in Histories
           /\ pending_migrations' \in [MigrationLabels -> Nat]
           /\ settled' \in [RedirectIds -> Nat]
<1>1. Labels(r) \in MigrationLabels
  BY LabelsType
<1>2. Remember(h, Labels(r)) \in Histories
  BY <1>1, RememberType
<1>3. history' \in Histories
  BY <1>1, <1>2, SettleTerminalType DEF SettleMigration
<1>4. pending_migrations' \in [MigrationLabels -> Nat]
  <2>1. pending_migrations' =
            [pending_migrations EXCEPT ![Labels(r)] = IF @ = 0 THEN 0 ELSE @ - 1]
    BY DEF SettleMigration
  <2>2. pending_migrations \in [MigrationLabels -> Nat]
    BY DEF TypeOK
  <2> QED BY <1>1, <2>1, <2>2
<1>5. settled' \in [RedirectIds -> Nat]
  BY DEF SettleMigration, TypeOK, Redirects
<1> QED BY <1>3, <1>4, <1>5

-----------------------------------------------------------------------------
(* Sessions and accounts                                                   *)

LEMMA SameCharges ==
    ASSUME CountsMatchSessions, UNCHANGED <<sessions, counts>>
    PROVE  CountsMatchSessions'
<1>1. \A a \in AccountIds : ReservedOn(a)' = ReservedOn(a)
  BY DEF ReservedOn, IsPending
<1>2. \A a \in AccountIds : OwnedBy(a)' = OwnedBy(a)
  BY DEF OwnedBy, IsActive
<1>3. \A a \in AccountIds : LeavingFrom(a)' = LeavingFrom(a)
  BY DEF LeavingFrom, IsActive
<1>4. \A a \in AccountIds : ArrivingAt(a)' = ArrivingAt(a)
  BY DEF ArrivingAt, IsActive
<1> QED BY <1>1, <1>2, <1>3, <1>4 DEF CountsMatchSessions

\* Steps that leave every stage and every counter alone.
LEMMA QuietStep ==
    ASSUME IInv, UNCHANGED <<sessions, counts, accounts, minted, next>>
    PROVE  CountsMatchSessions' /\ ChargedIsRetained' /\ Exact'
<1>1. CountsMatchSessions'
  BY SameCharges DEF IInv
<1>2. ChargedIsRetained'
  BY DEF IInv, ChargedIsRetained, IsPending, IsActive
<1>3. Exact'
  BY DEF IInv, Exact, IsPending, IsActive
<1> QED BY <1>1, <1>2, <1>3

LEMMA EnvironmentInductive ==
    ASSUME IInv,
           \/ Tick
           \/ \E n \in SessionLimits : SetMaxSessions(n)
           \/ \E labels \in MigrationLabels : OtherRouterIssues(labels)
           \/ \E address \in Addresses : RetireBackend(address)
    PROVE  IInv'
<1>1. CASE Tick
  <2>1. TypeOK'
    BY <1>1, BoundsAssumption DEF IInv, TypeOK, Tick, UnchangedMetrics, Times
  <2> QED BY <1>1, <2>1, QuietStep DEF Tick, IInv
<1>2. ASSUME NEW n \in SessionLimits, SetMaxSessions(n) PROVE IInv'
  <2>1. TypeOK'
    BY <1>2 DEF IInv, TypeOK, SetMaxSessions, UnchangedMetrics
  <2> QED BY <1>2, <2>1, QuietStep DEF SetMaxSessions, IInv
<1>3. ASSUME NEW labels \in MigrationLabels, OtherRouterIssues(labels) PROVE IInv'
  <2>1. history' \in Histories
    BY <1>3, RememberType DEF IInv, TypeOK, OtherRouterIssues
  <2>2. TypeOK'
    BY <1>3, <2>1 DEF IInv, TypeOK, OtherRouterIssues
  <2> QED BY <1>3, <2>2, QuietStep DEF OtherRouterIssues, IInv
<1>4. ASSUME NEW address \in Addresses, RetireBackend(address) PROVE IInv'
  <2>1. history' \in Histories
    BY <1>4, ForgetType DEF IInv, TypeOK, RetireBackend
  <2>2. TypeOK'
    BY <1>4, <2>1 DEF IInv, TypeOK, RetireBackend
  <2> QED BY <1>4, <2>2, QuietStep DEF RetireBackend, IInv
<1> QED BY <1>1, <1>2, <1>3, <1>4

\* A session that has charged nothing and charges nothing now.
LEMMA RestingStep ==
    ASSUME IInv, NEW s \in SessionIds, NEW new \in {Absent, Idle},
           sessions[s] \in {Absent, Idle},
           sessions' = [sessions EXCEPT ![s] = new],
           UNCHANGED <<counts, accounts, minted>>,
           next' \in Counters, next'.account = next.account,
           next'.reservation = next.reservation, next'.redirect = next.redirect,
           next'.session >= next.session, s < next'.session
    PROVE  /\ sessions' \in [SessionIds -> Stages]
           /\ CountsMatchSessions' /\ ChargedIsRetained' /\ Exact'
<1>0. sessions \in [SessionIds -> Stages] /\ CountsMatchSessions
  BY DEF IInv, TypeOK
<1>1. sessions' \in [SessionIds -> Stages]
  BY <1>0, RestingStages
<1>2. counts' \in [AccountIds -> IntRecords]
  BY DEF IInv, TypeOK, IntRecords
<1>3. \A a \in AccountIds :
        /\ ~Reserves(sessions[s], a) /\ ~Owns(sessions[s], a)
        /\ ~Leaves(sessions[s], a) /\ ~Arrives(sessions[s], a)
        /\ ~Reserves(new, a) /\ ~Owns(new, a) /\ ~Leaves(new, a) /\ ~Arrives(new, a)
  BY RestingStages
<1>4. \A a \in AccountIds :
        /\ counts[a].reserved \in Int /\ counts[a].active \in Int
        /\ counts[a].outgoing \in Int /\ counts[a].incoming \in Int
  BY DEF IInv, TypeOK
<1>5. CountsMatchSessions'
  <2>1. ChargesMove(sessions[s], new)
    BY <1>3, <1>4 DEF Num, ChargesMove
  <2> QED BY <1>0, <1>2, <2>1, CountsFollowStage
<1>6. ~IsPending(s)' /\ ~IsActive(s)'
  BY <1>0 DEF IsPending, IsActive, Absent, Idle
<1>7. \A t \in SessionIds : t # s => sessions'[t] = sessions[t]
  BY <1>0
<1>8. ChargedIsRetained'
  BY <1>6, <1>7 DEF IInv, ChargedIsRetained, IsPending, IsActive
<1>9. Exact'
  <2>1. \A t \in SessionIds : t >= next'.session => sessions'[t] = Absent
    BY <1>7, BoundsAssumption DEF IInv, TypeOK, Exact, Counters, SessionIds
  <2> QED BY <1>6, <1>7, <2>1 DEF IInv, Exact, IsPending, IsActive
<1> QED BY <1>1, <1>5, <1>8, <1>9

\* Each counter may be bumped while it has not reached its bound.
LEMMA BumpType ==
    ASSUME next \in Counters
    PROVE  /\ next.session <= MaxSession /\ Bump("session") =>
                /\ next' \in Counters /\ next'.session = next.session + 1
                /\ next'.reservation = next.reservation /\ next'.account = next.account
                /\ next'.redirect = next.redirect
           /\ next.reservation <= MaxReservation /\ Bump("reservation") =>
                /\ next' \in Counters /\ next'.reservation = next.reservation + 1
                /\ next'.session = next.session /\ next'.account = next.account
                /\ next'.redirect = next.redirect
           /\ next.account <= MaxAccount /\ Bump("account") =>
                /\ next' \in Counters /\ next'.account = next.account + 1
                /\ next'.session = next.session /\ next'.reservation = next.reservation
                /\ next'.redirect = next.redirect
           /\ next.redirect <= MaxRedirect /\ Bump("redirect") =>
                /\ next' \in Counters /\ next'.redirect = next.redirect + 1
                /\ next'.session = next.session /\ next'.reservation = next.reservation
                /\ next'.account = next.account
           /\ next.close <= MaxClose /\ Bump("close") =>
                /\ next' \in Counters /\ next'.session = next.session
                /\ next'.reservation = next.reservation /\ next'.account = next.account
                /\ next'.redirect = next.redirect
<1> USE BoundsAssumption DEF Counters
<1>1. next.session <= MaxSession /\ Bump("session") =>
        /\ next' \in Counters /\ next'.session = next.session + 1
        /\ next'.reservation = next.reservation /\ next'.account = next.account
        /\ next'.redirect = next.redirect
  BY DEF Bump
<1>2. next.reservation <= MaxReservation /\ Bump("reservation") =>
        /\ next' \in Counters /\ next'.reservation = next.reservation + 1
        /\ next'.session = next.session /\ next'.account = next.account
        /\ next'.redirect = next.redirect
  BY DEF Bump
<1>3. next.account <= MaxAccount /\ Bump("account") =>
        /\ next' \in Counters /\ next'.account = next.account + 1
        /\ next'.session = next.session /\ next'.reservation = next.reservation
        /\ next'.redirect = next.redirect
  BY DEF Bump
<1>4. next.redirect <= MaxRedirect /\ Bump("redirect") =>
        /\ next' \in Counters /\ next'.redirect = next.redirect + 1
        /\ next'.session = next.session /\ next'.reservation = next.reservation
        /\ next'.account = next.account
  BY DEF Bump
<1>5. next.close <= MaxClose /\ Bump("close") =>
        /\ next' \in Counters /\ next'.session = next.session
        /\ next'.reservation = next.reservation /\ next'.account = next.account
        /\ next'.redirect = next.redirect
  BY DEF Bump
<1> QED BY <1>1, <1>2, <1>3, <1>4, <1>5

LEMMA OpenInductive ==
    ASSUME IInv, Open
    PROVE  IInv'
<1>1. /\ next' \in Counters /\ next'.session = next.session + 1
      /\ next'.reservation = next.reservation /\ next'.account = next.account
      /\ next'.redirect = next.redirect
  BY BumpType DEF IInv, TypeOK, Open
<1>2. next.session \in SessionIds
  BY BoundsAssumption DEF IInv, TypeOK, Open, SessionIds, Counters
<1>3. sessions[next.session] = Absent
  BY <1>2 DEF IInv, Exact, SessionIds
<1>4. /\ sessions' \in [SessionIds -> Stages]
      /\ CountsMatchSessions' /\ ChargedIsRetained' /\ Exact'
  <2>1. Idle \in {Absent, Idle} /\ sessions[next.session] \in {Absent, Idle}
    BY <1>3
  <2>2. next'.session >= next.session /\ next.session < next'.session
    BY <1>1, <1>2 DEF SessionIds
  <2>3. sessions' = [sessions EXCEPT ![next.session] = Idle]
    BY DEF Open
  <2> QED BY <1>1, <1>2, <2>1, <2>2, <2>3, RestingStep DEF Open
<1>5. TypeOK'
  BY <1>1, <1>4 DEF IInv, TypeOK, Open, UnchangedMetrics
<1> QED BY <1>4, <1>5 DEF IInv

LEMMA AddAccountInductive ==
    ASSUME IInv, AddAccount
    PROVE  IInv'
<1> DEFINE a == next.account
<1>0. a = next.account
  OBVIOUS
<1> HIDE DEF a
<1>1. /\ next' \in Counters /\ next'.account = next.account + 1
      /\ next'.session = next.session /\ next'.reservation = next.reservation
      /\ next'.redirect = next.redirect
  BY BumpType DEF IInv, TypeOK, AddAccount
<1>2. a \in AccountIds /\ a \notin accounts
  BY <1>0, BoundsAssumption, SMTT(20) DEF IInv, TypeOK, Exact, AddAccount, AccountIds, Counters
<1>3. ReservedOn(a) = {} /\ OwnedBy(a) = {} /\ LeavingFrom(a) = {} /\ ArrivingAt(a) = {}
  BY <1>2 DEF IInv, ChargedIsRetained, ReservedOn, OwnedBy, LeavingFrom, ArrivingAt
<1>4. counts[a] = NoCharge
  <2>1. /\ counts[a].reserved = 0 /\ counts[a].active = 0
        /\ counts[a].outgoing = 0 /\ counts[a].incoming = 0
    BY <1>2, <1>3, FS_EmptySet DEF IInv, CountsMatchSessions
  <2> QED BY <1>2, <2>1 DEF IInv, TypeOK, NoCharge
<1>5. counts' = counts
  BY <1>0, <1>2, <1>4 DEF AddAccount, IInv, TypeOK
<1>6. TypeOK'
  BY <1>0, <1>1, <1>2, <1>5 DEF IInv, TypeOK, AddAccount, UnchangedMetrics
<1>7. CountsMatchSessions'
  BY <1>5, SameCharges DEF AddAccount, IInv
<1>8. ChargedIsRetained'
  <2>1. sessions' = sessions /\ accounts \subseteq accounts'
    BY DEF AddAccount
  <2>2. ChargedIsRetained
    BY DEF IInv
  <2> QED BY <2>1, <2>2 DEF ChargedIsRetained, IsPending, IsActive
<1>9. Exact'
  <2>1. \A b \in accounts' : b < next'.account
    BY <1>0, <1>1, <1>2 DEF AddAccount, IInv, TypeOK, Exact, AccountIds, Counters
  <2> QED BY <1>1, <2>1 DEF AddAccount, IInv, Exact, IsPending, IsActive
<1> QED BY <1>6, <1>7, <1>8, <1>9 DEF IInv

LEMMA PruneInductive ==
    ASSUME IInv, NEW a \in AccountIds, Prune(a)
    PROVE  IInv'
<1>1. ReservedOn(a) = {} /\ OwnedBy(a) = {} /\ LeavingFrom(a) = {} /\ ArrivingAt(a) = {}
  <2>1. /\ Cardinality(ReservedOn(a)) = 0 /\ Cardinality(OwnedBy(a)) = 0
        /\ Cardinality(LeavingFrom(a)) = 0 /\ Cardinality(ArrivingAt(a)) = 0
    BY DEF Prune, NoCharge, IInv, CountsMatchSessions
  <2>2. /\ ReservedOn(a) \in SUBSET SessionIds /\ OwnedBy(a) \in SUBSET SessionIds
        /\ LeavingFrom(a) \in SUBSET SessionIds /\ ArrivingAt(a) \in SUBSET SessionIds
    BY DEF ReservedOn, OwnedBy, LeavingFrom, ArrivingAt
  <2> QED BY <2>1, <2>2, SessionSetsFinite, FS_EmptySet
<1>2. TypeOK'
  BY DEF IInv, TypeOK, Prune, UnchangedMetrics
<1>3. CountsMatchSessions'
  BY SameCharges DEF Prune, IInv
<1>4. ChargedIsRetained'
  <2>1. sessions' = sessions /\ accounts' = accounts \ {a}
    BY DEF Prune
  <2>2. ChargedIsRetained
    BY DEF IInv
  <2>3. ASSUME NEW s \in SessionIds, IsPending(s)
        PROVE  sessions[s].reservation.account \in accounts'
    BY <1>1, <2>1, <2>2, <2>3 DEF ChargedIsRetained, ReservedOn
  <2>4. ASSUME NEW s \in SessionIds, IsActive(s)
        PROVE  sessions[s].account \in accounts'
    BY <1>1, <2>1, <2>2, <2>4 DEF ChargedIsRetained, OwnedBy
  <2>5. ASSUME NEW s \in SessionIds, IsActive(s), NEW r \in sessions[s].redirect
        PROVE  r.source \in accounts' /\ r.target \in accounts'
    BY <1>1, <2>1, <2>2, <2>5 DEF ChargedIsRetained, LeavingFrom, ArrivingAt
  <2> QED BY <2>1, <2>3, <2>4, <2>5 DEF ChargedIsRetained, IsPending, IsActive
<1>5. Exact'
  BY DEF Prune, IInv, Exact, IsPending, IsActive
<1> QED BY <1>2, <1>3, <1>4, <1>5 DEF IInv

-----------------------------------------------------------------------------
(* Reserving and settling an attempt                                       *)

\* What the two charging stages charge.
LEMMA PendingCharges ==
    ASSUME NEW r \in Reservations, NEW a \in AccountIds
    PROVE  /\ Reserves(Pending(r), a) <=> r.account = a
           /\ ~Owns(Pending(r), a) /\ ~Leaves(Pending(r), a) /\ ~Arrives(Pending(r), a)
BY DEF Pending, Reserves, Owns, Leaves, Arrives

LEMMA ActiveCharges ==
    ASSUME NEW x \in ActiveStages, NEW a \in AccountIds
    PROVE  /\ ~Reserves(x, a)
           /\ Owns(x, a) <=> x.account = a
           /\ x.redirect = {} => ~Leaves(x, a) /\ ~Arrives(x, a)
           /\ \A r : x.redirect = {r} =>
                /\ Leaves(x, a) <=> r.source = a
                /\ Arrives(x, a) <=> r.target = a
BY DEF ActiveStages, Reserves, Owns, Leaves, Arrives

\* The counters d are c with n more of one kind on an account.
Charged(c, d, a, kind, n) ==
    \A b \in AccountIds :
        /\ d[b].reserved = c[b].reserved + IF a = b /\ kind = "reserved" THEN n ELSE 0
        /\ d[b].active = c[b].active + IF a = b /\ kind = "active" THEN n ELSE 0
        /\ d[b].outgoing = c[b].outgoing + IF a = b /\ kind = "outgoing" THEN n ELSE 0
        /\ d[b].incoming = c[b].incoming + IF a = b /\ kind = "incoming" THEN n ELSE 0

LEMMA ChargeFields ==
    ASSUME NEW c \in [AccountIds -> IntRecords], NEW a \in AccountIds, NEW n \in Int,
           NEW kind \in {"reserved", "active", "outgoing", "incoming"}
    PROVE  /\ Charge(c, a, kind, n) \in [AccountIds -> IntRecords]
           /\ Charged(c, Charge(c, a, kind, n), a, kind, n)
<1> USE DEF Charge, Charged, IntRecords
<1>1. CASE kind = "reserved"
  BY <1>1
<1>2. CASE kind = "active"
  BY <1>2
<1>3. CASE kind = "outgoing"
  BY <1>3
<1>4. CASE kind = "incoming"
  BY <1>4
<1> QED BY <1>1, <1>2, <1>3, <1>4

\* The handles minted so far are kept, and sequences still name one each.
HandlesGrow ==
    /\ next' \in Counters /\ next'.session = next.session /\ next'.account = next.account
    /\ \A r \in minted.reservations : r \in minted'.reservations
    /\ \A r \in minted.redirects : r \in minted'.redirects
    /\ \A r \in minted'.reservations : r.sequence < next'.reservation
    /\ \A r \in minted'.redirects : r.sequence < next'.redirect
    /\ \A p, q \in minted'.reservations : p.sequence = q.sequence => p = q
    /\ \A p, q \in minted'.redirects : p.sequence = q.sequence => p = q

\* A stage that satisfies Exact and ChargedIsRetained for session s.
Fits(s, new) ==
    /\ new.stage = "pending" =>
            /\ new.reservation \in minted'.reservations
            /\ new.reservation.session = s
            /\ new.reservation.account \in accounts
    /\ new.stage = "active" =>
            /\ new.account \in accounts
            /\ \A r \in new.redirect :
                    /\ r \in minted'.redirects /\ r.session = s
                    /\ r.source = new.account /\ r.target \in accounts

LEMMA SameHandles ==
    ASSUME IInv, next' = next,
           minted'.reservations = minted.reservations, minted'.redirects = minted.redirects
    PROVE  HandlesGrow
BY DEF IInv, TypeOK, Exact, HandlesGrow

\* One session changes its stage, everything else following.
LEMMA StageStep ==
    ASSUME IInv, NEW s \in SessionIds, NEW new \in Stages,
           sessions' = [sessions EXCEPT ![s] = new],
           sessions[s] # Absent, accounts' = accounts,
           counts' \in [AccountIds -> IntRecords],
           ChargesMove(sessions[s], new), HandlesGrow, Fits(s, new)
    PROVE  /\ CountsMatchSessions' /\ counts' \in [AccountIds -> CountRecords]
           /\ ChargedIsRetained' /\ Exact' /\ sessions' \in [SessionIds -> Stages]
<1>0. sessions \in [SessionIds -> Stages] /\ CountsMatchSessions
  BY DEF IInv, TypeOK
<1>1. sessions' \in [SessionIds -> Stages]
  BY <1>0
<1>2. sessions'[s] = new /\ \A t \in SessionIds : t # s => sessions'[t] = sessions[t]
  BY <1>0
<1>3. ChargedIsRetained'
  BY <1>2 DEF IInv, ChargedIsRetained, IsPending, IsActive, Fits
<1>4. \A t \in SessionIds : IsPending(t)' =>
            /\ sessions'[t].reservation \in minted'.reservations
            /\ sessions'[t].reservation.session = t
  BY <1>2 DEF IInv, Exact, IsPending, Fits, HandlesGrow
<1>5. \A t \in SessionIds : IsActive(t)' => \A r \in sessions'[t].redirect :
            /\ r \in minted'.redirects
            /\ r.session = t
            /\ r.source = sessions'[t].account
  BY <1>2 DEF IInv, Exact, IsActive, Fits, HandlesGrow
<1>6. \A t \in SessionIds : t >= next'.session => sessions'[t] = Absent
  BY <1>2 DEF IInv, Exact, HandlesGrow
<1>7. \A a \in accounts' : a < next'.account
  BY DEF IInv, Exact, HandlesGrow
<1>8. Exact'
  BY <1>4, <1>5, <1>6, <1>7 DEF Exact, HandlesGrow
<1>9. CountsMatchSessions' /\ counts' \in [AccountIds -> CountRecords]
  BY <1>0, CountsFollowStage
<1> QED BY <1>1, <1>3, <1>8, <1>9

LEMMA IntCounts ==
    ASSUME IInv
    PROVE  /\ counts \in [AccountIds -> IntRecords]
           /\ \A a \in AccountIds :
                /\ counts[a].reserved \in Int /\ counts[a].active \in Int
                /\ counts[a].outgoing \in Int /\ counts[a].incoming \in Int
BY DEF IInv, TypeOK, IntRecords

LEMMA IdleIsNot == Idle # Absent /\ Idle.stage = "idle" /\ Absent.stage = "absent"
BY DEF Idle, Absent

LEMMA ReserveInductive ==
    ASSUME IInv, NEW s \in SessionIds, NEW a \in AccountIds, NEW asg \in Assignments,
           Reserve(s, a, asg)
    PROVE  IInv'
<1> DEFINE r == [session |-> s, sequence |-> next.reservation,
                 account |-> a, assignment |-> asg]
           new == Pending(r)
<1>1. /\ next' \in Counters /\ next'.reservation = next.reservation + 1
      /\ next'.session = next.session /\ next'.account = next.account
      /\ next'.redirect = next.redirect
  BY BumpType DEF IInv, TypeOK, Reserve
<1>2. r \in Reservations
  BY BoundsAssumption DEF IInv, TypeOK, Reserve, Reservations, ReservationIds, Counters
<1>3. /\ r.session = s /\ r.sequence = next.reservation /\ r.account = a
      /\ new.stage = "pending" /\ new.reservation = r /\ new \in Stages
  BY <1>2 DEF Pending, Stages, PendingStages
<1>4. /\ sessions[s] = Idle /\ a \in accounts
      /\ counts' = Charge(counts, a, "reserved", 1)
      /\ sessions' = [sessions EXCEPT ![s] = new]
      /\ minted' = [minted EXCEPT !.reservations = @ \union {r}]
      /\ accounts' = accounts
  BY DEF Reserve, CanCharge, Mint
<1>5. \A b \in AccountIds :
        /\ Reserves(new, b) <=> a = b
        /\ ~Owns(new, b) /\ ~Leaves(new, b) /\ ~Arrives(new, b)
        /\ ~Reserves(sessions[s], b) /\ ~Owns(sessions[s], b)
        /\ ~Leaves(sessions[s], b) /\ ~Arrives(sessions[s], b)
  BY <1>2, <1>3, <1>4, PendingCharges, RestingStages
<1> HIDE DEF r, new
<1>6. counts' \in [AccountIds -> IntRecords] /\ ChargesMove(sessions[s], new)
  <2>1. /\ counts' \in [AccountIds -> IntRecords]
        /\ Charged(counts, counts', a, "reserved", 1)
    BY <1>4, IntCounts, ChargeFields
  <2> QED BY <1>5, <2>1, IntCounts DEF Num, ChargesMove, Charged
<1>7. minted'.reservations = minted.reservations \union {r}
      /\ minted'.redirects = minted.redirects
  BY <1>4 DEF IInv, TypeOK
<1>8. HandlesGrow
  <2>0. /\ next.reservation \in Int
        /\ \A q \in minted.reservations : q.sequence \in Int /\ q.sequence < next.reservation
        /\ \A p, q \in minted.reservations : p.sequence = q.sequence => p = q
    BY DEF IInv, Exact, TypeOK, Counters, Reservations, ReservationIds
  <2>1. \A q \in minted'.reservations : q.sequence < next'.reservation
    BY <1>1, <1>3, <1>7, <2>0
  <2>2. \A p, q \in minted'.reservations : p.sequence = q.sequence => p = q
    BY <1>3, <1>7, <2>0
  <2> QED BY <1>1, <1>7, <2>1, <2>2 DEF HandlesGrow, IInv, Exact
<1>9. Fits(s, new)
  BY <1>3, <1>4, <1>7 DEF Fits
<1>10. /\ CountsMatchSessions' /\ counts' \in [AccountIds -> CountRecords]
       /\ ChargedIsRetained' /\ Exact' /\ sessions' \in [SessionIds -> Stages]
  BY <1>3, <1>4, <1>6, <1>8, <1>9, IdleIsNot, StageStep
<1>11. TypeOK'
  <2>1. minted' \in [reservations : SUBSET Reservations, redirects : SUBSET Redirects,
                     closes : SUBSET ForceCloses]
    BY <1>2, <1>4 DEF IInv, TypeOK
  <2> QED BY <1>1, <1>10, <2>1
          DEF IInv, TypeOK, Reserve, UnchangedMetrics, CountRecords
<1> QED BY <1>10, <1>11 DEF IInv

LEMMA FinishInductive ==
    ASSUME IInv, NEW r \in minted.reservations, NEW connected \in BOOLEAN,
           Finish(r, connected)
    PROVE  IInv'
<1> DEFINE s == r.session
           a == r.account
<1>1. r \in Reservations /\ s \in SessionIds /\ a \in AccountIds
      /\ r.assignment \in Assignments
  BY DEF IInv, TypeOK, Reservations
<1>2. IsPending(s) /\ sessions[s].reservation = r /\ a \in accounts
  BY <1>1 DEF Finish, SettlesAttempt, IInv, Exact
<1>3. next'= next /\ minted' = minted /\ accounts' = accounts
  BY DEF Finish
<1>4. sessions[s] # Absent /\ ~IsActive(s)
  BY <1>2 DEF IsPending, IsActive, Absent
<1>5. \A b \in AccountIds :
        /\ Reserves(sessions[s], b) <=> a = b
        /\ ~Owns(sessions[s], b) /\ ~Leaves(sessions[s], b) /\ ~Arrives(sessions[s], b)
  BY <1>2, <1>4 DEF Reserves, Owns, Leaves, Arrives, IsPending, IsActive
<1>6. HandlesGrow
  BY <1>3, SameHandles
<1>7. CASE connected
  <2> DEFINE new == Active(a, r.assignment, {}, {}, {})
  <2>1. /\ counts' = Charge(Charge(counts, a, "reserved", -1), a, "active", 1)
        /\ physical' = [physical EXCEPT ![a] = @ \o <<s>>]
        /\ history' = RememberBackend(history, r.assignment.address)
        /\ sessions' = [sessions EXCEPT ![s] = new]
    BY <1>7 DEF Finish
  <2>2. new \in ActiveStages /\ new.account = a /\ new.redirect = {} /\ new.stage = "active"
    BY <1>1, ActiveType DEF Active, Option
  <2> HIDE DEF s, a, new
  <2>3. \A b \in AccountIds :
            /\ ~Reserves(new, b) /\ (Owns(new, b) <=> a = b)
            /\ ~Leaves(new, b) /\ ~Arrives(new, b)
    BY <2>2, ActiveCharges
  <2>4. counts' \in [AccountIds -> IntRecords] /\ ChargesMove(sessions[s], new)
    <3> DEFINE c == Charge(counts, a, "reserved", -1)
    <3>1. c \in [AccountIds -> IntRecords] /\ Charged(counts, c, a, "reserved", -1)
      BY <1>1, IntCounts, ChargeFields
    <3>2. counts' = Charge(c, a, "active", 1)
      BY <2>1
    <3> HIDE DEF c
    <3>3. counts' \in [AccountIds -> IntRecords] /\ Charged(c, counts', a, "active", 1)
      BY <1>1, <3>1, <3>2, ChargeFields
    <3> QED BY <1>5, <2>3, <3>1, <3>3, IntCounts DEF Num, ChargesMove, Charged
  <2>5. Fits(s, new) /\ new \in Stages
    BY <1>2, <2>2 DEF Fits, Stages
  <2>6. /\ CountsMatchSessions' /\ counts' \in [AccountIds -> CountRecords]
        /\ ChargedIsRetained' /\ Exact' /\ sessions' \in [SessionIds -> Stages]
    BY <1>1, <1>3, <1>4, <1>6, <2>1, <2>4, <2>5, StageStep
  <2>7. physical' \in [AccountIds -> Seq(SessionIds)]
    BY <1>1, <2>1 DEF IInv, TypeOK
  <2>8. history' \in Histories
    BY <1>1, <2>1, RememberType DEF IInv, TypeOK, Assignments
  <2>9. TypeOK'
    BY <1>3, <2>6, <2>7, <2>8 DEF IInv, TypeOK, Finish, CountRecords
  <2> QED BY <2>6, <2>9 DEF IInv
<1>8. CASE ~connected
  <2>1. /\ counts' = Charge(counts, a, "reserved", -1)
        /\ sessions' = [sessions EXCEPT ![s] = Idle]
        /\ UNCHANGED <<physical, history>>
    BY <1>8 DEF Finish
  <2> HIDE DEF s, a
  <2>2. counts' \in [AccountIds -> IntRecords] /\ ChargesMove(sessions[s], Idle)
    <3>1. /\ counts' \in [AccountIds -> IntRecords]
          /\ Charged(counts, counts', a, "reserved", -1)
      BY <1>1, <2>1, IntCounts, ChargeFields
    <3> QED BY <1>5, <3>1, RestingStages, IntCounts DEF Num, ChargesMove, Charged
  <2>3. Fits(s, Idle) /\ Idle \in Stages
    BY RestingStages, IdleIsNot DEF Fits
  <2>4. /\ CountsMatchSessions' /\ counts' \in [AccountIds -> CountRecords]
        /\ ChargedIsRetained' /\ Exact' /\ sessions' \in [SessionIds -> Stages]
    BY <1>1, <1>3, <1>4, <1>6, <2>1, <2>2, <2>3, StageStep
  <2>5. TypeOK'
    BY <1>3, <2>1, <2>4 DEF IInv, TypeOK, Finish, CountRecords
  <2> QED BY <2>4, <2>5 DEF IInv
<1> QED BY <1>7, <1>8

LEMMA RehydrateInductive ==
    ASSUME IInv, NEW s \in SessionIds, NEW a \in AccountIds, NEW asg \in Assignments,
           Rehydrate(s, a, asg)
    PROVE  IInv'
<1> DEFINE new == Active(a, asg, {}, {}, {})
<1>1. /\ next' \in Counters /\ next'.reservation = next.reservation + 1
      /\ next'.session = next.session /\ next'.account = next.account
      /\ next'.redirect = next.redirect
  BY BumpType DEF IInv, TypeOK, Rehydrate
<1>2. /\ sessions[s] = Idle /\ a \in accounts /\ accounts' = accounts /\ minted' = minted
      /\ counts' = Charge(counts, a, "active", 1)
      /\ sessions' = [sessions EXCEPT ![s] = new]
  BY DEF Rehydrate, CanCharge
<1>3. new \in ActiveStages /\ new.account = a /\ new.redirect = {} /\ new.stage = "active"
  BY ActiveType DEF Active, Option
<1> HIDE DEF new
<1>4. \A b \in AccountIds :
        /\ ~Reserves(new, b) /\ (Owns(new, b) <=> a = b)
        /\ ~Leaves(new, b) /\ ~Arrives(new, b)
        /\ ~Reserves(sessions[s], b) /\ ~Owns(sessions[s], b)
        /\ ~Leaves(sessions[s], b) /\ ~Arrives(sessions[s], b)
  BY <1>2, <1>3, ActiveCharges, RestingStages
<1>5. counts' \in [AccountIds -> IntRecords] /\ ChargesMove(sessions[s], new)
  <2>1. /\ counts' \in [AccountIds -> IntRecords]
        /\ Charged(counts, counts', a, "active", 1)
    BY <1>2, IntCounts, ChargeFields
  <2> QED BY <1>4, <2>1, IntCounts DEF Num, ChargesMove, Charged
<1>6. HandlesGrow
  <2>1. /\ next.reservation \in Int
        /\ \A q \in minted.reservations : q.sequence \in Int /\ q.sequence < next.reservation
    BY DEF IInv, Exact, TypeOK, Counters, Reservations, ReservationIds
  <2>2. \A q \in minted'.reservations : q.sequence < next'.reservation
    BY <1>1, <1>2, <2>1
  <2> QED BY <1>1, <1>2, <2>2 DEF HandlesGrow, IInv, Exact
<1>7. Fits(s, new) /\ new \in Stages
  BY <1>2, <1>3 DEF Fits, Stages
<1>8. /\ CountsMatchSessions' /\ counts' \in [AccountIds -> CountRecords]
      /\ ChargedIsRetained' /\ Exact' /\ sessions' \in [SessionIds -> Stages]
  BY <1>2, <1>5, <1>6, <1>7, IdleIsNot, StageStep
<1>9. history' \in Histories /\ physical' \in [AccountIds -> Seq(SessionIds)]
  BY RememberType DEF IInv, TypeOK, Rehydrate, Assignments
<1>10. TypeOK'
  BY <1>1, <1>8, <1>9 DEF IInv, TypeOK, Rehydrate, CountRecords
<1> QED BY <1>8, <1>10 DEF IInv

-----------------------------------------------------------------------------
(* Migrating a session                                                     *)

\* An active session's stage, one field replaced.
LEMMA ActiveEdit ==
    ASSUME NEW x \in ActiveStages
    PROVE  /\ \A r \in Option(Redirects) :
                LET y == [x EXCEPT !.redirect = r]
                IN  y \in ActiveStages /\ y.account = x.account /\ y.redirect = r
           /\ \A f \in Option(Times) :
                LET y == [x EXCEPT !.failed_at = f]
                IN  y \in ActiveStages /\ y.account = x.account /\ y.redirect = x.redirect
           /\ \A c \in Option(ForceCloses) :
                LET y == [x EXCEPT !.closing = c]
                IN  y \in ActiveStages /\ y.account = x.account /\ y.redirect = x.redirect
           /\ \A r \in Option(Redirects), f \in Option(Times) :
                LET y == [x EXCEPT !.redirect = r, !.failed_at = f]
                IN  y \in ActiveStages /\ y.account = x.account /\ y.redirect = r
BY DEF ActiveStages

\* What is known of an active session.
LEMMA ActiveFacts ==
    ASSUME IInv, NEW s \in SessionIds, IsActive(s)
    PROVE  /\ sessions[s] \in ActiveStages /\ sessions[s] # Absent
           /\ sessions[s].stage = "active"
           /\ sessions[s].account \in AccountIds /\ sessions[s].account \in accounts
           /\ sessions[s].assignment \in Assignments
           /\ sessions[s].redirect \in Option(Redirects)
           /\ sessions[s].closing \in Option(ForceCloses)
           /\ \A r \in sessions[s].redirect :
                /\ r \in Redirects /\ r \in minted.redirects /\ r.session = s
                /\ r.source = sessions[s].account
                /\ r.target \in accounts /\ r.target \in AccountIds
                /\ sessions[s].redirect = {r}
<1>1. sessions[s] \in ActiveStages /\ sessions[s] # Absent /\ sessions[s].stage = "active"
  BY StageCases DEF IInv, TypeOK, IsActive, Absent
<1>2. /\ sessions[s].account \in AccountIds /\ sessions[s].account \in accounts
      /\ sessions[s].assignment \in Assignments
      /\ sessions[s].redirect \in Option(Redirects)
      /\ sessions[s].closing \in Option(ForceCloses)
  BY <1>1 DEF ActiveStages, IInv, ChargedIsRetained
<1>3. ASSUME NEW r \in sessions[s].redirect
      PROVE  /\ r \in Redirects /\ r \in minted.redirects /\ r.session = s
             /\ r.source = sessions[s].account
             /\ r.target \in accounts /\ r.target \in AccountIds
             /\ sessions[s].redirect = {r}
  <2>1. r \in Redirects /\ sessions[s].redirect = {r}
    BY <1>2, <1>3 DEF Option
  <2>2. /\ r \in minted.redirects /\ r.session = s /\ r.source = sessions[s].account
        /\ r.target \in accounts
    BY DEF IInv, Exact, ChargedIsRetained
  <2> QED BY <2>1, <2>2 DEF Redirects
<1> QED BY <1>1, <1>2, <1>3

\* A session's stage changes in a field that charges nothing.
LEMMA FieldStep ==
    ASSUME IInv, NEW s \in SessionIds, IsActive(s), NEW new \in ActiveStages,
           new.account = sessions[s].account, new.redirect = sessions[s].redirect,
           sessions' = [sessions EXCEPT ![s] = new],
           UNCHANGED <<accounts, counts>>,
           HandlesGrow, minted'.redirects = minted.redirects
    PROVE  /\ CountsMatchSessions' /\ counts' \in [AccountIds -> CountRecords]
           /\ ChargedIsRetained' /\ Exact' /\ sessions' \in [SessionIds -> Stages]
<1>1. ChargesMove(sessions[s], new)
  <2>1. sessions[s].stage = "active" /\ new.stage = "active"
    BY ActiveFacts DEF ActiveStages
  <2>2. \A a \in AccountIds :
            /\ Reserves(new, a) <=> Reserves(sessions[s], a)
            /\ Owns(new, a) <=> Owns(sessions[s], a)
            /\ Leaves(new, a) <=> Leaves(sessions[s], a)
            /\ Arrives(new, a) <=> Arrives(sessions[s], a)
    BY <2>1 DEF Reserves, Owns, Leaves, Arrives
  <2> QED BY <2>2, IntCounts DEF Num, ChargesMove
<1>2. Fits(s, new) /\ new \in Stages
  <2>1. new.stage = "active"
    BY DEF ActiveStages
  <2> QED BY <2>1, ActiveFacts DEF Fits, Stages
<1> QED BY <1>1, <1>2, IntCounts, ActiveFacts, StageStep

LEMMA CooldownInductive ==
    ASSUME IInv, NEW s \in SessionIds, IsActive(s), StartCooldown(s)
    PROVE  IInv'
<1> DEFINE new == [sessions[s] EXCEPT !.failed_at = {now}]
<1>1. sessions[s] \in ActiveStages
  BY ActiveFacts
<1>2. {now} \in Option(Times)
  BY DEF IInv, TypeOK, Option
<1>3. new \in ActiveStages /\ new.account = sessions[s].account
      /\ new.redirect = sessions[s].redirect
  BY <1>1, <1>2, ActiveEdit
<1>4. sessions' = [sessions EXCEPT ![s] = new]
  BY DEF StartCooldown
<1> HIDE DEF new
<1>5. HandlesGrow /\ minted'.redirects = minted.redirects
  BY SameHandles DEF StartCooldown
<1>6. /\ CountsMatchSessions' /\ counts' \in [AccountIds -> CountRecords]
      /\ ChargedIsRetained' /\ Exact' /\ sessions' \in [SessionIds -> Stages]
  BY <1>3, <1>4, <1>5, FieldStep DEF StartCooldown
<1>7. TypeOK'
  BY <1>6 DEF IInv, TypeOK, StartCooldown, UnchangedMetrics, CountRecords
<1> QED BY <1>6, <1>7 DEF IInv

LEMMA AdmitInductive ==
    ASSUME IInv, NEW s \in SessionIds, NEW t \in AccountIds, NEW asg \in Assignments,
           NEW reason \in Reasons,
           Redirectable(s), ScoreCanMove(sessions[s].account, t),
           AdmitRedirect(PreparedRedirect(s, t, asg, reason))
    PROVE  IInv'
<1> DEFINE r == PreparedRedirect(s, t, asg, reason)
           new == [sessions[s] EXCEPT !.redirect = {r}]
           a == sessions[s].account
<1>0. IsActive(s) /\ sessions[s].redirect = {}
  BY DEF Redirectable
<1>1. /\ sessions[s] \in ActiveStages /\ sessions[s] # Absent
      /\ a \in AccountIds /\ a \in accounts /\ t \in accounts
      /\ sessions[s].assignment \in Assignments
  BY <1>0, ActiveFacts DEF ScoreCanMove, CanCharge
<1>2. /\ next' \in Counters /\ next'.redirect = next.redirect + 1
      /\ next'.session = next.session /\ next'.account = next.account
      /\ next'.reservation = next.reservation
  BY BumpType DEF IInv, TypeOK, AdmitRedirect, ScoreCanMove
<1>3. /\ r \in Redirects /\ r.session = s /\ r.sequence = next.redirect
      /\ r.source = a /\ r.target = t
  BY <1>1, BoundsAssumption
     DEF PreparedRedirect, Redirects, RedirectIds, ScoreCanMove, IInv, TypeOK, Counters
<1>4. new \in ActiveStages /\ new.account = a /\ new.redirect = {r}
  <2>1. {r} \in Option(Redirects)
    BY <1>3 DEF Option
  <2> HIDE DEF r
  <2> QED BY <1>1, <2>1, ActiveEdit
<1>5. /\ counts' = Charge(Charge(counts, r.source, "outgoing", 1), r.target, "incoming", 1)
      /\ sessions' = [sessions EXCEPT ![r.session].redirect = {r}]
      /\ minted' = [minted EXCEPT !.redirects = @ \union {r}]
      /\ accounts' = accounts
      /\ IssueMigration(r)
  BY DEF AdmitRedirect, Mint
<1>6. sessions' = [sessions EXCEPT ![s] = new]
  <2> HIDE DEF r
  <2> QED BY <1>3, <1>5
<1> HIDE DEF r, new, a
<1>7. counts' \in [AccountIds -> IntRecords] /\ ChargesMove(sessions[s], new)
  <2> DEFINE c == Charge(counts, a, "outgoing", 1)
  <2>1. c \in [AccountIds -> IntRecords] /\ Charged(counts, c, a, "outgoing", 1)
    BY <1>1, IntCounts, ChargeFields
  <2>2. counts' = Charge(c, t, "incoming", 1)
    BY <1>3, <1>5
  <2> HIDE DEF c
  <2>3. counts' \in [AccountIds -> IntRecords] /\ Charged(c, counts', t, "incoming", 1)
    BY <2>1, <2>2, ChargeFields
  <2>4. \A b \in AccountIds :
            /\ ~Reserves(new, b) /\ (Owns(new, b) <=> a = b)
            /\ (Leaves(new, b) <=> a = b) /\ (Arrives(new, b) <=> t = b)
    BY <1>3, <1>4, ActiveCharges
  <2>5. \A b \in AccountIds :
            /\ ~Reserves(sessions[s], b) /\ (Owns(sessions[s], b) <=> a = b)
            /\ ~Leaves(sessions[s], b) /\ ~Arrives(sessions[s], b)
    BY <1>0, <1>1, ActiveCharges DEF a
  <2> QED BY <2>1, <2>3, <2>4, <2>5, IntCounts DEF Num, ChargesMove, Charged
<1>8. minted'.redirects = minted.redirects \union {r}
      /\ minted'.reservations = minted.reservations
  BY <1>5 DEF IInv, TypeOK
<1>9. HandlesGrow
  <2>0. /\ next.redirect \in Int
        /\ \A q \in minted.redirects : q.sequence \in Int /\ q.sequence < next.redirect
        /\ \A p, q \in minted.redirects : p.sequence = q.sequence => p = q
    BY DEF IInv, Exact, TypeOK, Counters, Redirects, RedirectIds
  <2>1. \A q \in minted'.redirects : q.sequence < next'.redirect
    BY <1>2, <1>3, <1>8, <2>0
  <2>2. \A p, q \in minted'.redirects : p.sequence = q.sequence => p = q
    BY <1>3, <1>8, <2>0
  <2> QED BY <1>2, <1>8, <2>1, <2>2 DEF HandlesGrow, IInv, Exact
<1>10. Fits(s, new) /\ new \in Stages
  <2>1. new.stage = "active"
    BY <1>4 DEF ActiveStages
  <2> QED BY <1>1, <1>3, <1>4, <1>8, <2>1 DEF Fits, Stages
<1>11. /\ CountsMatchSessions' /\ counts' \in [AccountIds -> CountRecords]
       /\ ChargedIsRetained' /\ Exact' /\ sessions' \in [SessionIds -> Stages]
  BY <1>1, <1>5, <1>6, <1>7, <1>9, <1>10, StageStep
<1>12. history' \in Histories /\ pending_migrations' \in [MigrationLabels -> Nat]
  BY <1>3, <1>5, IssueType DEF IInv
<1>13. TypeOK'
  <2>1. minted' \in [reservations : SUBSET Reservations, redirects : SUBSET Redirects,
                     closes : SUBSET ForceCloses]
    BY <1>3, <1>5 DEF IInv, TypeOK
  <2> QED BY <1>2, <1>11, <1>12, <2>1 DEF IInv, TypeOK, AdmitRedirect, CountRecords
<1> QED BY <1>11, <1>13 DEF IInv

\* A terminal that is not ignored names the very redirect that is pending.
LEMMA SettlesPending ==
    ASSUME IInv, NEW r \in minted.redirects, SettlesRedirect(r)
    PROVE  /\ r \in Redirects /\ r.session \in SessionIds /\ IsActive(r.session)
           /\ sessions[r.session].redirect = {r}
           /\ r.source = sessions[r.session].account
           /\ r.source \in AccountIds /\ r.target \in AccountIds
           /\ r.target \in accounts
<1>1. r \in Redirects /\ r.session \in SessionIds
  BY DEF IInv, TypeOK, Redirects
<1>2. IsActive(r.session)
  BY DEF SettlesRedirect
<1>3. PICK p \in sessions[r.session].redirect : p.sequence = r.sequence
  BY DEF SettlesRedirect
<1>4. p \in minted.redirects
  BY <1>1, <1>2, ActiveFacts
<1>5. p = r
  BY <1>3, <1>4 DEF IInv, Exact
<1> QED BY <1>1, <1>2, <1>5, ActiveFacts

\* Releasing a redirect takes back what admitting it charged.
LEMMA ReleaseFields ==
    ASSUME IInv, NEW r, r.source \in AccountIds, r.target \in AccountIds
    PROVE  /\ ReleaseRedirect(counts, r) \in [AccountIds -> IntRecords]
           /\ \A b \in AccountIds :
                LET d == ReleaseRedirect(counts, r)[b]
                IN  /\ d.reserved = counts[b].reserved
                    /\ d.active = counts[b].active
                    /\ d.outgoing = counts[b].outgoing - Num(r.source = b)
                    /\ d.incoming = counts[b].incoming - Num(r.target = b)
<1> DEFINE c == Charge(counts, r.source, "outgoing", -1)
           d == ReleaseRedirect(counts, r)
<1>1. c \in [AccountIds -> IntRecords] /\ Charged(counts, c, r.source, "outgoing", -1)
  BY IntCounts, ChargeFields
<1>2. d = Charge(c, r.target, "incoming", -1)
  BY DEF ReleaseRedirect
<1> HIDE DEF c, d
<1>3. d \in [AccountIds -> IntRecords] /\ Charged(c, d, r.target, "incoming", -1)
  BY <1>1, <1>2, ChargeFields
<1>4. \A b \in AccountIds :
        /\ d[b].reserved = counts[b].reserved
        /\ d[b].active = counts[b].active
        /\ d[b].outgoing = counts[b].outgoing - Num(r.source = b)
        /\ d[b].incoming = counts[b].incoming - Num(r.target = b)
  BY <1>1, <1>3, IntCounts DEF Num, Charged
<1> QED BY <1>3, <1>4 DEF d

LEMMA FinishRedirectInductive ==
    ASSUME IInv, NEW r \in minted.redirects, NEW success \in BOOLEAN,
           FinishRedirect(r, success)
    PROVE  IInv'
<1> DEFINE s == r.session
           a == sessions[s].account
           released == ReleaseRedirect(counts, r)
<1>1. /\ r \in Redirects /\ s \in SessionIds /\ IsActive(s)
      /\ sessions[s].redirect = {r} /\ r.source = a
      /\ r.source \in AccountIds /\ r.target \in AccountIds /\ r.target \in accounts
  BY SettlesPending DEF FinishRedirect
<1>2. /\ sessions[s] \in ActiveStages /\ sessions[s] # Absent
      /\ a \in AccountIds /\ a \in accounts
      /\ sessions[s].closing \in Option(ForceCloses)
  BY <1>1, ActiveFacts
<1>3. next' = next /\ minted' = minted /\ accounts' = accounts
      /\ now' = now /\ max_sessions' = max_sessions
  BY DEF FinishRedirect
<1>4. HandlesGrow
  BY <1>3, SameHandles
<1>5. \A b \in AccountIds :
        /\ ~Reserves(sessions[s], b) /\ (Owns(sessions[s], b) <=> a = b)
        /\ (Leaves(sessions[s], b) <=> r.source = b)
        /\ (Arrives(sessions[s], b) <=> r.target = b)
  BY <1>1, <1>2, ActiveCharges
<1>6. /\ released \in [AccountIds -> IntRecords]
      /\ \A b \in AccountIds :
            /\ released[b].reserved = counts[b].reserved
            /\ released[b].active = counts[b].active
            /\ released[b].outgoing = counts[b].outgoing - Num(r.source = b)
            /\ released[b].incoming = counts[b].incoming - Num(r.target = b)
  BY <1>1, ReleaseFields
<1>7. r.to \in Assignments /\ r.from \in Assignments /\ r.issued_at \in Times
  BY <1>1 DEF Redirects
<1>8. CASE success
  <2> DEFINE new == Active(r.target, r.to, {}, {}, sessions[s].closing)
             left == [physical EXCEPT ![r.source] = Without(@, s)]
             h == RememberBackend(RememberBackend(history, r.to.address), r.from.address)
  <2>1. /\ counts' = Moved(released, r)
        /\ physical' = [left EXCEPT ![r.target] = @ \o <<s>>]
        /\ sessions' = [sessions EXCEPT ![s] = new]
        /\ SettleMigration(h, r, TRUE)
    BY <1>8 DEF FinishRedirect
  <2>2. /\ new \in ActiveStages /\ new.account = r.target /\ new.redirect = {}
        /\ new.stage = "active"
    BY <1>1, <1>2, <1>7, ActiveType DEF Active, Option
  <2>3. h \in Histories
    BY <1>7, RememberType DEF IInv, TypeOK, Assignments
  <2>4. left \in [AccountIds -> Seq(SessionIds)]
    BY <1>1, WithoutType DEF IInv, TypeOK
  <2>5. physical' \in [AccountIds -> Seq(SessionIds)]
    <3> HIDE DEF left
    <3> QED BY <1>1, <2>1, <2>4
  <2> HIDE DEF s, a, new, released, left, h
  <2>6. counts' \in [AccountIds -> IntRecords] /\ ChargesMove(sessions[s], new)
    <3> DEFINE c == Charge(released, r.source, "active", -1)
    <3>1. c \in [AccountIds -> IntRecords] /\ Charged(released, c, r.source, "active", -1)
      BY <1>1, <1>6, ChargeFields
    <3>2. counts' = Charge(c, r.target, "active", 1)
      BY <2>1 DEF Moved
    <3> HIDE DEF c
    <3>3. counts' \in [AccountIds -> IntRecords] /\ Charged(c, counts', r.target, "active", 1)
      BY <1>1, <3>1, <3>2, ChargeFields
    <3>4. \A b \in AccountIds :
            /\ ~Reserves(new, b) /\ (Owns(new, b) <=> r.target = b)
            /\ ~Leaves(new, b) /\ ~Arrives(new, b)
      BY <2>2, ActiveCharges
    <3> QED BY <1>1, <1>5, <1>6, <3>1, <3>3, <3>4, IntCounts DEF Num, ChargesMove, Charged
  <2>7. Fits(s, new) /\ new \in Stages
    BY <1>1, <2>2 DEF Fits, Stages
  <2>8. /\ CountsMatchSessions' /\ counts' \in [AccountIds -> CountRecords]
        /\ ChargedIsRetained' /\ Exact' /\ sessions' \in [SessionIds -> Stages]
    BY <1>1, <1>2, <1>3, <1>4, <2>1, <2>6, <2>7, StageStep
  <2>9. /\ history' \in Histories /\ pending_migrations' \in [MigrationLabels -> Nat]
        /\ settled' \in [RedirectIds -> Nat]
    BY <1>1, <2>1, <2>3, SettleType DEF IInv
  <2>10. TypeOK'
    BY <1>3, <2>5, <2>8, <2>9 DEF IInv, TypeOK, CountRecords
  <2> QED BY <2>8, <2>10 DEF IInv
<1>9. CASE ~success
  <2> DEFINE new == [sessions[s] EXCEPT !.redirect = {}, !.failed_at = {r.issued_at}]
  <2>1. /\ counts' = released
        /\ sessions' = [sessions EXCEPT ![s].redirect = {}, ![s].failed_at = {r.issued_at}]
        /\ SettleMigration(history, r, FALSE)
        /\ physical' = physical
    BY <1>9 DEF FinishRedirect
  <2>2. new \in ActiveStages /\ new.account = a /\ new.redirect = {}
    <3>1. {} \in Option(Redirects) /\ {r.issued_at} \in Option(Times)
      BY <1>7 DEF Option
    <3> QED BY <1>2, <3>1, ActiveEdit, ZenonT(40)
  <2>3. sessions' = [sessions EXCEPT ![s] = new]
    BY <1>1, <2>1 DEF IInv, TypeOK
  <2> HIDE DEF s, a, new, released
  <2>4. counts' \in [AccountIds -> IntRecords] /\ ChargesMove(sessions[s], new)
    <3>1. \A b \in AccountIds :
            /\ ~Reserves(new, b) /\ (Owns(new, b) <=> a = b)
            /\ ~Leaves(new, b) /\ ~Arrives(new, b)
      BY <2>2, ActiveCharges
    <3> QED BY <1>1, <1>5, <1>6, <2>1, <3>1, IntCounts DEF Num, ChargesMove
  <2>5. Fits(s, new) /\ new \in Stages
    <3>1. new.stage = "active"
      BY <2>2 DEF ActiveStages
    <3> QED BY <1>2, <2>2, <3>1 DEF Fits, Stages
  <2>6. /\ CountsMatchSessions' /\ counts' \in [AccountIds -> CountRecords]
        /\ ChargedIsRetained' /\ Exact' /\ sessions' \in [SessionIds -> Stages]
    BY <1>1, <1>2, <1>3, <1>4, <2>3, <2>4, <2>5, StageStep
  <2>7. /\ history' \in Histories /\ pending_migrations' \in [MigrationLabels -> Nat]
        /\ settled' \in [RedirectIds -> Nat]
    <3>1. history \in Histories /\ TypeOK
      BY DEF IInv, TypeOK
    <3> QED BY <1>1, <2>1, <3>1, SettleType
  <2>8. TypeOK'
    BY <1>3, <2>1, <2>6, <2>7 DEF IInv, TypeOK, CountRecords
  <2> QED BY <2>6, <2>8 DEF IInv
<1> QED BY <1>8, <1>9

-----------------------------------------------------------------------------
(* Closing a session                                                       *)

LEMMA CloseInductive ==
    ASSUME IInv, NEW s \in SessionIds, sessions[s] # Absent, CloseSession(s)
    PROVE  IInv'
<1>1. /\ sessions' = [sessions EXCEPT ![s] = Absent]
      /\ next' = next /\ minted' = minted /\ accounts' = accounts
      /\ now' = now /\ max_sessions' = max_sessions
  BY DEF CloseSession
<1>2. HandlesGrow
  BY <1>1, SameHandles
<1>3. Fits(s, Absent) /\ Absent \in Stages
  BY RestingStages, IdleIsNot DEF Fits
<1>4. ASSUME counts' \in [AccountIds -> IntRecords], ChargesMove(sessions[s], Absent)
      PROVE  /\ CountsMatchSessions' /\ counts' \in [AccountIds -> CountRecords]
             /\ ChargedIsRetained' /\ Exact' /\ sessions' \in [SessionIds -> Stages]
  BY <1>1, <1>2, <1>3, <1>4, StageStep
<1>5. CASE sessions[s] = Idle
  <2>1. counts' = counts /\ physical' = physical /\ UnchangedMetrics
    BY <1>5, IdleIsNot DEF CloseSession, IsPending, IsActive
  <2>2. counts' \in [AccountIds -> IntRecords] /\ ChargesMove(sessions[s], Absent)
    BY <1>5, <2>1, IntCounts, RestingStages DEF Num, ChargesMove
  <2>3. TypeOK'
    BY <1>1, <1>4, <2>1, <2>2 DEF IInv, TypeOK, UnchangedMetrics, CountRecords
  <2> QED BY <1>4, <2>2, <2>3 DEF IInv
<1>6. CASE IsPending(s)
  <2> DEFINE a == sessions[s].reservation.account
  <2>1. a \in AccountIds
    BY <1>6, StageCases DEF IInv, TypeOK, IsPending, PendingStages, Reservations
  <2>2. /\ counts' = Charge(counts, a, "reserved", -1)
        /\ physical' = physical /\ UnchangedMetrics
    BY <1>6, IdleIsNot DEF CloseSession, IsPending, IsActive
  <2>3. \A b \in AccountIds :
            /\ Reserves(sessions[s], b) <=> a = b
            /\ ~Owns(sessions[s], b) /\ ~Leaves(sessions[s], b) /\ ~Arrives(sessions[s], b)
    BY <1>6 DEF IsPending, Reserves, Owns, Leaves, Arrives
  <2> HIDE DEF a
  <2>4. /\ counts' \in [AccountIds -> IntRecords]
        /\ Charged(counts, counts', a, "reserved", -1)
    BY <2>1, <2>2, IntCounts, ChargeFields
  <2>5. ChargesMove(sessions[s], Absent)
    BY <2>3, <2>4, IntCounts, RestingStages DEF Num, ChargesMove, Charged
  <2>6. TypeOK'
    BY <1>1, <1>4, <2>2, <2>4, <2>5 DEF IInv, TypeOK, UnchangedMetrics, CountRecords
  <2> QED BY <1>4, <2>4, <2>5, <2>6 DEF IInv
<1>7. CASE IsActive(s)
  <2> DEFINE a == sessions[s].account
             h == RememberBackend(history, sessions[s].assignment.address)
  <2>1. /\ sessions[s] \in ActiveStages /\ a \in AccountIds
        /\ sessions[s].assignment \in Assignments
    BY <1>7, ActiveFacts
  <2>2. /\ physical' = [physical EXCEPT ![a] = Without(@, s)]
        /\ \/ /\ sessions[s].redirect = {}
              /\ counts' = Charge(counts, a, "active", -1)
              /\ history' = h
              /\ UNCHANGED <<pending_migrations, settled>>
           \/ \E r \in sessions[s].redirect :
              /\ counts' = Charge(ReleaseRedirect(counts, r), a, "active", -1)
              /\ SettleMigration(h, r, FALSE)
    BY <1>7, IdleIsNot DEF CloseSession, IsPending, IsActive
  <2>3. h \in Histories /\ TypeOK
    BY <2>1, RememberType DEF IInv, TypeOK, Assignments
  <2>4. physical' \in [AccountIds -> Seq(SessionIds)]
    BY <2>1, <2>2, WithoutType DEF IInv, TypeOK
  <2>5. \A b \in AccountIds :
            /\ ~Reserves(sessions[s], b) /\ (Owns(sessions[s], b) <=> a = b)
    BY <2>1, ActiveCharges
  <2>6. CASE sessions[s].redirect = {}
    <3>1. /\ counts' = Charge(counts, a, "active", -1)
          /\ history' = h /\ UNCHANGED <<pending_migrations, settled>>
      BY <2>2, <2>6
    <3>2. \A b \in AccountIds : ~Leaves(sessions[s], b) /\ ~Arrives(sessions[s], b)
      BY <2>1, <2>6, ActiveCharges
    <3> HIDE DEF a, h
    <3>3. /\ counts' \in [AccountIds -> IntRecords]
          /\ Charged(counts, counts', a, "active", -1)
      BY <2>1, <3>1, IntCounts, ChargeFields
    <3>4. ChargesMove(sessions[s], Absent)
      BY <2>5, <3>2, <3>3, IntCounts, RestingStages DEF Num, ChargesMove, Charged
    <3>5. TypeOK'
      BY <1>1, <1>4, <2>3, <2>4, <3>1, <3>3, <3>4 DEF TypeOK, CountRecords
    <3> QED BY <1>4, <3>3, <3>4, <3>5 DEF IInv
  <2>7. CASE sessions[s].redirect # {}
    <3>1. PICK r \in sessions[s].redirect :
              /\ counts' = Charge(ReleaseRedirect(counts, r), a, "active", -1)
              /\ SettleMigration(h, r, FALSE)
      BY <2>2, <2>7
    <3>2. /\ r \in Redirects /\ r.source \in AccountIds /\ r.target \in AccountIds
          /\ r.source = a /\ sessions[s].redirect = {r}
      BY <1>7, <2>1, ActiveFacts
    <3>3. \A b \in AccountIds :
            /\ Leaves(sessions[s], b) <=> r.source = b
            /\ Arrives(sessions[s], b) <=> r.target = b
      BY <2>1, <3>2, ActiveCharges
    <3> DEFINE c == ReleaseRedirect(counts, r)
    <3>4. /\ c \in [AccountIds -> IntRecords]
          /\ \A b \in AccountIds :
                /\ c[b].reserved = counts[b].reserved
                /\ c[b].active = counts[b].active
                /\ c[b].outgoing = counts[b].outgoing - Num(r.source = b)
                /\ c[b].incoming = counts[b].incoming - Num(r.target = b)
      BY <3>2, ReleaseFields
    <3>5. counts' = Charge(c, a, "active", -1)
      BY <3>1
    <3> HIDE DEF a, h, c
    <3>6. counts' \in [AccountIds -> IntRecords] /\ Charged(c, counts', a, "active", -1)
      BY <2>1, <3>4, <3>5, ChargeFields
    <3>7. ChargesMove(sessions[s], Absent)
      BY <2>5, <3>3, <3>4, <3>6, IntCounts, RestingStages DEF Num, ChargesMove, Charged
    <3>8. /\ history' \in Histories /\ pending_migrations' \in [MigrationLabels -> Nat]
          /\ settled' \in [RedirectIds -> Nat]
      BY <2>3, <3>1, <3>2, SettleType
    <3>9. TypeOK'
      BY <1>1, <1>4, <2>3, <2>4, <3>6, <3>7, <3>8 DEF TypeOK, CountRecords
    <3> QED BY <1>4, <3>6, <3>7, <3>9 DEF IInv
  <2> QED BY <2>6, <2>7
<1> QED BY <1>5, <1>6, <1>7 DEF CloseSession

LEMMA OfferCloseInductive ==
    ASSUME IInv, NEW s \in SessionIds, NEW accepted \in BOOLEAN, OfferClose(s, accepted)
    PROVE  IInv'
<1> DEFINE close == [session |-> s, sequence |-> next.close]
           new == [sessions[s] EXCEPT !.closing = {close}]
<1>0. IsActive(s)
  BY DEF OfferClose
<1>1. CASE accepted
  <2>1. /\ Bump("close")
        /\ sessions' = [sessions EXCEPT ![s].closing = {close}]
        /\ minted' = [minted EXCEPT !.closes = @ \union {close}]
        /\ UNCHANGED <<now, max_sessions, accounts, counts, physical>>
        /\ UnchangedMetrics
    BY <1>1 DEF OfferClose, Mint
  <2>2. /\ next' \in Counters /\ next'.session = next.session
        /\ next'.reservation = next.reservation /\ next'.account = next.account
        /\ next'.redirect = next.redirect
    BY <2>1, BumpType DEF OfferClose, IInv, TypeOK
  <2>3. close \in ForceCloses
    BY BoundsAssumption DEF OfferClose, IInv, TypeOK, Counters, ForceCloses, CloseIds
  <2>4. minted'.redirects = minted.redirects /\ minted'.reservations = minted.reservations
        /\ minted' \in [reservations : SUBSET Reservations, redirects : SUBSET Redirects,
                        closes : SUBSET ForceCloses]
    <3> HIDE DEF close
    <3> QED BY <2>1, <2>3 DEF IInv, TypeOK
  <2>5. HandlesGrow
    BY <2>2, <2>4 DEF HandlesGrow, IInv, Exact
  <2>6. /\ new \in ActiveStages /\ new.account = sessions[s].account
        /\ new.redirect = sessions[s].redirect
    <3>1. {close} \in Option(ForceCloses)
      BY <2>3 DEF Option
    <3> HIDE DEF close
    <3> QED BY <1>0, <3>1, ActiveFacts, ActiveEdit, ZenonT(40)
  <2>7. sessions' = [sessions EXCEPT ![s] = new]
    BY <2>1
  <2> HIDE DEF new, close
  <2>8. /\ CountsMatchSessions' /\ counts' \in [AccountIds -> CountRecords]
        /\ ChargedIsRetained' /\ Exact' /\ sessions' \in [SessionIds -> Stages]
    BY <1>0, <2>1, <2>4, <2>5, <2>6, <2>7, FieldStep
  <2>9. TypeOK'
    BY <2>1, <2>2, <2>4, <2>8 DEF IInv, TypeOK, UnchangedMetrics, CountRecords
  <2> QED BY <2>8, <2>9 DEF IInv
<1>2. CASE ~accepted
  <2>1. StartCooldown(s)
    BY <1>2 DEF OfferClose
  <2> QED BY <1>0, <2>1, CooldownInductive
<1> QED BY <1>1, <1>2

-----------------------------------------------------------------------------
(* The theorems                                                            *)

LEMMA InitInv ==
    ASSUME Init
    PROVE  IInv
<1>1. TypeOK
  <2>1. history \in Histories
    BY DEF Init, NoHistory, Histories
  <2>2. counts \in [AccountIds -> [reserved : Nat, active : Nat,
                                   incoming : Nat, outgoing : Nat]]
    BY DEF Init, NoCharge
  <2>3. sessions \in [SessionIds -> Stages] /\ next \in Counters /\ now \in Times
    BY BoundsAssumption, RestingStages DEF Init, Counters, Times
  <2> QED BY <2>1, <2>2, <2>3 DEF Init, TypeOK
<1>2. \A s \in SessionIds : ~IsPending(s) /\ ~IsActive(s)
  BY IdleIsNot DEF Init, IsPending, IsActive
<1>3. CountsMatchSessions
  <2>1. \A a \in AccountIds :
            /\ ReservedOn(a) = {} /\ OwnedBy(a) = {}
            /\ LeavingFrom(a) = {} /\ ArrivingAt(a) = {}
    BY <1>2 DEF ReservedOn, OwnedBy, LeavingFrom, ArrivingAt
  <2>2. \A a \in AccountIds : counts[a] = NoCharge
    BY DEF Init
  <2> QED BY <2>1, <2>2, FS_EmptySet DEF CountsMatchSessions, NoCharge
<1>4. ChargedIsRetained
  BY <1>2 DEF ChargedIsRetained
<1>5. Exact
  BY <1>2 DEF Init, Exact
<1> QED BY <1>1, <1>3, <1>4, <1>5 DEF IInv

\* Every operation of the ledger preserves the invariant.
LEMMA NextInv ==
    ASSUME IInv, Next
    PROVE  IInv'
<1>1. CASE Open
  BY <1>1, OpenInductive
<1>2. CASE AddAccount
  BY <1>2, AddAccountInductive
<1>3. ASSUME NEW a \in AccountIds, Prune(a) PROVE IInv'
  BY <1>3, PruneInductive
<1>4. ASSUME NEW s \in SessionIds, NEW a \in AccountIds, NEW asg \in Assignments
      PROVE  Reserve(s, a, asg) \/ Rehydrate(s, a, asg) => IInv'
  BY <1>4, ReserveInductive, RehydrateInductive
<1>5. ASSUME NEW s \in SessionIds, NEW a \in AccountIds, NEW asg \in Assignments,
             NEW reason \in Reasons, NEW accepted \in BOOLEAN,
             OfferRedirect(s, a, asg, reason, accepted)
      PROVE  IInv'
  <2>1. IsActive(s) /\ Redirectable(s) /\ ScoreCanMove(sessions[s].account, a)
    BY <1>5 DEF OfferRedirect, CanRedirect, Redirectable
  <2>2. AdmitRedirect(PreparedRedirect(s, a, asg, reason)) \/ StartCooldown(s)
    BY <1>5 DEF OfferRedirect
  <2> QED BY <2>1, <2>2, AdmitInductive, CooldownInductive
<1>6. ASSUME NEW s \in SessionIds, NEW accepted \in BOOLEAN, OfferSelfRedirect(s, accepted)
      PROVE  IInv'
  <2>1. /\ IsActive(s) /\ Redirectable(s)
        /\ ScoreCanMove(sessions[s].account, sessions[s].account)
    BY <1>6 DEF OfferSelfRedirect, CanRedirectToSelf, Redirectable
  <2>2. \/ AdmitRedirect(PreparedRedirect(s, sessions[s].account,
                                          sessions[s].assignment, TestReason))
        \/ StartCooldown(s)
    BY <1>6 DEF OfferSelfRedirect
  <2>3. sessions[s].account \in AccountIds /\ sessions[s].assignment \in Assignments
    BY <2>1, ActiveFacts
  <2> QED BY <2>1, <2>2, <2>3, BoundsAssumption, AdmitInductive, CooldownInductive
<1>7. ASSUME NEW s \in SessionIds PROVE RejectKeyspace(s) \/ Close(s) => IInv'
  BY <1>7, CooldownInductive, CloseInductive DEF RejectKeyspace, Redirectable, Close
<1>8. ASSUME NEW s \in SessionIds, NEW accepted \in BOOLEAN, OfferClose(s, accepted)
      PROVE  IInv'
  BY <1>8, OfferCloseInductive
<1>9. ASSUME NEW r \in minted.reservations, NEW connected \in BOOLEAN, Finish(r, connected)
      PROVE  IInv'
  BY <1>9, FinishInductive
<1>10. ASSUME NEW r \in minted.redirects, NEW success \in BOOLEAN, FinishRedirect(r, success)
       PROVE  IInv'
  BY <1>10, FinishRedirectInductive
<1>11. ASSUME NEW close \in minted.closes, ObserveClose(close) PROVE IInv'
  <2>1. close.session \in SessionIds
    BY <1>11 DEF IInv, TypeOK, ForceCloses
  <2>2. sessions[close.session] # Absent /\ CloseSession(close.session)
    BY <1>11, <2>1, ActiveFacts DEF ObserveClose
  <2> QED BY <2>1, <2>2, CloseInductive
<1>12. \/ Tick
       \/ \E n \in SessionLimits : SetMaxSessions(n)
       \/ \E labels \in MigrationLabels : OtherRouterIssues(labels)
       \/ \E address \in Addresses : RetireBackend(address)
       => IInv'
  BY EnvironmentInductive
<1> QED BY <1>1, <1>2, <1>3, <1>4, <1>5, <1>6, <1>7, <1>8, <1>9, <1>10, <1>11, <1>12 DEF Next

LEMMA StutterInv ==
    ASSUME IInv, UNCHANGED vars
    PROVE  IInv'
<1>1. TypeOK'
  BY DEF vars, IInv, TypeOK
<1> QED BY <1>1, QuietStep DEF vars, IInv

\* No counter of the ledger ever wraps, and every other variable keeps its type.
THEOREM TypeCorrect == Spec => []TypeOK
<1>1. Init => IInv
  BY InitInv
<1>2. IInv /\ [Next]_vars => IInv'
  BY NextInv, StutterInv
<1>3. IInv => TypeOK
  BY DEF IInv
<1> QED BY <1>1, <1>2, <1>3, PTL DEF Spec

\* The counters always are the numbers of sessions charged, for any number of
\* sessions, accounts, reservations, redirects and late or repeated terminals.
THEOREM Accounting == Spec => []CountsMatchSessions
<1>1. Init => IInv
  BY InitInv
<1>2. IInv /\ [Next]_vars => IInv'
  BY NextInv, StutterInv
<1>3. IInv => CountsMatchSessions
  BY DEF IInv
<1> QED BY <1>1, <1>2, <1>3, PTL DEF Spec

\* No account is pruned while a session is charged to it.
THEOREM Retention == Spec => []ChargedIsRetained
<1>1. Init => IInv
  BY InitInv
<1>2. IInv /\ [Next]_vars => IInv'
  BY NextInv, StutterInv
<1>3. IInv => ChargedIsRetained
  BY DEF IInv
<1> QED BY <1>1, <1>2, <1>3, PTL DEF Spec

-----------------------------------------------------------------------------
(* The lists, the settlements and the pending gauge: a second invariant,   *)
(* on top of the first.                                                    *)

\* The redirect a stage has in flight.
Flying(stage) == IF stage.stage = "active" THEN stage.redirect ELSE {}

\* A redirect stays in the keyspace of its session.
KeyspacesMatch ==
    \A s \in SessionIds : IsActive(s) => \A r \in sessions[s].redirect :
        r.to.keyspace = sessions[s].assignment.keyspace

\* A redirect that was not minted has not been settled.
UnmintedUnsettled == \A q \in RedirectIds : q >= next.redirect => settled[q] = 0

JInv ==
    /\ PhysicalIsOwned /\ PendingNeverStuck
    /\ RedirectSettledOnce /\ UnmintedUnsettled /\ KeyspacesMatch

\* A list of exactly the sessions of a set, each once.
Lists(list, S) ==
    /\ list \in Seq(SessionIds)
    /\ \A i \in 1 .. Len(list) : list[i] \in S
    /\ \A t \in S : \E i \in 1 .. Len(list) : list[i] = t
    /\ \A i, j \in 1 .. Len(list) : list[i] = list[j] => i = j

LEMMA PhysicalLists ==
    ASSUME physical \in [AccountIds -> Seq(SessionIds)]
    PROVE  PhysicalIsOwned <=> \A a \in AccountIds : Lists(physical[a], OwnedBy(a))
<1>1. \A a \in AccountIds : physical[a] \in Seq(SessionIds) /\ DOMAIN physical[a] = 1 .. Len(physical[a])
  OBVIOUS
<1>2. ASSUME NEW a \in AccountIds
      PROVE  Lists(physical[a], OwnedBy(a)) <=>
                /\ {physical[a][i] : i \in DOMAIN physical[a]} = OwnedBy(a)
                /\ \A i, j \in DOMAIN physical[a] : physical[a][i] = physical[a][j] => i = j
  BY <1>1 DEF Lists
<1> QED BY <1>2 DEF PhysicalIsOwned

LEMMA EmptyLists == Lists(<<>>, {})
BY DEF Lists

LEMMA AppendLists ==
    ASSUME NEW S, NEW list, Lists(list, S), NEW s \in SessionIds, s \notin S
    PROVE  Lists(list \o <<s>>, S \union {s})
<1> DEFINE w == list \o <<s>>
<1>0. list \in Seq(SessionIds) /\ Len(list) \in Nat
  BY DEF Lists
<1>1. /\ w \in Seq(SessionIds) /\ Len(w) = Len(list) + 1
      /\ \A i \in 1 .. Len(list) : w[i] = list[i]
      /\ w[Len(list) + 1] = s
  <2>1. Append(list, s) = w
    BY <1>0, AppendIsConcat
  <2> QED BY <1>0, <2>1, AppendProperties
<1> HIDE DEF w
<1>2. \A i \in 1 .. Len(w) : w[i] \in S \union {s}
  BY <1>0, <1>1 DEF Lists
<1>3. \A t \in S \union {s} : \E i \in 1 .. Len(w) : w[i] = t
  <2>1. ASSUME NEW t \in S PROVE \E i \in 1 .. Len(w) : w[i] = t
    <3>1. PICK i \in 1 .. Len(list) : list[i] = t
      BY DEF Lists
    <3> QED BY <1>0, <1>1, <3>1
  <2>2. Len(list) + 1 \in 1 .. Len(w)
    BY <1>0, <1>1
  <2> QED BY <1>1, <2>1, <2>2
<1>4. \A i, j \in 1 .. Len(w) : w[i] = w[j] => i = j
  BY <1>0, <1>1 DEF Lists
<1> QED BY <1>1, <1>2, <1>3, <1>4 DEF Lists, w

LEMMA WithoutLists ==
    ASSUME NEW S, NEW list, Lists(list, S), NEW s \in SessionIds
    PROVE  Lists(Without(list, s), S \ {s})
<1>0. list \in Seq(SessionIds) /\ Len(list) \in Nat /\ DOMAIN list = 1 .. Len(list)
  BY DEF Lists
<1>1. CASE \E i \in DOMAIN list : list[i] = s
  <2> DEFINE k == CHOOSE i \in DOMAIN list : list[i] = s
             n == Len(list)
             u == SubSeq(list, 1, k - 1)
             v == SubSeq(list, k + 1, n)
             w == u \o v
  <2>1. k \in 1 .. n /\ list[k] = s
    BY <1>0, <1>1
  <2>2. Without(list, s) = w
    BY <1>1 DEF Without
  <2>n. n \in Nat
    BY <1>0
  <2> HIDE DEF k
  <2>3. /\ u \in Seq(SessionIds) /\ Len(u) = k - 1
        /\ \A i \in 1 .. k - 1 : u[i] = list[i]
    <3>1. \A i \in 1 .. k - 1 : list[i] \in SessionIds
      BY <1>0, <2>1
    <3>2. k - 1 \in Int /\ (IF 1 <= k - 1 THEN k - 1 - 1 + 1 ELSE 0) = k - 1
      BY <2>1, <2>n
    <3>3. /\ SubSeq(list, 1, k - 1) \in Seq(SessionIds)
          /\ Len(SubSeq(list, 1, k - 1)) = IF 1 <= k - 1 THEN k - 1 - 1 + 1 ELSE 0
          /\ \A i \in 1 .. k - 1 - 1 + 1 : SubSeq(list, 1, k - 1)[i] = list[1 + i - 1]
      BY <3>1, <3>2, SubSeqProperties
    <3>4. k - 1 - 1 + 1 = k - 1 /\ \A i \in 1 .. k - 1 : 1 + i - 1 = i
      BY <2>1, <2>n
    <3> QED BY <3>2, <3>3, <3>4
  <2>4. /\ v \in Seq(SessionIds) /\ Len(v) = n - k
        /\ \A i \in 1 .. n - k : v[i] = list[k + i]
    <3>1. \A i \in k + 1 .. n : list[i] \in SessionIds
      BY <1>0, <2>1
    <3>2. k + 1 \in Int /\ (IF k + 1 <= n THEN n - (k + 1) + 1 ELSE 0) = n - k
      BY <2>1, <2>n
    <3>3. /\ SubSeq(list, k + 1, n) \in Seq(SessionIds)
          /\ Len(SubSeq(list, k + 1, n)) = IF k + 1 <= n THEN n - (k + 1) + 1 ELSE 0
          /\ \A i \in 1 .. n - (k + 1) + 1 : SubSeq(list, k + 1, n)[i] = list[k + 1 + i - 1]
      BY <2>n, <3>1, <3>2, SubSeqProperties
    <3>4. n - (k + 1) + 1 = n - k /\ \A i \in 1 .. n - k : k + 1 + i - 1 = k + i
      BY <2>1, <2>n
    <3> QED BY <3>2, <3>3, <3>4
  <2> HIDE DEF u, v
  <2>5. /\ w \in Seq(SessionIds) /\ Len(w) = n - 1
        /\ \A i \in 1 .. n - 1 : w[i] = IF i < k THEN list[i] ELSE list[i + 1]
    <3>1. /\ w \in Seq(SessionIds) /\ Len(w) = Len(u) + Len(v)
          /\ \A i \in 1 .. Len(u) + Len(v) :
                w[i] = IF i <= Len(u) THEN u[i] ELSE v[i - Len(u)]
      BY <2>3, <2>4, ConcatProperties
    <3>2. Len(w) = n - 1 /\ Len(u) + Len(v) = n - 1
      BY <2>1, <2>3, <2>4, <2>n, <3>1
    <3>3. ASSUME NEW i \in 1 .. n - 1
          PROVE  w[i] = IF i < k THEN list[i] ELSE list[i + 1]
      <4>1. w[i] = IF i <= k - 1 THEN u[i] ELSE v[i - (k - 1)]
        BY <2>3, <3>1, <3>2
      <4>2. CASE i < k
        BY <2>1, <2>3, <2>n, <4>1, <4>2
      <4>3. CASE ~(i < k)
        <5>1. w[i] = v[i - (k - 1)]
          BY <2>1, <2>n, <4>1, <4>3
        <5>2. i - (k - 1) \in 1 .. n - k /\ k + (i - (k - 1)) = i + 1
          BY <2>1, <2>n, <4>3
        <5>3. v[i - (k - 1)] = list[k + (i - (k - 1))]
          BY <2>4, <5>2
        <5> QED BY <4>3, <5>1, <5>2, <5>3
      <4> QED BY <4>2, <4>3
    <3> QED BY <3>1, <3>2, <3>3
  <2> HIDE DEF w
  <2>6. \A i, j \in 1 .. n : list[i] = list[j] => i = j
    BY DEF Lists
  <2>7. \A i \in 1 .. n : list[i] \in S
    BY DEF Lists
  <2>8. ASSUME NEW i \in 1 .. n - 1
        PROVE  w[i] \in S /\ w[i] # s
    <3>1. i \in 1 .. n /\ i + 1 \in 1 .. n /\ (i < k => i # k) /\ (~(i < k) => i + 1 # k)
      BY <2>1, <2>n
    <3> QED BY <2>1, <2>5, <2>6, <2>7, <3>1
  <2>9. ASSUME NEW t \in S \ {s}
        PROVE  \E i \in 1 .. n - 1 : w[i] = t
    <3>1. PICK j \in 1 .. n : list[j] = t
      BY DEF Lists
    <3>2. j # k
      BY <2>1, <3>1
    <3>3. CASE j < k
      <4>1. j \in 1 .. n - 1
        BY <2>1, <2>n, <3>3
      <4> QED BY <2>5, <3>1, <3>3, <4>1
    <3>4. CASE j > k
      <4>1. j - 1 \in 1 .. n - 1 /\ ~(j - 1 < k) /\ j - 1 + 1 = j
        BY <2>1, <2>n, <3>4
      <4>2. w[j - 1] = list[j]
        BY <2>5, <4>1
      <4> QED BY <3>1, <4>1, <4>2
    <3> QED BY <2>1, <2>n, <3>2, <3>3, <3>4
  <2>10. ASSUME NEW i \in 1 .. n - 1, NEW j \in 1 .. n - 1, w[i] = w[j]
         PROVE  i = j
    <3>1. /\ i \in 1 .. n /\ i + 1 \in 1 .. n /\ j \in 1 .. n /\ j + 1 \in 1 .. n
      BY <2>1, <2>n
    <3> QED BY <2>1, <2>5, <2>6, <2>10, <3>1
  <2>11. \A i \in 1 .. Len(w) : w[i] \in S \ {s}
    BY <2>5, <2>8
  <2>12. \A t \in S \ {s} : \E i \in 1 .. Len(w) : w[i] = t
    BY <2>5, <2>9
  <2>13. \A i, j \in 1 .. Len(w) : w[i] = w[j] => i = j
    BY <2>5, <2>10
  <2> QED BY <2>2, <2>5, <2>11, <2>12, <2>13 DEF Lists
<1>2. CASE ~\E i \in DOMAIN list : list[i] = s
  <2>1. s \notin S
    BY <1>0, <1>2 DEF Lists
  <2> QED BY <1>2, <2>1 DEF Without, Lists
<1> QED BY <1>1, <1>2

\* One session changes its stage and the lists follow.
LEMMA ListsFollow ==
    ASSUME IInv, IInv', NEW s \in SessionIds, NEW new,
           sessions' = [sessions EXCEPT ![s] = new],
           \A a \in AccountIds :
                Lists(physical'[a], (OwnedBy(a) \ {s}) \union (IF Owns(new, a) THEN {s} ELSE {}))
    PROVE  PhysicalIsOwned'
<1>0. sessions'[s] = new /\ \A t \in SessionIds : t # s => sessions'[t] = sessions[t]
  BY DEF IInv, TypeOK
<1>1. \A a \in AccountIds :
        OwnedBy(a)' = (OwnedBy(a) \ {s}) \union (IF Owns(new, a) THEN {s} ELSE {})
  BY <1>0 DEF OwnedBy, IsActive, Owns
<1>2. \A a \in AccountIds : Lists(physical'[a], OwnedBy(a)')
  BY <1>1
<1>3. physical' \in [AccountIds -> Seq(SessionIds)]
  BY DEF IInv, TypeOK
<1>4. (physical \in [AccountIds -> Seq(SessionIds)])'
        => (PhysicalIsOwned <=> \A a \in AccountIds : Lists(physical[a], OwnedBy(a)))'
  BY PhysicalLists, PTL
<1> QED BY <1>2, <1>3, <1>4

\* The sessions that hold a redirect, and those under one label set.
Holding(r) == {s \in SessionIds : IsActive(s) /\ r \in sessions[s].redirect}

LEMMA Flights ==
    /\ \A s \in SessionIds : \A r : s \in Holding(r) <=> r \in Flying(sessions[s])
    /\ \A s \in SessionIds : \A l : s \in InFlight(l) <=> \E r \in Flying(sessions[s]) : Labels(r) = l
BY DEF Holding, InFlight, Flying, IsActive

LEMMA FlightsNext ==
    /\ \A s \in SessionIds : \A r : s \in Holding(r)' <=> r \in Flying(sessions'[s])
    /\ \A s \in SessionIds : \A l :
          s \in InFlight(l)' <=> \E r \in Flying(sessions'[s]) : Labels(r) = l
BY DEF Holding, InFlight, Flying, IsActive

\* Nothing takes off and nothing lands.
LEMMA FlightsStay ==
    ASSUME IInv, JInv, \A s \in SessionIds : Flying(sessions'[s]) = Flying(sessions[s]),
           UNCHANGED <<pending_migrations, settled>>,
           minted'.redirects = minted.redirects, next'.redirect = next.redirect
    PROVE  PendingNeverStuck' /\ RedirectSettledOnce' /\ UnmintedUnsettled'
<1>1. \A l : InFlight(l)' = InFlight(l)
  BY Flights, FlightsNext DEF InFlight
<1>2. \A r : Holding(r)' = Holding(r)
  BY Flights, FlightsNext DEF Holding
<1>3. PendingNeverStuck'
  BY <1>1 DEF JInv, PendingNeverStuck
<1>4. RedirectSettledOnce'
  BY <1>2 DEF JInv, RedirectSettledOnce, Holding
<1>5. UnmintedUnsettled'
  BY DEF JInv, UnmintedUnsettled
<1> QED BY <1>3, <1>4, <1>5

\* A stage with a redirect under a label set in flight.
FlownUnder(stage, l) == \E r \in Flying(stage) : Labels(r) = l

\* How sizes change when one session begins or ends to hold a redirect.
LEMMA FlightSizes ==
    ASSUME NEW s \in SessionIds,
           \A t \in SessionIds : t # s => Flying(sessions'[t]) = Flying(sessions[t])
    PROVE  /\ \A l : /\ Cardinality(InFlight(l)) \in Nat /\ Cardinality(InFlight(l)') \in Nat
                     /\ Cardinality(InFlight(l)') = Cardinality(InFlight(l))
                            - Num(FlownUnder(sessions[s], l))
                            + Num(FlownUnder(sessions'[s], l))
           /\ \A r : /\ Cardinality(Holding(r)) \in Nat /\ Cardinality(Holding(r)') \in Nat
                     /\ Cardinality(Holding(r)') = Cardinality(Holding(r))
                            - Num(r \in Flying(sessions[s])) + Num(r \in Flying(sessions'[s]))
<1>1. ASSUME NEW l
      PROVE  /\ Cardinality(InFlight(l)) \in Nat /\ Cardinality(InFlight(l)') \in Nat
             /\ Cardinality(InFlight(l)') = Cardinality(InFlight(l))
                    - Num(FlownUnder(sessions[s], l))
                    + Num(FlownUnder(sessions'[s], l))
  <2>1. InFlight(l) \in SUBSET SessionIds /\ InFlight(l)' \in SUBSET SessionIds
    BY DEF InFlight
  <2>2. \A t \in SessionIds : t # s => (t \in InFlight(l) <=> t \in InFlight(l)')
    BY Flights, FlightsNext
  <2>3. /\ Cardinality(InFlight(l)) \in Nat /\ Cardinality(InFlight(l)') \in Nat
        /\ Cardinality(InFlight(l)') = Cardinality(InFlight(l))
                - Num(s \in InFlight(l)) + Num(s \in InFlight(l)')
    BY <2>1, <2>2, OneSessionMoves
  <2>4. /\ Num(s \in InFlight(l)) = Num(FlownUnder(sessions[s], l))
        /\ Num(s \in InFlight(l)') = Num(FlownUnder(sessions'[s], l))
    BY Flights, FlightsNext DEF Num, FlownUnder
  <2> QED BY <2>3, <2>4
<1>2. ASSUME NEW r
      PROVE  /\ Cardinality(Holding(r)) \in Nat /\ Cardinality(Holding(r)') \in Nat
             /\ Cardinality(Holding(r)') = Cardinality(Holding(r))
                    - Num(r \in Flying(sessions[s])) + Num(r \in Flying(sessions'[s]))
  <2>1. Holding(r) \in SUBSET SessionIds /\ Holding(r)' \in SUBSET SessionIds
    BY DEF Holding
  <2>2. \A t \in SessionIds : t # s => (t \in Holding(r) <=> t \in Holding(r)')
    BY Flights, FlightsNext
  <2>3. /\ Cardinality(Holding(r)) \in Nat /\ Cardinality(Holding(r)') \in Nat
        /\ Cardinality(Holding(r)') = Cardinality(Holding(r))
                - Num(s \in Holding(r)) + Num(s \in Holding(r)')
    BY <2>1, <2>2, OneSessionMoves
  <2>4. /\ Num(s \in Holding(r)) = Num(r \in Flying(sessions[s]))
        /\ Num(s \in Holding(r)') = Num(r \in Flying(sessions'[s]))
    BY Flights, FlightsNext DEF Num
  <2> QED BY <2>3, <2>4
<1> QED BY <1>1, <1>2

\* A redirect nobody has heard of before takes off.
LEMMA FlightBegins ==
    ASSUME IInv, JInv, NEW s \in SessionIds, NEW r \in Redirects,
           \A t \in SessionIds : t # s => Flying(sessions'[t]) = Flying(sessions[t]),
           Flying(sessions[s]) = {}, Flying(sessions'[s]) = {r},
           IssueMigration(r), settled' = settled, r.sequence = next.redirect,
           minted'.redirects = minted.redirects \union {r}, next'.redirect = next.redirect + 1
    PROVE  PendingNeverStuck' /\ RedirectSettledOnce' /\ UnmintedUnsettled'
<1>0. /\ next.redirect \in Nat /\ r.sequence \in RedirectIds
      /\ pending_migrations \in [MigrationLabels -> Nat] /\ Labels(r) \in MigrationLabels
  <2>1. Labels(r) \in MigrationLabels
    BY LabelsType
  <2>2. next.redirect \in Nat
    BY BoundsAssumption DEF IInv, TypeOK, Counters
  <2>3. r.sequence \in RedirectIds
    BY DEF Redirects
  <2> QED BY <2>1, <2>2, <2>3 DEF IInv, TypeOK
<1>1. PendingNeverStuck'
  <2>1. ASSUME NEW l \in MigrationLabels
        PROVE  pending_migrations'[l] <= Cardinality(InFlight(l)')
    <3>1. /\ Cardinality(InFlight(l)) \in Nat
          /\ Cardinality(InFlight(l)') = Cardinality(InFlight(l)) + Num(Labels(r) = l)
      <4>1. /\ Cardinality(InFlight(l)) \in Nat
            /\ Cardinality(InFlight(l)') = Cardinality(InFlight(l))
                    - Num(FlownUnder(sessions[s], l))
                    + Num(FlownUnder(sessions'[s], l))
        BY FlightSizes
      <4>2. /\ Num(FlownUnder(sessions[s], l)) = 0
            /\ Num(FlownUnder(sessions'[s], l)) = Num(Labels(r) = l)
        BY DEF Num, FlownUnder
      <4>3. Num(Labels(r) = l) \in Nat
        BY DEF Num
      <4> QED BY <4>1, <4>2, <4>3
    <3>2. pending_migrations[l] <= Cardinality(InFlight(l)) /\ pending_migrations[l] \in Nat
      BY <1>0 DEF JInv, PendingNeverStuck
    <3>3. \/ pending_migrations'[l] = pending_migrations[l]
          \/ Labels(r) = l /\ pending_migrations'[l] = pending_migrations[l] + 1
      BY <1>0 DEF IssueMigration
    <3> QED BY <3>1, <3>2, <3>3 DEF Num
  <2> QED BY <2>1 DEF PendingNeverStuck
<1>2. RedirectSettledOnce'
  <2>1. \A q \in minted.redirects : q \in Redirects /\ q.sequence < next.redirect /\ q # r
    BY <1>0 DEF IInv, Exact, TypeOK
  <2>2. ASSUME NEW q \in minted'.redirects
        PROVE  settled'[q.sequence] + Cardinality(Holding(q)') = 1
    <3>1. /\ Cardinality(Holding(q)) \in Nat
          /\ Cardinality(Holding(q)') = Cardinality(Holding(q)) + Num(q = r)
      <4>1. /\ Cardinality(Holding(q)) \in Nat
            /\ Cardinality(Holding(q)') = Cardinality(Holding(q))
                    - Num(q \in Flying(sessions[s])) + Num(q \in Flying(sessions'[s]))
        BY FlightSizes
      <4>2. /\ Num(q \in Flying(sessions[s])) = 0
            /\ Num(q \in Flying(sessions'[s])) = Num(q = r) /\ Num(q = r) \in Nat
        BY DEF Num
      <4> QED BY <4>1, <4>2
    <3>2. CASE q = r
      <4>1. settled[r.sequence] = 0
        BY <1>0 DEF JInv, UnmintedUnsettled
      <4>2. Holding(r) = {}
        <5>1. \A t \in SessionIds : r \notin Flying(sessions[t])
          BY <2>1 DEF Flying, IInv, Exact, IsActive
        <5> QED BY <5>1, Flights DEF Holding
      <4>3. Cardinality(Holding(r)) = 0
        BY <4>2, FS_EmptySet
      <4> QED BY <3>1, <3>2, <4>1, <4>3 DEF Num
    <3>3. CASE q # r
      <4>1. q \in minted.redirects /\ settled[q.sequence] \in Nat
        BY <3>3, <2>1 DEF IInv, TypeOK, Redirects
      <4>2. settled[q.sequence] + Cardinality(Holding(q)) = 1
        BY <4>1 DEF JInv, RedirectSettledOnce, Holding
      <4> QED BY <3>1, <3>3, <4>1, <4>2 DEF Num
    <3> QED BY <3>2, <3>3
  <2> QED BY <2>2 DEF RedirectSettledOnce, Holding
<1>3. UnmintedUnsettled'
  BY <1>0 DEF JInv, UnmintedUnsettled, RedirectIds
<1> QED BY <1>1, <1>2, <1>3

\* The redirect a session holds lands, and is settled.
LEMMA FlightEnds ==
    ASSUME IInv, JInv, NEW s \in SessionIds, NEW r \in minted.redirects, NEW h, NEW success,
           \A t \in SessionIds : t # s => Flying(sessions'[t]) = Flying(sessions[t]),
           Flying(sessions[s]) = {r}, Flying(sessions'[s]) = {},
           SettleMigration(h, r, success),
           minted'.redirects = minted.redirects, next'.redirect = next.redirect
    PROVE  PendingNeverStuck' /\ RedirectSettledOnce' /\ UnmintedUnsettled'
<1>0. /\ next.redirect \in Nat /\ r \in Redirects /\ r.sequence \in RedirectIds
      /\ r.sequence < next.redirect /\ settled \in [RedirectIds -> Nat]
      /\ pending_migrations \in [MigrationLabels -> Nat] /\ Labels(r) \in MigrationLabels
  <2>1. r \in Redirects
    BY DEF IInv, TypeOK
  <2>2. Labels(r) \in MigrationLabels
    BY <2>1, LabelsType
  <2>3. next.redirect \in Nat
    BY BoundsAssumption DEF IInv, TypeOK, Counters
  <2>4. r.sequence \in RedirectIds
    BY <2>1 DEF Redirects
  <2>5. r.sequence < next.redirect
    BY DEF IInv, Exact
  <2> QED BY <2>1, <2>2, <2>3, <2>4, <2>5 DEF IInv, TypeOK
<1>1. PendingNeverStuck'
  <2>1. ASSUME NEW l \in MigrationLabels
        PROVE  pending_migrations'[l] <= Cardinality(InFlight(l)')
    <3>1. /\ Cardinality(InFlight(l)) \in Nat /\ Cardinality(InFlight(l)') \in Nat
          /\ Cardinality(InFlight(l)') = Cardinality(InFlight(l)) - Num(Labels(r) = l)
      <4>1. /\ Cardinality(InFlight(l)) \in Nat /\ Cardinality(InFlight(l)') \in Nat
            /\ Cardinality(InFlight(l)') = Cardinality(InFlight(l))
                    - Num(FlownUnder(sessions[s], l))
                    + Num(FlownUnder(sessions'[s], l))
        BY FlightSizes
      <4>2. /\ Num(FlownUnder(sessions'[s], l)) = 0
            /\ Num(FlownUnder(sessions[s], l)) = Num(Labels(r) = l)
        BY DEF Num, FlownUnder
      <4>3. Num(Labels(r) = l) \in Nat
        BY DEF Num
      <4> QED BY <4>1, <4>2, <4>3
    <3>2. pending_migrations[l] <= Cardinality(InFlight(l)) /\ pending_migrations[l] \in Nat
      BY <1>0 DEF JInv, PendingNeverStuck
    <3>3. pending_migrations'[l] =
            IF Labels(r) = l
            THEN IF pending_migrations[l] = 0 THEN 0 ELSE pending_migrations[l] - 1
            ELSE pending_migrations[l]
      BY <1>0 DEF SettleMigration
    <3> QED BY <3>1, <3>2, <3>3 DEF Num
  <2> QED BY <2>1 DEF PendingNeverStuck
<1>2. settled' = [settled EXCEPT ![r.sequence] = @ + 1]
  BY DEF SettleMigration
<1>3. RedirectSettledOnce'
  <2>2. ASSUME NEW q \in minted.redirects
        PROVE  settled'[q.sequence] + Cardinality(Holding(q)') = 1
    <3>0. q.sequence \in RedirectIds /\ (q.sequence = r.sequence <=> q = r)
      BY DEF IInv, Exact, TypeOK, Redirects
    <3>1. /\ Cardinality(Holding(q)) \in Nat /\ Cardinality(Holding(q)') \in Nat
          /\ Cardinality(Holding(q)') = Cardinality(Holding(q)) - Num(q = r)
      <4>1. /\ Cardinality(Holding(q)) \in Nat /\ Cardinality(Holding(q)') \in Nat
            /\ Cardinality(Holding(q)') = Cardinality(Holding(q))
                    - Num(q \in Flying(sessions[s])) + Num(q \in Flying(sessions'[s]))
        BY FlightSizes
      <4>2. /\ Num(q \in Flying(sessions'[s])) = 0
            /\ Num(q \in Flying(sessions[s])) = Num(q = r) /\ Num(q = r) \in Nat
        BY DEF Num
      <4> QED BY <4>1, <4>2
    <3>2. settled[q.sequence] + Cardinality(Holding(q)) = 1 /\ settled[q.sequence] \in Nat
      BY <1>0, <3>0 DEF JInv, RedirectSettledOnce, Holding
    <3>3. settled'[q.sequence] = settled[q.sequence] + Num(q = r)
      BY <1>0, <1>2, <3>0 DEF Num
    <3> QED BY <3>1, <3>2, <3>3 DEF Num
  <2> QED BY <2>2 DEF RedirectSettledOnce, Holding
<1>4. UnmintedUnsettled'
  BY <1>0, <1>2 DEF JInv, UnmintedUnsettled, RedirectIds
<1> QED BY <1>1, <1>3, <1>4

-----------------------------------------------------------------------------
(* The second invariant, operation by operation                            *)

\* What KeyspaceKept says of one step.
Kept ==
    \A s \in SessionIds : IsActive(s) /\ sessions'[s].stage = "active" =>
        sessions'[s].assignment.keyspace = sessions[s].assignment.keyspace

\* The sessions stay as they are, and so do lists and gauges.
LEMMA QuietKeeps ==
    ASSUME IInv, JInv, UNCHANGED <<sessions, physical, pending_migrations, settled, minted, next>>
    PROVE  JInv' /\ Kept
<1>1. PendingNeverStuck' /\ RedirectSettledOnce' /\ UnmintedUnsettled'
  BY FlightsStay
<1>2. PhysicalIsOwned'
  <2>1. \A a \in AccountIds : OwnedBy(a)' = OwnedBy(a)
    BY DEF OwnedBy, IsActive
  <2> QED BY <2>1 DEF JInv, PhysicalIsOwned
<1>3. KeyspacesMatch' /\ Kept
  BY DEF JInv, KeyspacesMatch, IsActive, Kept
<1> QED BY <1>1, <1>2, <1>3 DEF JInv

LEMMA FreshAccount ==
    ASSUME IInv, AddAccount
    PROVE  next.account \in AccountIds /\ next.account \notin accounts
<1>1. next.account \in AccountIds
  BY BoundsAssumption DEF IInv, TypeOK, AddAccount, AccountIds, Counters
<1>2. next.account \notin accounts
  BY <1>1 DEF IInv, Exact, AccountIds
<1> QED BY <1>1, <1>2

LEMMA AddAccountKeeps ==
    ASSUME IInv, IInv', JInv, AddAccount
    PROVE  JInv' /\ Kept
<1>1. next'.redirect = next.redirect
  BY BumpType DEF IInv, TypeOK, AddAccount
<1>2. PendingNeverStuck' /\ RedirectSettledOnce' /\ UnmintedUnsettled'
  BY <1>1, FlightsStay DEF AddAccount, UnchangedMetrics
<1>3. KeyspacesMatch' /\ Kept
  BY DEF JInv, KeyspacesMatch, IsActive, Kept, AddAccount
<1>4. PhysicalIsOwned'
  <2> DEFINE a == next.account
  <2>1. a \in AccountIds /\ a \notin accounts
    BY FreshAccount
  <2>2. OwnedBy(a) = {}
    BY <2>1 DEF IInv, ChargedIsRetained, OwnedBy
  <2>3. \A b \in AccountIds : OwnedBy(b)' = OwnedBy(b)
    BY DEF OwnedBy, IsActive, AddAccount
  <2>4. physical' = [physical EXCEPT ![a] = <<>>]
    BY DEF AddAccount
  <2> HIDE DEF a
  <2>5. /\ physical'[a] = <<>>
        /\ \A b \in AccountIds : b # a => physical'[b] = physical[b]
    BY <2>1, <2>4 DEF IInv, TypeOK
  <2>6. ASSUME NEW b \in AccountIds
        PROVE  /\ {physical'[b][i] : i \in DOMAIN physical'[b]} = OwnedBy(b)'
               /\ \A i, j \in DOMAIN physical'[b] : physical'[b][i] = physical'[b][j] => i = j
    <3>1. CASE b = a
      BY <2>2, <2>3, <2>5, <3>1
    <3>2. CASE b # a
      BY <2>3, <2>5, <3>2 DEF JInv, PhysicalIsOwned
    <3> QED BY <3>1, <3>2
  <2> QED BY <2>6 DEF PhysicalIsOwned
<1> QED BY <1>2, <1>3, <1>4 DEF JInv

\* The lists of the accounts, account by account.
LEMMA ListsNow ==
    ASSUME IInv, JInv
    PROVE  /\ \A a \in AccountIds : Lists(physical[a], OwnedBy(a))
           /\ physical \in [AccountIds -> Seq(SessionIds)]
BY PhysicalLists DEF IInv, TypeOK, JInv

\* One session changes its stage; keyspaces.
LEMMA KeyspacesFollow ==
    ASSUME IInv, JInv, NEW s \in SessionIds, NEW new,
           sessions' = [sessions EXCEPT ![s] = new],
           new.stage = "active" => \A r \in new.redirect : r.to.keyspace = new.assignment.keyspace,
           IsActive(s) /\ new.stage = "active" =>
                new.assignment.keyspace = sessions[s].assignment.keyspace
    PROVE  KeyspacesMatch' /\ Kept
<1>0. sessions'[s] = new /\ \A t \in SessionIds : t # s => sessions'[t] = sessions[t]
  BY DEF IInv, TypeOK
<1>1. KeyspacesMatch'
  BY <1>0 DEF JInv, KeyspacesMatch, IsActive
<1>2. Kept
  BY <1>0 DEF Kept, IsActive
<1> QED BY <1>1, <1>2

\* One session changes its stage and no redirect takes off or lands.
LEMMA StageKeeps ==
    ASSUME IInv, IInv', JInv, NEW s \in SessionIds, NEW new,
           sessions' = [sessions EXCEPT ![s] = new],
           Flying(new) = Flying(sessions[s]),
           new.stage = "active" => \A r \in new.redirect : r.to.keyspace = new.assignment.keyspace,
           IsActive(s) /\ new.stage = "active" =>
                new.assignment.keyspace = sessions[s].assignment.keyspace,
           UNCHANGED <<pending_migrations, settled>>,
           minted'.redirects = minted.redirects, next'.redirect = next.redirect,
           \A a \in AccountIds :
                Lists(physical'[a], (OwnedBy(a) \ {s}) \union (IF Owns(new, a) THEN {s} ELSE {}))
    PROVE  JInv' /\ Kept
<1>0. sessions'[s] = new /\ \A t \in SessionIds : t # s => sessions'[t] = sessions[t]
  BY DEF IInv, TypeOK
<1>1. \A t \in SessionIds : Flying(sessions'[t]) = Flying(sessions[t])
  BY <1>0
<1>2. PendingNeverStuck' /\ RedirectSettledOnce' /\ UnmintedUnsettled'
  BY <1>1, FlightsStay
<1>3. PhysicalIsOwned'
  BY ListsFollow
<1>4. KeyspacesMatch' /\ Kept
  BY KeyspacesFollow
<1> QED BY <1>2, <1>3, <1>4 DEF JInv

\* The lists when they do not change and neither does the owner.
LEMMA ListsStay ==
    ASSUME IInv, JInv, physical' = physical, NEW s \in SessionIds, NEW new,
           \A a \in AccountIds : Owns(new, a) <=> Owns(sessions[s], a)
    PROVE  \A a \in AccountIds :
              Lists(physical'[a], (OwnedBy(a) \ {s}) \union (IF Owns(new, a) THEN {s} ELSE {}))
<1>1. ASSUME NEW a \in AccountIds
      PROVE  (OwnedBy(a) \ {s}) \union (IF Owns(new, a) THEN {s} ELSE {}) = OwnedBy(a)
  BY DEF OwnedBy, Owns, IsActive
<1> QED BY <1>1, ListsNow

\* A session that was not active lands on an account.
LEMMA ListsJoin ==
    ASSUME IInv, JInv, NEW s \in SessionIds, ~IsActive(s), NEW b \in AccountIds, NEW new,
           \A a \in AccountIds : Owns(new, a) <=> b = a,
           physical' = [physical EXCEPT ![b] = @ \o <<s>>]
    PROVE  \A a \in AccountIds :
              Lists(physical'[a], (OwnedBy(a) \ {s}) \union (IF Owns(new, a) THEN {s} ELSE {}))
<1>1. ASSUME NEW a \in AccountIds
      PROVE  Lists(physical'[a], (OwnedBy(a) \ {s}) \union (IF Owns(new, a) THEN {s} ELSE {}))
  <2>1. s \notin OwnedBy(a) /\ OwnedBy(a) \ {s} = OwnedBy(a)
    BY DEF OwnedBy
  <2>2. CASE a = b
    <3>1. physical'[a] = physical[a] \o <<s>>
      BY <2>2, ListsNow
    <3>2. Lists(physical[a] \o <<s>>, OwnedBy(a) \union {s})
      BY <2>1, ListsNow, AppendLists
    <3> QED BY <2>1, <2>2, <3>1, <3>2
  <2>3. CASE a # b
    <3>1. physical'[a] = physical[a]
      BY <2>3, ListsNow
    <3>2. (OwnedBy(a) \ {s}) \union (IF Owns(new, a) THEN {s} ELSE {}) = OwnedBy(a)
      BY <2>1, <2>3
    <3> QED BY <3>1, <3>2, ListsNow
  <2> QED BY <2>2, <2>3
<1> QED BY <1>1

\* An active session leaves its account.
LEMMA ListsLeave ==
    ASSUME IInv, JInv, NEW s \in SessionIds, IsActive(s),
           NEW list, list = [physical EXCEPT ![sessions[s].account] = Without(@, s)]
    PROVE  \A a \in AccountIds : Lists(list[a], OwnedBy(a) \ {s})
<1>1. ASSUME NEW a \in AccountIds
      PROVE  Lists(list[a], OwnedBy(a) \ {s})
  <2>1. CASE a = sessions[s].account
    <3>1. list[a] = Without(physical[a], s)
      BY <2>1, ListsNow
    <3> QED BY <3>1, ListsNow, WithoutLists
  <2>2. CASE a # sessions[s].account
    <3>1. list[a] = physical[a] /\ OwnedBy(a) \ {s} = OwnedBy(a)
      BY <2>2, ListsNow DEF OwnedBy
    <3> QED BY <3>1, ListsNow
  <2> QED BY <2>1, <2>2
<1> QED BY <1>1

\* Stages that fly nothing and own nothing.
LEMMA GroundStages ==
    /\ Flying(Absent) = {} /\ Flying(Idle) = {}
    /\ \A a : ~Owns(Absent, a) /\ ~Owns(Idle, a)
    /\ \A r : Flying(Pending(r)) = {} /\ (\A a : ~Owns(Pending(r), a))
               /\ Pending(r).stage = "pending"
BY DEF Flying, Owns, Absent, Idle, Pending

LEMMA NotFlying ==
    ASSUME NEW s \in SessionIds, ~IsActive(s)
    PROVE  Flying(sessions[s]) = {} /\ \A a : ~Owns(sessions[s], a)
BY DEF IsActive, Flying, Owns

LEMMA OpenKeeps ==
    ASSUME IInv, IInv', JInv, Open
    PROVE  JInv' /\ Kept
<1> DEFINE s == next.session
<1>1. next'.redirect = next.redirect /\ minted' = minted /\ physical' = physical
      /\ UNCHANGED <<pending_migrations, settled>> /\ sessions' = [sessions EXCEPT ![s] = Idle]
  BY BumpType DEF IInv, TypeOK, Open, UnchangedMetrics
<1>2. s \in SessionIds
  BY BoundsAssumption DEF IInv, TypeOK, Open, SessionIds, Counters
<1>3. sessions[s] = Absent
  BY <1>2 DEF IInv, Exact, SessionIds
<1> HIDE DEF s
<1>4. \A a \in AccountIds :
        Lists(physical'[a], (OwnedBy(a) \ {s}) \union (IF Owns(Idle, a) THEN {s} ELSE {}))
  BY <1>1, <1>2, <1>3, GroundStages, ListsStay
<1> QED BY <1>1, <1>2, <1>3, <1>4, GroundStages, IdleIsNot, StageKeeps

LEMMA ReserveKeeps ==
    ASSUME IInv, IInv', JInv, NEW s \in SessionIds, NEW a \in AccountIds, NEW asg \in Assignments,
           Reserve(s, a, asg)
    PROVE  JInv' /\ Kept
<1>1. PICK r : sessions' = [sessions EXCEPT ![s] = Pending(r)]
  BY DEF Reserve
<1>2. /\ next'.redirect = next.redirect /\ minted'.redirects = minted.redirects
      /\ physical' = physical /\ UNCHANGED <<pending_migrations, settled>> /\ sessions[s] = Idle
  BY BumpType DEF IInv, TypeOK, Reserve, UnchangedMetrics, Mint
<1>3. \A b \in AccountIds :
        Lists(physical'[b], (OwnedBy(b) \ {s}) \union (IF Owns(Pending(r), b) THEN {s} ELSE {}))
  BY <1>2, GroundStages, ListsStay
<1> QED BY <1>1, <1>2, <1>3, GroundStages, StageKeeps

\* The stage of a connection that was just made.
LEMMA FreshActive ==
    ASSUME NEW a, NEW asg, NEW new, new = Active(a, asg, {}, {}, {})
    PROVE  /\ Flying(new) = {} /\ \A b : Owns(new, b) <=> a = b
           /\ \A r \in new.redirect : r.to.keyspace = new.assignment.keyspace
BY DEF Active, Flying, Owns

LEMMA RehydrateKeeps ==
    ASSUME IInv, IInv', JInv, NEW s \in SessionIds, NEW a \in AccountIds, NEW asg \in Assignments,
           Rehydrate(s, a, asg)
    PROVE  JInv' /\ Kept
<1> DEFINE new == Active(a, asg, {}, {}, {})
<1>1. /\ next'.redirect = next.redirect /\ minted'.redirects = minted.redirects
      /\ UNCHANGED <<pending_migrations, settled>>
      /\ sessions[s] = Idle /\ sessions' = [sessions EXCEPT ![s] = new]
      /\ physical' = [physical EXCEPT ![a] = @ \o <<s>>]
  BY BumpType DEF IInv, TypeOK, Rehydrate
<1>2. ~IsActive(s)
  BY <1>1, IdleIsNot DEF IsActive
<1>3. /\ Flying(new) = {} /\ \A b : Owns(new, b) <=> a = b
      /\ \A r \in new.redirect : r.to.keyspace = new.assignment.keyspace
  BY FreshActive
<1> HIDE DEF new
<1>4. \A b \in AccountIds :
        Lists(physical'[b], (OwnedBy(b) \ {s}) \union (IF Owns(new, b) THEN {s} ELSE {}))
  BY <1>1, <1>2, <1>3, ListsJoin
<1> QED BY <1>1, <1>2, <1>3, <1>4, NotFlying, StageKeeps

LEMMA FinishKeeps ==
    ASSUME IInv, IInv', JInv, NEW r \in minted.reservations, NEW connected \in BOOLEAN,
           Finish(r, connected)
    PROVE  JInv' /\ Kept
<1> DEFINE s == r.session
           a == r.account
<1>1. s \in SessionIds /\ a \in AccountIds
  BY DEF IInv, TypeOK, Reservations
<1>2. ~IsActive(s)
  BY DEF Finish, SettlesAttempt, IsPending, IsActive
<1>3. next' = next /\ minted' = minted /\ UNCHANGED <<pending_migrations, settled>>
  BY DEF Finish
<1>4. CASE connected
  <2> DEFINE new == Active(a, r.assignment, {}, {}, {})
  <2>1. /\ physical' = [physical EXCEPT ![a] = @ \o <<s>>]
        /\ sessions' = [sessions EXCEPT ![s] = new]
    BY <1>4 DEF Finish
  <2>2. /\ Flying(new) = {} /\ \A b : Owns(new, b) <=> a = b
        /\ \A q \in new.redirect : q.to.keyspace = new.assignment.keyspace
    BY FreshActive
  <2> HIDE DEF new, s, a
  <2>3. \A b \in AccountIds :
          Lists(physical'[b], (OwnedBy(b) \ {s}) \union (IF Owns(new, b) THEN {s} ELSE {}))
    BY <1>1, <1>2, <2>1, <2>2, ListsJoin
  <2> QED BY <1>1, <1>2, <1>3, <2>1, <2>2, <2>3, NotFlying, StageKeeps
<1>5. CASE ~connected
  <2>1. physical' = physical /\ sessions' = [sessions EXCEPT ![s] = Idle]
    BY <1>5 DEF Finish
  <2> HIDE DEF s, a
  <2>2. \A b \in AccountIds :
          Lists(physical'[b], (OwnedBy(b) \ {s}) \union (IF Owns(Idle, b) THEN {s} ELSE {}))
    BY <1>1, <1>2, <2>1, GroundStages, NotFlying, ListsStay
  <2> QED BY <1>1, <1>2, <1>3, <2>1, <2>2, GroundStages, IdleIsNot, NotFlying, StageKeeps
<1> QED BY <1>4, <1>5

\* An active session changes in a field that neither owns nor flies.
LEMMA FieldKeeps ==
    ASSUME IInv, IInv', JInv, NEW s \in SessionIds, IsActive(s), NEW new,
           new.stage = "active", new.account = sessions[s].account,
           new.redirect = sessions[s].redirect, new.assignment = sessions[s].assignment,
           sessions' = [sessions EXCEPT ![s] = new],
           UNCHANGED <<physical, pending_migrations, settled>>,
           minted'.redirects = minted.redirects, next'.redirect = next.redirect
    PROVE  JInv' /\ Kept
<1>1. Flying(new) = Flying(sessions[s]) /\ \A a : Owns(new, a) <=> Owns(sessions[s], a)
  BY DEF Flying, Owns, IsActive
<1>2. \A r \in new.redirect : r.to.keyspace = new.assignment.keyspace
  BY DEF JInv, KeyspacesMatch
<1>3. \A b \in AccountIds :
        Lists(physical'[b], (OwnedBy(b) \ {s}) \union (IF Owns(new, b) THEN {s} ELSE {}))
  BY <1>1, ListsStay
<1> QED BY <1>1, <1>2, <1>3, StageKeeps

\* An active stage with one field replaced, field by field.
LEMMA EditedFields ==
    ASSUME NEW x \in ActiveStages, NEW v
    PROVE  /\ LET y == [x EXCEPT !.failed_at = v]
              IN  y.stage = "active" /\ y.account = x.account /\ y.redirect = x.redirect
                  /\ y.assignment = x.assignment
           /\ LET y == [x EXCEPT !.closing = v]
              IN  y.stage = "active" /\ y.account = x.account /\ y.redirect = x.redirect
                  /\ y.assignment = x.assignment
           /\ LET y == [x EXCEPT !.redirect = v]
              IN  y.stage = "active" /\ y.account = x.account /\ y.redirect = v
                  /\ y.assignment = x.assignment
BY DEF ActiveStages

LEMMA CooldownKeeps ==
    ASSUME IInv, IInv', JInv, NEW s \in SessionIds, IsActive(s), StartCooldown(s)
    PROVE  JInv' /\ Kept
<1> DEFINE new == [sessions[s] EXCEPT !.failed_at = {now}]
<1>1. new.stage = "active" /\ new.account = sessions[s].account
      /\ new.redirect = sessions[s].redirect /\ new.assignment = sessions[s].assignment
  BY ActiveFacts, EditedFields
<1>2. sessions' = [sessions EXCEPT ![s] = new]
  BY DEF StartCooldown
<1> HIDE DEF new
<1> QED BY <1>1, <1>2, FieldKeeps DEF StartCooldown, UnchangedMetrics

LEMMA OfferCloseKeeps ==
    ASSUME IInv, IInv', JInv, NEW s \in SessionIds, NEW accepted \in BOOLEAN,
           OfferClose(s, accepted)
    PROVE  JInv' /\ Kept
<1>0. IsActive(s)
  BY DEF OfferClose
<1>1. CASE accepted
  <2> DEFINE close == [session |-> s, sequence |-> next.close]
             new == [sessions[s] EXCEPT !.closing = {close}]
  <2>1. new.stage = "active" /\ new.account = sessions[s].account
        /\ new.redirect = sessions[s].redirect /\ new.assignment = sessions[s].assignment
    <3> HIDE DEF close
    <3> QED BY <1>0, ActiveFacts, EditedFields
  <2>2. /\ sessions' = [sessions EXCEPT ![s] = new]
        /\ Bump("close") /\ minted' = [minted EXCEPT !.closes = @ \union {close}]
        /\ UNCHANGED <<physical, pending_migrations, settled>>
    BY <1>1 DEF OfferClose, Mint, UnchangedMetrics
  <2> HIDE DEF new, close
  <2>3. next'.redirect = next.redirect /\ minted'.redirects = minted.redirects
    BY <2>2 DEF Bump, IInv, TypeOK, Counters
  <2> QED BY <1>0, <2>1, <2>2, <2>3, FieldKeeps
<1>2. CASE ~accepted
  <2>1. StartCooldown(s)
    BY <1>2 DEF OfferClose
  <2> QED BY <1>0, <2>1, CooldownKeeps
<1> QED BY <1>1, <1>2

LEMMA AdmitKeeps ==
    ASSUME IInv, IInv', JInv, NEW s \in SessionIds, NEW t \in AccountIds, NEW asg \in Assignments,
           NEW reason \in Reasons,
           Redirectable(s), ScoreCanMove(sessions[s].account, t),
           asg.keyspace = sessions[s].assignment.keyspace,
           AdmitRedirect(PreparedRedirect(s, t, asg, reason))
    PROVE  JInv' /\ Kept
<1> DEFINE r == PreparedRedirect(s, t, asg, reason)
           new == [sessions[s] EXCEPT !.redirect = {r}]
<1>0. IsActive(s) /\ sessions[s].redirect = {}
  BY DEF Redirectable
<1>1. /\ r.session = s /\ r.sequence = next.redirect
      /\ r.to.keyspace = sessions[s].assignment.keyspace
  BY DEF PreparedRedirect
<1>2. /\ next'.redirect = next.redirect + 1
  BY BumpType DEF IInv, TypeOK, AdmitRedirect, ScoreCanMove
<1>3. /\ sessions' = [sessions EXCEPT ![r.session].redirect = {r}]
      /\ minted' = [minted EXCEPT !.redirects = @ \union {r}]
      /\ physical' = physical /\ settled' = settled
      /\ IssueMigration(r)
  BY DEF AdmitRedirect, Mint
<1> HIDE DEF r
<1>4. /\ new.stage = "active" /\ new.account = sessions[s].account
      /\ new.redirect = {r} /\ new.assignment = sessions[s].assignment
  BY <1>0, ActiveFacts, EditedFields
<1>5. sessions' = [sessions EXCEPT ![s] = new]
  BY <1>1, <1>3
<1> HIDE DEF new
<1>6. minted'.redirects = minted.redirects \union {r} /\ r \in Redirects
  BY <1>3 DEF IInv, TypeOK
<1>7. /\ sessions'[s] = new /\ \A u \in SessionIds : u # s => sessions'[u] = sessions[u]
      /\ Flying(sessions[s]) = {} /\ Flying(new) = {r}
      /\ \A a : Owns(new, a) <=> Owns(sessions[s], a)
  BY <1>0, <1>4, <1>5 DEF IInv, TypeOK, Flying, Owns, IsActive
<1>8. PendingNeverStuck' /\ RedirectSettledOnce' /\ UnmintedUnsettled'
  <2>1. \A u \in SessionIds : u # s => Flying(sessions'[u]) = Flying(sessions[u])
    BY <1>7
  <2> QED BY <1>1, <1>2, <1>3, <1>6, <1>7, <2>1, FlightBegins
<1>9. KeyspacesMatch' /\ Kept
  BY <1>1, <1>4, <1>5, KeyspacesFollow
<1>10. PhysicalIsOwned'
  <2>1. \A b \in AccountIds :
          Lists(physical'[b], (OwnedBy(b) \ {s}) \union (IF Owns(new, b) THEN {s} ELSE {}))
    BY <1>3, <1>7, ListsStay
  <2> QED BY <1>5, <2>1, ListsFollow
<1> QED BY <1>8, <1>9, <1>10 DEF JInv

LEMMA FinishRedirectKeeps ==
    ASSUME IInv, IInv', JInv, NEW r \in minted.redirects, NEW success \in BOOLEAN,
           FinishRedirect(r, success)
    PROVE  JInv' /\ Kept
<1> DEFINE s == r.session
           a == sessions[s].account
<1>1. /\ s \in SessionIds /\ IsActive(s) /\ sessions[s].redirect = {r} /\ r.source = a
      /\ r.source \in AccountIds /\ r.target \in AccountIds
  BY SettlesPending DEF FinishRedirect
<1>2. sessions[s] \in ActiveStages /\ Flying(sessions[s]) = {r}
  BY <1>1, ActiveFacts DEF Flying, IsActive
<1>3. next' = next /\ minted' = minted
  BY DEF FinishRedirect
<1>4. r.to.keyspace = sessions[s].assignment.keyspace
  BY <1>1 DEF JInv, KeyspacesMatch
<1>5. CASE success
  <2> DEFINE new == Active(r.target, r.to, {}, {}, sessions[s].closing)
             left == [physical EXCEPT ![r.source] = Without(@, s)]
             h == RememberBackend(RememberBackend(history, r.to.address), r.from.address)
  <2>1. /\ physical' = [left EXCEPT ![r.target] = @ \o <<s>>]
        /\ sessions' = [sessions EXCEPT ![s] = new]
        /\ SettleMigration(h, r, TRUE)
    BY <1>5 DEF FinishRedirect
  <2>2. /\ new.stage = "active" /\ new.redirect = {} /\ new.assignment = r.to
        /\ Flying(new) = {} /\ \A b : Owns(new, b) <=> r.target = b
    BY DEF Active, Flying, Owns
  <2>3. \A b \in AccountIds : Lists(left[b], OwnedBy(b) \ {s})
    BY <1>1, ListsLeave
  <2>4. left \in [AccountIds -> Seq(SessionIds)]
    BY <1>1, WithoutType, ListsNow
  <2> HIDE DEF s, a, new, left, h
  <2>5. sessions'[s] = new /\ \A u \in SessionIds : u # s => sessions'[u] = sessions[u]
    BY <1>1, <2>1 DEF IInv, TypeOK
  <2>6. PendingNeverStuck' /\ RedirectSettledOnce' /\ UnmintedUnsettled'
    <3>1. \A u \in SessionIds : u # s => Flying(sessions'[u]) = Flying(sessions[u])
      BY <2>5
    <3>2. Flying(sessions'[s]) = {}
      BY <2>2, <2>5
    <3> QED BY <1>1, <1>2, <1>3, <2>1, <3>1, <3>2, FlightEnds
  <2>7. KeyspacesMatch' /\ Kept
    BY <1>1, <1>4, <2>1, <2>2, KeyspacesFollow
  <2>8. PhysicalIsOwned'
    <3>1. ASSUME NEW b \in AccountIds
          PROVE  Lists(physical'[b], (OwnedBy(b) \ {s}) \union (IF Owns(new, b) THEN {s} ELSE {}))
      <4>1. CASE b = r.target
        <5>1. physical'[b] = left[b] \o <<s>>
          BY <1>1, <2>1, <2>4, <4>1
        <5>2. Lists(left[b] \o <<s>>, (OwnedBy(b) \ {s}) \union {s})
          <6>1. s \notin OwnedBy(b) \ {s} /\ Lists(left[b], OwnedBy(b) \ {s})
            BY <2>3
          <6> QED BY <1>1, <6>1, AppendLists
        <5>3. Owns(new, b)
          BY <2>2, <4>1
        <5> QED BY <5>1, <5>2, <5>3
      <4>2. CASE b # r.target
        <5>1. physical'[b] = left[b]
          BY <1>1, <2>1, <2>4, <4>2
        <5>2. ~Owns(new, b)
          BY <2>2, <4>2
        <5>3. (OwnedBy(b) \ {s}) \union (IF Owns(new, b) THEN {s} ELSE {}) = OwnedBy(b) \ {s}
          BY <5>2
        <5> QED BY <2>3, <5>1, <5>3
      <4> QED BY <4>1, <4>2
    <3> QED BY <1>1, <2>1, <3>1, ListsFollow
  <2> QED BY <2>6, <2>7, <2>8 DEF JInv
<1>6. CASE ~success
  <2> DEFINE new == [sessions[s] EXCEPT !.redirect = {}, !.failed_at = {r.issued_at}]
  <2>1. /\ sessions' = [sessions EXCEPT ![s].redirect = {}, ![s].failed_at = {r.issued_at}]
        /\ SettleMigration(history, r, FALSE)
        /\ physical' = physical
    BY <1>6 DEF FinishRedirect
  <2>2. /\ new.stage = "active" /\ new.redirect = {} /\ new.account = a
        /\ new.assignment = sessions[s].assignment
    BY <1>2 DEF ActiveStages
  <2>3. sessions' = [sessions EXCEPT ![s] = new]
    BY <1>1, <2>1 DEF IInv, TypeOK
  <2>4. Flying(new) = {} /\ \A b : Owns(new, b) <=> Owns(sessions[s], b)
    <3> HIDE DEF new
    <3> QED BY <1>1, <2>2 DEF Flying, Owns, IsActive
  <2> HIDE DEF s, a, new
  <2>5. sessions'[s] = new /\ \A u \in SessionIds : u # s => sessions'[u] = sessions[u]
    BY <1>1, <2>3 DEF IInv, TypeOK
  <2>6. PendingNeverStuck' /\ RedirectSettledOnce' /\ UnmintedUnsettled'
    <3>1. \A u \in SessionIds : u # s => Flying(sessions'[u]) = Flying(sessions[u])
      BY <2>5
    <3>2. Flying(sessions'[s]) = {}
      BY <2>4, <2>5
    <3> QED BY <1>1, <1>2, <1>3, <2>1, <3>1, <3>2, FlightEnds
  <2>7. KeyspacesMatch' /\ Kept
    BY <1>1, <2>2, <2>3, KeyspacesFollow
  <2>8. PhysicalIsOwned'
    <3>1. \A b \in AccountIds :
            Lists(physical'[b], (OwnedBy(b) \ {s}) \union (IF Owns(new, b) THEN {s} ELSE {}))
      BY <1>1, <2>1, <2>4, ListsStay
    <3> QED BY <1>1, <2>3, <3>1, ListsFollow
  <2> QED BY <2>6, <2>7, <2>8 DEF JInv
<1> QED BY <1>5, <1>6

LEMMA CloseKeeps ==
    ASSUME IInv, IInv', JInv, NEW s \in SessionIds, sessions[s] # Absent, CloseSession(s)
    PROVE  JInv' /\ Kept
<1>1. /\ sessions' = [sessions EXCEPT ![s] = Absent]
      /\ next' = next /\ minted' = minted
  BY DEF CloseSession
<1>2. CASE ~IsActive(s)
  <2>1. UNCHANGED <<physical, pending_migrations, settled>>
    BY <1>2 DEF CloseSession, UnchangedMetrics
  <2>2. \A b \in AccountIds :
          Lists(physical'[b], (OwnedBy(b) \ {s}) \union (IF Owns(Absent, b) THEN {s} ELSE {}))
    BY <1>2, <2>1, GroundStages, NotFlying, ListsStay
  <2> QED BY <1>1, <1>2, <2>1, <2>2, GroundStages, IdleIsNot, NotFlying, StageKeeps
<1>3. CASE IsActive(s)
  <2> DEFINE a == sessions[s].account
             h == RememberBackend(history, sessions[s].assignment.address)
  <2>1. /\ physical' = [physical EXCEPT ![a] = Without(@, s)]
        /\ \/ /\ sessions[s].redirect = {}
              /\ UNCHANGED <<pending_migrations, settled>>
           \/ \E r \in sessions[s].redirect : SettleMigration(h, r, FALSE)
    BY <1>3, IdleIsNot DEF CloseSession, IsPending, IsActive
  <2>2. \A b \in AccountIds :
          Lists(physical'[b], (OwnedBy(b) \ {s}) \union (IF Owns(Absent, b) THEN {s} ELSE {}))
    <3>1. \A b \in AccountIds : Lists(physical'[b], OwnedBy(b) \ {s})
      BY <1>3, <2>1, ListsLeave
    <3>2. ASSUME NEW b \in AccountIds
          PROVE  (OwnedBy(b) \ {s}) \union (IF Owns(Absent, b) THEN {s} ELSE {}) = OwnedBy(b) \ {s}
      BY GroundStages
    <3> QED BY <3>1, <3>2
  <2>3. CASE sessions[s].redirect = {}
    <3>1. UNCHANGED <<pending_migrations, settled>>
      BY <2>1, <2>3
    <3>2. Flying(sessions[s]) = {}
      BY <1>3, <2>3 DEF Flying
    <3> HIDE DEF a, h
    <3> QED BY <1>1, <2>2, <3>1, <3>2, GroundStages, IdleIsNot, StageKeeps
  <2>4. CASE sessions[s].redirect # {}
    <3>1. PICK r \in sessions[s].redirect : SettleMigration(h, r, FALSE)
      BY <2>1, <2>4
    <3>2. r \in minted.redirects /\ sessions[s].redirect = {r}
      BY <1>3, ActiveFacts
    <3>3. Flying(sessions[s]) = {r}
      BY <1>3, <3>2 DEF Flying, IsActive
    <3> HIDE DEF a, h
    <3>4. sessions'[s] = Absent /\ \A u \in SessionIds : u # s => sessions'[u] = sessions[u]
      BY <1>1 DEF IInv, TypeOK
    <3>5. PendingNeverStuck' /\ RedirectSettledOnce' /\ UnmintedUnsettled'
      <4>1. \A u \in SessionIds : u # s => Flying(sessions'[u]) = Flying(sessions[u])
        BY <3>4
      <4>2. Flying(sessions'[s]) = {}
        BY <3>4, GroundStages
      <4> QED BY <1>1, <3>1, <3>2, <3>3, <4>1, <4>2, FlightEnds
    <3>6. KeyspacesMatch' /\ Kept
      BY <1>1, IdleIsNot, KeyspacesFollow
    <3>7. PhysicalIsOwned'
      BY <1>1, <2>2, ListsFollow
    <3> QED BY <3>5, <3>6, <3>7 DEF JInv
  <2> QED BY <2>3, <2>4
<1> QED BY <1>2, <1>3

LEMMA InitJInv ==
    ASSUME Init
    PROVE  JInv
<1>1. \A s \in SessionIds : ~IsActive(s)
  BY IdleIsNot DEF Init, IsActive
<1>2. PhysicalIsOwned
  BY <1>1 DEF Init, PhysicalIsOwned, OwnedBy
<1>3. PendingNeverStuck
  <2>1. \A l \in MigrationLabels : InFlight(l) = {} /\ pending_migrations[l] = 0
    BY <1>1 DEF Init, InFlight
  <2> QED BY <2>1, FS_EmptySet DEF PendingNeverStuck
<1>4. RedirectSettledOnce /\ UnmintedUnsettled /\ KeyspacesMatch
  BY <1>1 DEF Init, RedirectSettledOnce, UnmintedUnsettled, KeyspacesMatch
<1> QED BY <1>2, <1>3, <1>4 DEF JInv

\* Every operation preserves the second invariant and keeps keyspaces.
LEMMA NextJInv ==
    ASSUME IInv, IInv', JInv, Next
    PROVE  JInv' /\ Kept
<1>1. CASE Open
  BY <1>1, OpenKeeps
<1>2. CASE AddAccount
  BY <1>2, AddAccountKeeps
<1>3. CASE \/ Tick
           \/ \E n \in SessionLimits : SetMaxSessions(n)
           \/ \E a \in AccountIds : Prune(a)
           \/ \E labels \in MigrationLabels : OtherRouterIssues(labels)
           \/ \E address \in Addresses : RetireBackend(address)
  <2>1. UNCHANGED <<sessions, physical, pending_migrations, settled, minted, next>>
    BY <1>3 DEF Tick, SetMaxSessions, Prune, OtherRouterIssues, RetireBackend, UnchangedMetrics
  <2> QED BY <2>1, QuietKeeps
<1>4. ASSUME NEW s \in SessionIds, NEW a \in AccountIds, NEW asg \in Assignments
      PROVE  Reserve(s, a, asg) \/ Rehydrate(s, a, asg) => JInv' /\ Kept
  BY <1>4, ReserveKeeps, RehydrateKeeps
<1>5. ASSUME NEW s \in SessionIds, NEW a \in AccountIds, NEW asg \in Assignments,
             NEW reason \in Reasons, NEW accepted \in BOOLEAN,
             OfferRedirect(s, a, asg, reason, accepted)
      PROVE  JInv' /\ Kept
  <2>1. /\ IsActive(s) /\ Redirectable(s) /\ ScoreCanMove(sessions[s].account, a)
        /\ asg.keyspace = sessions[s].assignment.keyspace
    BY <1>5 DEF OfferRedirect, CanRedirect, Redirectable
  <2>2. AdmitRedirect(PreparedRedirect(s, a, asg, reason)) \/ StartCooldown(s)
    BY <1>5 DEF OfferRedirect
  <2> QED BY <2>1, <2>2, AdmitKeeps, CooldownKeeps
<1>6. ASSUME NEW s \in SessionIds, NEW accepted \in BOOLEAN, OfferSelfRedirect(s, accepted)
      PROVE  JInv' /\ Kept
  <2>1. /\ IsActive(s) /\ Redirectable(s)
        /\ ScoreCanMove(sessions[s].account, sessions[s].account)
    BY <1>6 DEF OfferSelfRedirect, CanRedirectToSelf, Redirectable
  <2>2. \/ AdmitRedirect(PreparedRedirect(s, sessions[s].account,
                                          sessions[s].assignment, TestReason))
        \/ StartCooldown(s)
    BY <1>6 DEF OfferSelfRedirect
  <2>3. sessions[s].account \in AccountIds /\ sessions[s].assignment \in Assignments
    BY <2>1, ActiveFacts
  <2> QED BY <2>1, <2>2, <2>3, BoundsAssumption, AdmitKeeps, CooldownKeeps
<1>7. ASSUME NEW s \in SessionIds PROVE RejectKeyspace(s) \/ Close(s) => JInv' /\ Kept
  BY <1>7, CooldownKeeps, CloseKeeps DEF RejectKeyspace, Redirectable, Close
<1>8. ASSUME NEW s \in SessionIds, NEW accepted \in BOOLEAN, OfferClose(s, accepted)
      PROVE  JInv' /\ Kept
  BY <1>8, OfferCloseKeeps
<1>9. ASSUME NEW r \in minted.reservations, NEW connected \in BOOLEAN, Finish(r, connected)
      PROVE  JInv' /\ Kept
  BY <1>9, FinishKeeps
<1>10. ASSUME NEW r \in minted.redirects, NEW success \in BOOLEAN, FinishRedirect(r, success)
       PROVE  JInv' /\ Kept
  BY <1>10, FinishRedirectKeeps
<1>11. ASSUME NEW close \in minted.closes, ObserveClose(close) PROVE JInv' /\ Kept
  <2>1. close.session \in SessionIds
    BY <1>11 DEF IInv, TypeOK, ForceCloses
  <2>2. sessions[close.session] # Absent /\ CloseSession(close.session)
    BY <1>11, <2>1, ActiveFacts DEF ObserveClose
  <2> QED BY <2>1, <2>2, CloseKeeps
<1> QED BY <1>1, <1>2, <1>3, <1>4, <1>5, <1>6, <1>7, <1>8, <1>9, <1>10, <1>11 DEF Next

LEMMA StepJInv == IInv /\ JInv /\ [Next]_vars => IInv' /\ JInv' /\ Kept
<1> SUFFICES ASSUME IInv, JInv, [Next]_vars PROVE IInv' /\ JInv' /\ Kept
  OBVIOUS
<1>1. CASE Next
  BY <1>1, NextInv, NextJInv
<1>2. CASE UNCHANGED vars
  BY <1>2, StutterInv, QuietKeeps DEF vars
<1> QED BY <1>1, <1>2

LEMMA BothInvariants == Spec => [](IInv /\ JInv)
<1>1. Init => IInv /\ JInv
  BY InitInv, InitJInv
<1> QED BY <1>1, StepJInv, PTL DEF Spec

\* No order of settlement, close and retirement leaves the pending gauge
\* holding a migration that is not in flight.
THEOREM PendingIsInFlight == Spec => []PendingNeverStuck
<1>1. JInv => PendingNeverStuck
  BY DEF JInv
<1> QED BY BothInvariants, <1>1, PTL

\* Lists, score and settlements agree with the sessions at every instant.
THEOREM Consistency == Spec => []LedgerConsistent
<1>1. IInv => ScoreNeverUnderflows
  <2>1. ASSUME IInv, NEW a \in AccountIds
        PROVE  counts[a].outgoing <= counts[a].active
    <3>1. LeavingFrom(a) \in SUBSET OwnedBy(a)
      BY <2>1 DEF LeavingFrom, OwnedBy, IInv, Exact
    <3>2. IsFiniteSet(OwnedBy(a))
      BY SessionSetsFinite DEF OwnedBy
    <3>3. Cardinality(LeavingFrom(a)) <= Cardinality(OwnedBy(a))
      BY <3>1, <3>2, FS_Subset
    <3> QED BY <2>1, <3>3 DEF IInv, CountsMatchSessions
  <2> QED BY <2>1 DEF ScoreNeverUnderflows
<1>2. IInv /\ JInv => LedgerConsistent
  BY <1>1 DEF IInv, JInv, LedgerConsistent
<1> QED BY BothInvariants, <1>2, PTL

\* A session never leaves the keyspace it connected to, however often it is
\* migrated and whichever terminals arrive late.
THEOREM KeyspacesHold == Spec => KeyspaceKept
<1>1. IInv /\ JInv /\ [Next]_vars => Kept
  BY StepJInv
<1>2. Kept => [\A s \in SessionIds : IsActive(s) /\ sessions'[s].stage = "active" =>
                sessions'[s].assignment.keyspace = sessions[s].assignment.keyspace]_vars
  BY DEF Kept
<1> QED BY BothInvariants, <1>1, <1>2, PTL DEF Spec, KeyspaceKept
=============================================================================
