--------------------------- MODULE AdmissionProofs ---------------------------
(***************************************************************************)
(* Proofs about Admission, for any number of listeners, places, policies   *)
(* and reloads.  The invariant has one part per resource: who has a place  *)
(* in hand (PlacesHeld), what the shutdown has reached (StopsInOrder), the *)
(* ids handed out (IdsAscend), the gauges (GaugesAreExact and the limit    *)
(* of each seat) and the memory reading (ReadingTracked).                  *)
(***************************************************************************)
EXTENDS Admission, FiniteSetTheorems, WellFoundedInduction, TLAPS

\* A listener has a place in hand exactly while it decides about a socket, the
\* place is free until the permit is given, and no two have the same.
PlacesHeld ==
    /\ \A l \in Listeners :
        /\ listener[l].pc = "captured" =>
              listener[l].conn \in Conns /\ conn[listener[l].conn] = Free
        /\ listener[l].pc = "admitted" =>
              listener[l].conn \in Conns /\ conn[listener[l].conn].phase = "permit"
        /\ listener[l].pc \in {"captured", "admitted"} => listener[l].snap \in bounds.policies
        /\ listener[l].pc \notin {"captured", "admitted"} => listener[l].conn = Never
    /\ \A l, m \in Listeners :
        l # m /\ listener[l].conn # Never => listener[l].conn # listener[m].conn

\* What the force phase does is done after it began.
StopsInOrder ==
    /\ server # "running" => shutdown
    /\ \A l \in Listeners :
        listener[l].cancelled \/ listener[l].pc \in {"join", "abort", "returned"} => shutdown

\* The ids in use have been handed out.
IdsAscend == \A i \in DOMAIN registry : i < nextId

\* The reading the controller uses is the one in the cache, and its baseline is
\* the reservation when that reading was made.
ReadingTracked == sampledAt = cache.at /\ (cache.at # Never => baseline = seen)

\* The gauges, with what makes their sizes well defined.
GaugesTracked == GaugesAreExact /\ IsFiniteSet(Reserved) /\ SeatsFitTheirLimit

\* The inductive invariant.
IInv ==
    /\ TypeOK /\ PlacesHeld /\ StopsInOrder
    /\ IdsAscend /\ RegistryIsExact /\ GaugesTracked /\ DrainIsGraceful
    /\ ReadingTracked /\ MemoryIsBounded /\ OpenOnlyWhenBlind

-----------------------------------------------------------------------------
(* Operators                                                               *)

LEMMA MaxPair ==
    ASSUME NEW x \in Int, NEW y \in Int
    PROVE  Max({x, y}) = IF x >= y THEN x ELSE y
BY DEF Max

LEMMA MinExists ==
    ASSUME NEW S \in SUBSET Nat, S # {}
    PROVE  Min(S) \in S
<1> DEFINE R == {ss \in Nat \X Nat : ss[1] < ss[2]}
<1>1. R = OpToRel(<, Nat)
  BY Zenon DEF OpToRel
<1>2. IsWellFoundedOn(R, Nat)
  BY <1>1, NatLessThanWellFounded, Zenon
<1>3. \E x \in S : \A y \in S : ~(<<y, x>> \in R)
  BY <1>2, WFMin
<1>r. \A x, y \in Nat : y < x => <<y, x>> \in R
  OBVIOUS
<1> HIDE DEF R
<1>4. \E x \in S : \A y \in S : x <= y
  <2>1. PICK x \in S : \A y \in S : ~(<<y, x>> \in R)
    BY <1>3
  <2>2. ASSUME NEW y \in S PROVE x <= y
    <3>1. x \in Nat /\ y \in Nat
      OBVIOUS
    <3>2. ~(y < x)
      BY <1>r, <2>1, <3>1
    <3> QED BY <3>1, <3>2
  <2> QED BY <2>2
<1> QED BY <1>4 DEF Min

LEMMA BoundsTyped ==
    ASSUME bounds \in Bounds
    PROVE  /\ bounds.listeners \subseteq Listeners /\ bounds.conns \subseteq Conns
           /\ bounds.policies \subseteq Policy /\ bounds.used \subseteq Nat
           /\ bounds.id \in Nat \ {0} /\ bounds.refresh \in Nat \ {0}
           /\ bounds.expiry \in Nat /\ bounds.time \in Nat
           /\ bounds.stops \in BOOLEAN /\ bounds.live \in BOOLEAN
           /\ bounds.graces \subseteq BOOLEAN
BY DEF Bounds

LEMMA PolicyTyped ==
    ASSUME NEW p \in Policy
    PROVE  /\ p.max \in Nat /\ p.threshold \in Nat /\ p.buffer \in Nat
BY DEF Policy

LEMMA PlaceSetsFinite ==
    ASSUME NEW S \in SUBSET Conns
    PROVE  IsFiniteSet(S) /\ Cardinality(S) \in Nat
BY PlacesAssumption, FS_Subset, FS_CardinalityType

\* The bytes of one place, as a set.
LEMMA BytesOfPlace ==
    ASSUME NEW c, NEW n \in Nat
    PROVE  IsFiniteSet({c} \X (1..n)) /\ Cardinality({c} \X (1..n)) = n
<1>1. IsFiniteSet(1..n) /\ Cardinality(1..n) = n
  BY FS_Interval
<1>2. IsFiniteSet({c}) /\ Cardinality({c}) = 1
  BY FS_Singleton
<1>3. /\ IsFiniteSet({c} \X (1..n))
      /\ Cardinality({c} \X (1..n)) = Cardinality({c}) * Cardinality(1..n)
  BY <1>1, <1>2, FS_Product
<1> QED BY <1>1, <1>2, <1>3

-----------------------------------------------------------------------------
(* What a step leaves alone                                                *)

\* The gauges and the seats do not change with what they do not count.
LEMMA GaugesStay ==
    ASSUME IInv, UNCHANGED <<active, bytes, ahead>>,
           \A c \in Conns : /\ conn'[c].phase = "free" <=> conn[c].phase = "free"
                            /\ conn'[c].bytes = conn[c].bytes
                            /\ conn'[c].max = conn[c].max
    PROVE  GaugesTracked'
<1>1. Permits' = Permits
  BY DEF Permits
<1>2. Reserved' = Reserved
  BY <1>1 DEF Reserved, Permits
<1>3. SeatsFitTheirLimit'
  BY <1>1 DEF IInv, GaugesTracked, SeatsFitTheirLimit, Permits
<1> QED BY <1>1, <1>2, <1>3 DEF IInv, GaugesTracked, GaugesAreExact

LEMMA MemoryStays ==
    ASSUME IInv, UNCHANGED <<bytes, sampledAt, baseline, cache, seen, blind, bounds>>
    PROVE  ReadingTracked' /\ MemoryIsBounded' /\ OpenOnlyWhenBlind'
BY DEF IInv, ReadingTracked, MemoryIsBounded, OpenOnlyWhenBlind

LEMMA RegistryStays ==
    ASSUME IInv, UNCHANGED <<registry, nextId>>,
           \A c \in Conns : /\ conn'[c].phase = "live" <=> conn[c].phase = "live"
                            /\ conn'[c].id = conn[c].id
    PROVE  IdsAscend' /\ RegistryIsExact'
BY DEF IInv, TypeOK, IdsAscend, RegistryIsExact

\* A step that touches neither a place nor the controller.
LEMMA ControllerStays ==
    ASSUME IInv, UNCHANGED <<conn, admission, nextId, registry, bounds>>
    PROVE  /\ IdsAscend' /\ RegistryIsExact' /\ GaugesTracked'
           /\ ReadingTracked' /\ MemoryIsBounded' /\ OpenOnlyWhenBlind'
BY GaugesStay, MemoryStays, RegistryStays DEF admission

-----------------------------------------------------------------------------
(* Steps that touch neither a place nor the controller                     *)

LEMMA InitIInv == Init => IInv
<1> SUFFICES ASSUME Init PROVE IInv
  OBVIOUS
<1>0. bounds \in Bounds
  BY InstancesAssumption DEF Init
<1>t. /\ bounds.id \in Nat \ {0} /\ bounds.time \in Nat
  BY <1>0, BoundsTyped
<1>1. listener \in [Listeners -> ListenerStates]
  BY DEF Init, Idle, ListenerStates
<1>2. conn \in [Conns -> ConnStates]
  BY <1>t DEF Init, Free, ConnStates
<1>3. TypeOK
  <2>1. registry \in [DOMAIN registry -> Conns] /\ DOMAIN registry \subseteq 1..bounds.id
    BY DEF Init
  <2>2. cache \in [at : {Never} \cup 0..bounds.time, used : Nat,
                   attempt : {Never} \cup 0..bounds.time]
    BY DEF Init
  <2>3. blind \in [unchecked : BOOLEAN, fresh : BOOLEAN]
    BY DEF Init
  <2>4. ahead \in [Conns -> SUBSET Conns]
    BY DEF Init
  <2>5. /\ sampledAt \in {Never} \cup 0..bounds.time /\ now \in 0..bounds.time
        /\ nextId \in 1..bounds.id
    BY <1>t DEF Init
  <2> QED BY <1>0, <1>1, <1>2, <2>1, <2>2, <2>3, <2>4, <2>5 DEF Init, TypeOK
<1>4. PlacesHeld /\ StopsInOrder /\ IdsAscend /\ RegistryIsExact /\ DrainIsGraceful
  BY DEF Init, PlacesHeld, StopsInOrder, IdsAscend, RegistryIsExact, DrainIsGraceful, Idle, Free
<1>5. ReadingTracked /\ MemoryIsBounded /\ OpenOnlyWhenBlind
  BY DEF Init, ReadingTracked, MemoryIsBounded, OpenOnlyWhenBlind
<1>6. GaugesTracked
  <2>1. Permits = {}
    BY DEF Init, Permits, Free
  <2>2. Reserved = {}
    BY <2>1 DEF Reserved
  <2> QED BY <2>1, <2>2, FS_EmptySet DEF Init, GaugesTracked, GaugesAreExact, SeatsFitTheirLimit
<1> QED BY <1>3, <1>4, <1>5, <1>6 DEF IInv

LEMMA ProcessStep ==
    ASSUME IInv, update_snapshot \/ stop_accepting \/ Shutdown \/ Tick
                   \/ ServerWakes \/ ServerReturns
    PROVE  IInv'
<1>0. UNCHANGED <<listener, conn, admission, nextId, registry, grace, bounds>>
  BY DEF update_snapshot, stop_accepting, Shutdown, Tick, ServerWakes, ServerReturns
<1>1. bounds.time \in Nat
  BY BoundsTyped DEF IInv, TypeOK
<1>2. /\ snapshot' \in bounds.policies /\ draining' \in BOOLEAN /\ shutdown' \in BOOLEAN
      /\ shutdown => shutdown'
      /\ now' \in 0..bounds.time
  <2>1. CASE update_snapshot
    BY <2>1 DEF IInv, TypeOK, update_snapshot
  <2>2. CASE stop_accepting \/ Shutdown \/ ServerWakes \/ ServerReturns
    BY <2>2 DEF IInv, TypeOK, stop_accepting, Shutdown, ServerWakes, ServerReturns
  <2>3. CASE Tick
    BY <1>1, <2>3 DEF IInv, TypeOK, Tick
  <2> QED BY <2>1, <2>2, <2>3
<1>3. /\ server' \in {"running", "grace", "abort", "joining", "returned"}
      /\ server' # "running" => shutdown'
  <2>1. CASE ServerWakes
    <3>1. shutdown
      BY <2>1 DEF ServerWakes, Returned, IInv, TypeOK, StopsInOrder, Bounds
    <3> QED BY <2>1, <3>1 DEF ServerWakes
  <2>2. CASE ~ServerWakes
    BY <2>2 DEF update_snapshot, stop_accepting, Shutdown, Tick, ServerReturns,
                IInv, TypeOK, StopsInOrder, DrainIsGraceful
  <2> QED BY <2>1, <2>2
<1>4. ListenerStates' = ListenerStates /\ ConnStates' = ConnStates
  BY <1>0 DEF ListenerStates, ConnStates
<1>5. TypeOK'
  BY <1>0, <1>2, <1>3, <1>4 DEF IInv, TypeOK, admission
<1>6. PlacesHeld' /\ StopsInOrder' /\ DrainIsGraceful'
  BY <1>0, <1>2, <1>3 DEF IInv, PlacesHeld, StopsInOrder, DrainIsGraceful
<1> QED BY <1>0, <1>5, <1>6, ControllerStays DEF IInv

LEMMA ServerAbortsStep ==
    ASSUME IInv, ServerAborts
    PROVE  IInv'
<1> USE DEF ServerAborts
<1>0. shutdown
  BY DEF IInv, StopsInOrder
<1>1. ListenerStates' = ListenerStates /\ ConnStates' = ConnStates
  BY DEF ListenerStates, ConnStates
<1>2. listener' \in [Listeners -> ListenerStates]
  <2>1. ASSUME NEW l \in Listeners
        PROVE  [listener[l] EXCEPT !.cancelled = TRUE] \in ListenerStates
    <3>1. listener[l] \in ListenerStates
      BY DEF IInv, TypeOK
    <3> QED BY <3>1 DEF ListenerStates
  <2> QED BY <2>1
<1>3. \A l \in Listeners : /\ listener'[l].pc = listener[l].pc /\ listener'[l].conn = listener[l].conn
                           /\ listener'[l].snap = listener[l].snap
  BY DEF IInv, TypeOK, ListenerStates
<1>4. TypeOK'
  BY <1>1, <1>2 DEF IInv, TypeOK, admission
<1>5. PlacesHeld'
  BY <1>3 DEF IInv, PlacesHeld
<1>6. StopsInOrder' /\ DrainIsGraceful'
  BY <1>0 DEF IInv, StopsInOrder, DrainIsGraceful
<1> QED BY <1>4, <1>5, <1>6, ControllerStays DEF IInv

-----------------------------------------------------------------------------
(* The listeners                                                           *)

LEMMA AcceptStep ==
    ASSUME IInv, NEW l \in Listeners, Accept(l)
    PROVE  IInv'
<1> USE DEF Accept
<1> DEFINE c == Min(Unused)
<1>0. /\ c \in Conns /\ conn[c] = Free /\ \A m \in Listeners : listener[m].conn # c
  <2>1. Unused \in SUBSET Nat
    BY PlacesAssumption, BoundsTyped DEF Unused, IInv, TypeOK
  <2>2. c \in Unused
    BY <2>1, MinExists
  <2> QED BY <2>2, BoundsTyped DEF Unused, IInv, TypeOK
<1>1. ListenerStates' = ListenerStates /\ ConnStates' = ConnStates
  BY DEF ListenerStates, ConnStates
<1> DEFINE q == [pc |-> "captured", snap |-> snapshot, conn |-> c, cancelled |-> FALSE]
<1>2. listener' = [listener EXCEPT ![l] = q]
  OBVIOUS
<1> HIDE DEF c
<1>3. q \in ListenerStates
  BY <1>0 DEF IInv, TypeOK, ListenerStates
<1>4. /\ q.pc = "captured" /\ q.snap = snapshot /\ q.conn = c /\ ~q.cancelled
      /\ snapshot \in bounds.policies
  BY DEF IInv, TypeOK
<1> HIDE DEF q, Accept
<1>5. /\ listener' \in [Listeners -> ListenerStates] /\ listener'[l] = q
      /\ \A m \in Listeners \ {l} : listener'[m] = listener[m]
  BY <1>2, <1>3 DEF IInv, TypeOK
<1> USE DEF Accept
<1>6. TypeOK'
  BY <1>1, <1>5 DEF IInv, TypeOK, admission
<1>7. PlacesHeld'
  BY <1>0, <1>4, <1>5 DEF IInv, PlacesHeld
<1>8. StopsInOrder' /\ DrainIsGraceful'
  BY <1>4, <1>5 DEF IInv, StopsInOrder, DrainIsGraceful
<1> QED BY <1>6, <1>7, <1>8, ControllerStays DEF IInv

LEMMA BackoffStep ==
    ASSUME IInv, NEW l \in Listeners, AcceptError(l) \/ BackoffEnds(l)
    PROVE  IInv'
<1>0. /\ UNCHANGED <<snapshot, draining, shutdown, conn, admission, nextId,
                     registry, server, grace, now, bounds>>
      /\ listener[l].pc \in {"accept", "backoff"}
      /\ \E pc \in {"backoff", "drain", "accept"} : listener' = [listener EXCEPT ![l].pc = pc]
  BY DEF AcceptError, BackoffEnds
<1>1. ListenerStates' = ListenerStates /\ ConnStates' = ConnStates
  BY <1>0 DEF ListenerStates, ConnStates
<1>2. /\ listener' \in [Listeners -> ListenerStates]
      /\ listener'[l].pc \in {"backoff", "drain", "accept"}
      /\ listener'[l].conn = listener[l].conn /\ listener'[l].cancelled = listener[l].cancelled
      /\ \A m \in Listeners \ {l} : listener'[m] = listener[m]
  BY <1>0 DEF IInv, TypeOK, ListenerStates
<1>3. TypeOK'
  BY <1>0, <1>1, <1>2 DEF IInv, TypeOK, admission
<1>4. PlacesHeld'
  BY <1>0, <1>2 DEF IInv, PlacesHeld
<1>5. StopsInOrder' /\ DrainIsGraceful'
  BY <1>0, <1>2 DEF IInv, StopsInOrder, DrainIsGraceful
<1> QED BY <1>0, <1>3, <1>4, <1>5, ControllerStays DEF IInv

\* Closing and cancelling a listener touch a place only by aborting the task of
\* its session, and only after the force phase began.
LEMMA CloseStep ==
    ASSUME IInv, NEW l \in Listeners, CloseListener(l) \/ CancelListener(l)
    PROVE  IInv'
<1>0. /\ UNCHANGED <<snapshot, draining, shutdown, admission, nextId, registry,
                     server, grace, now, bounds>>
      /\ listener[l].pc \notin {"captured", "admitted"}
      /\ \E pc \in {"drain", "join", "abort", "returned"} :
            /\ listener' = [listener EXCEPT ![l].pc = pc]
            /\ pc # "drain" => shutdown
      /\ UNCHANGED conn \/ (AbortSessions(l) /\ shutdown)
  BY DEF CloseListener, CancelListener, DropSessions, Forced, IInv, StopsInOrder
<1>1. ListenerStates' = ListenerStates /\ ConnStates' = ConnStates
  BY <1>0 DEF ListenerStates, ConnStates
<1>2. /\ listener' \in [Listeners -> ListenerStates]
      /\ listener'[l].pc \in {"drain", "join", "abort", "returned"}
      /\ listener'[l].pc # "drain" => shutdown
      /\ listener'[l].conn = listener[l].conn /\ listener'[l].cancelled = listener[l].cancelled
      /\ \A m \in Listeners \ {l} : listener'[m] = listener[m]
  BY <1>0, SMTT(20) DEF IInv, TypeOK, ListenerStates
<1>3. /\ conn' \in [Conns -> ConnStates]
      /\ \A c \in Conns :
            /\ conn'[c].phase = conn[c].phase /\ conn'[c].bytes = conn[c].bytes
            /\ conn'[c].max = conn[c].max /\ conn'[c].id = conn[c].id
            /\ conn'[c].aborted => shutdown
            /\ conn[c] = Free => conn'[c] = Free
  <2>1. CASE UNCHANGED conn
    BY <2>1 DEF IInv, TypeOK, DrainIsGraceful
  <2>2. CASE AbortSessions(l) /\ shutdown
    <3>1. l # Never
      BY PlacesAssumption DEF Never
    <3>2. \A c \in Conns : conn[c] \in ConnStates
      BY DEF IInv, TypeOK
    <3>3. ASSUME NEW c \in Conns
          PROVE  /\ conn'[c] \in ConnStates
                 /\ conn'[c].phase = conn[c].phase /\ conn'[c].bytes = conn[c].bytes
                 /\ conn'[c].max = conn[c].max /\ conn'[c].id = conn[c].id
                 /\ conn[c] = Free => conn'[c] = Free
      <4>1. conn[c] \in ConnStates
        BY <3>2
      <4>2. conn'[c] = conn[c] \/ conn'[c] = [conn[c] EXCEPT !.aborted = TRUE]
        BY <2>2 DEF AbortSessions
      <4>3. conn[c] = Free => conn'[c] = conn[c]
        BY <2>2, <3>1 DEF AbortSessions, Free
      <4> QED BY <4>1, <4>2, <4>3 DEF ConnStates
    <3>4. conn' = [c \in Conns |-> conn'[c]]
      BY <2>2 DEF AbortSessions
    <3> QED BY <2>2, <3>3, <3>4
  <2> QED BY <1>0, <2>1, <2>2
<1>4. TypeOK'
  BY <1>0, <1>1, <1>2, <1>3 DEF IInv, TypeOK, admission
<1>5. PlacesHeld'
  BY <1>0, <1>2, <1>3 DEF IInv, PlacesHeld
<1>6. StopsInOrder' /\ DrainIsGraceful'
  BY <1>0, <1>2, <1>3 DEF IInv, StopsInOrder, DrainIsGraceful
<1>7. IdsAscend' /\ RegistryIsExact'
  BY <1>0, <1>3, RegistryStays
<1>8. GaugesTracked'
  BY <1>0, <1>3, GaugesStay DEF admission
<1>9. ReadingTracked' /\ MemoryIsBounded' /\ OpenOnlyWhenBlind'
  BY <1>0, MemoryStays DEF admission
<1> QED BY <1>4, <1>5, <1>6, <1>7, <1>8, <1>9 DEF IInv

-----------------------------------------------------------------------------
(* Sets of permits and of bytes, when one permit comes or goes             *)

LEMMA DisjointUnion ==
    ASSUME NEW S, IsFiniteSet(S), NEW T, IsFiniteSet(T), S \cap T = {}
    PROVE  IsFiniteSet(S \cup T) /\ Cardinality(S \cup T) = Cardinality(S) + Cardinality(T)
<1>1. /\ IsFiniteSet(S \cup T)
      /\ Cardinality(S \cup T) = Cardinality(S) + Cardinality(T) - Cardinality(S \cap T)
  BY FS_Union
<1>2. Cardinality(S \cap T) = 0
  BY FS_EmptySet
<1>3. Cardinality(S) \in Nat /\ Cardinality(T) \in Nat
  BY FS_CardinalityType
<1> QED BY <1>1, <1>2, <1>3

LEMMA PartRemoved ==
    ASSUME NEW S, IsFiniteSet(S), NEW T \in SUBSET S
    PROVE  /\ IsFiniteSet(S \ T) /\ Cardinality(S \ T) = Cardinality(S) - Cardinality(T)
           /\ Cardinality(T) <= Cardinality(S)
<1>1. S \cap T = T
  OBVIOUS
<1>2. IsFiniteSet(S \ T) /\ Cardinality(S \ T) = Cardinality(S) - Cardinality(S \cap T)
  BY FS_Difference
<1> QED BY <1>1, <1>2, FS_Subset

\* A place that had no permit and gets one, with the bytes it reserves.
LEMMA PermitGiven ==
    ASSUME IInv, NEW c \in Conns, conn[c].phase = "free", NEW n \in Nat,
           active' = active + 1, bytes' = bytes + n,
           conn'[c].phase # "free", conn'[c].bytes = n,
           \A d \in Conns \ {c} : conn'[d] = conn[d],
           ahead'[c] = Permits, \A d \in Conns \ {c} : ahead'[d] = ahead[d],
           conn'[c].max # 0 => active < conn'[c].max
    PROVE  GaugesTracked'
<1>1. /\ Permits' = Permits \cup {c} /\ c \notin Permits
      /\ IsFiniteSet(Permits) /\ Cardinality(Permits) = active
  BY PlaceSetsFinite DEF Permits, IInv, GaugesTracked, GaugesAreExact
<1>2. active' = Cardinality(Permits')
  BY <1>1, FS_AddElement
<1> DEFINE B == {c} \X (1..n)
<1>3. IsFiniteSet(B) /\ Cardinality(B) = n
  BY BytesOfPlace
<1>4. Reserved' = Reserved \cup B
  <2>1. \A d \in Permits : conn'[d].bytes = conn[d].bytes
    BY <1>1 DEF Permits
  <2> QED BY <1>1, <2>1 DEF Reserved
<1>5. Reserved \cap B = {}
  BY <1>1 DEF Reserved
<1> HIDE DEF B
<1>6. IsFiniteSet(Reserved') /\ bytes' = Cardinality(Reserved')
  BY <1>3, <1>4, <1>5, DisjointUnion DEF IInv, GaugesTracked, GaugesAreExact
<1>7. SeatsFitTheirLimit'
  <2>1. ASSUME NEW d \in Permits', conn'[d].max # 0
        PROVE  Cardinality(ahead'[d]) < conn'[d].max
    <3>1. CASE d = c
      BY <1>1, <2>1, <3>1
    <3>2. CASE d # c
      BY <1>1, <2>1, <3>2 DEF Permits, IInv, GaugesTracked, SeatsFitTheirLimit
    <3> QED BY <3>1, <3>2
  <2> QED BY <2>1 DEF SeatsFitTheirLimit
<1> QED BY <1>2, <1>6, <1>7 DEF GaugesTracked, GaugesAreExact

\* A permit is dropped: neither gauge goes below what is left.
LEMMA PermitDropped ==
    ASSUME IInv, NEW c \in Permits, ReleasePermit(c), conn' = [conn EXCEPT ![c] = Free]
    PROVE  /\ GaugesTracked' /\ ahead' \in [Conns -> SUBSET Conns]
           /\ active' \in Nat /\ bytes' \in Nat /\ bytes' <= bytes
<1>0. /\ c \in Conns /\ conn[c].phase # "free" /\ conn[c] \in ConnStates
      /\ conn \in [Conns -> ConnStates] /\ ahead \in [Conns -> SUBSET Conns]
      /\ active \in Nat /\ bytes \in Nat
  BY DEF Permits, IInv, TypeOK
<1>t. conn[c].bytes \in Nat
  BY <1>0 DEF ConnStates
<1>1. /\ IsFiniteSet(Permits) /\ Cardinality(Permits) = active
      /\ IsFiniteSet(Reserved) /\ Cardinality(Reserved) = bytes
  BY PlaceSetsFinite DEF Permits, IInv, GaugesTracked, GaugesAreExact
<1>2. conn'[c] = Free /\ \A d \in Conns \ {c} : conn'[d] = conn[d]
  BY <1>0
<1>3. Permits' = Permits \ {c}
  BY <1>0, <1>2 DEF Permits, Free
<1>4. Cardinality(Permits') = active - 1 /\ Cardinality(Permits') \in Nat
  BY <1>1, <1>3, FS_RemoveElement, FS_CardinalityType
<1>5. active' = active - 1 /\ active' \in Nat
  BY <1>0, <1>4, MaxPair DEF ReleasePermit
<1> DEFINE B == {c} \X (1..conn[c].bytes)
<1>6. IsFiniteSet(B) /\ Cardinality(B) = conn[c].bytes
  BY <1>t, BytesOfPlace
<1>7. B \subseteq Reserved
  BY DEF Reserved
<1>8. Reserved' = Reserved \ B
  <2>1. \A d \in Permits' : d \in Permits /\ d # c /\ conn'[d].bytes = conn[d].bytes
    BY <1>2, <1>3 DEF Permits
  <2>2. \A d \in Permits : d # c => d \in Permits'
    BY <1>3
  <2> QED BY <2>1, <2>2 DEF Reserved
<1> HIDE DEF B
<1>9. /\ IsFiniteSet(Reserved') /\ Cardinality(Reserved') = bytes - conn[c].bytes
      /\ conn[c].bytes <= bytes
  BY <1>1, <1>6, <1>7, <1>8, PartRemoved
<1>10. bytes' = bytes - conn[c].bytes /\ bytes' \in Nat /\ bytes' <= bytes
  BY <1>0, <1>t, <1>9, MaxPair DEF ReleasePermit
<1>11. ahead' \in [Conns -> SUBSET Conns]
  BY <1>0 DEF ReleasePermit
<1>12. SeatsFitTheirLimit'
  <2>1. ASSUME NEW d \in Permits', conn'[d].max # 0
        PROVE  Cardinality(ahead'[d]) < conn'[d].max
    <3>1. d \in Conns /\ d # c /\ d \in Permits /\ conn'[d] = conn[d]
      BY <1>2, <1>3 DEF Permits
    <3>2. ahead'[d] = ahead[d] \ {c} /\ ahead[d] \in SUBSET Conns
      BY <1>0, <3>1 DEF ReleasePermit
    <3>3. Cardinality(ahead[d]) < conn[d].max
      BY <2>1, <3>1 DEF IInv, GaugesTracked, SeatsFitTheirLimit
    <3>4. IsFiniteSet(ahead[d]) /\ ahead'[d] \in SUBSET ahead[d]
      BY <3>2, PlaceSetsFinite
    <3>5. /\ Cardinality(ahead'[d]) <= Cardinality(ahead[d])
          /\ Cardinality(ahead[d]) \in Nat /\ Cardinality(ahead'[d]) \in Nat
      BY <3>4, FS_Subset, FS_CardinalityType
    <3>6. conn[d].max \in Nat
      BY <1>0, <3>1 DEF ConnStates
    <3> QED BY <3>1, <3>3, <3>5, <3>6
  <2> QED BY <2>1 DEF SeatsFitTheirLimit
<1> QED BY <1>4, <1>5, <1>9, <1>10, <1>11, <1>12 DEF GaugesTracked, GaugesAreExact

\* Releasing bytes keeps the reservation under the bound.
LEMMA MemoryReleased ==
    ASSUME IInv, UNCHANGED <<sampledAt, baseline, cache, seen, blind, bounds>>,
           bytes' \in Nat, bytes' <= bytes
    PROVE  ReadingTracked' /\ MemoryIsBounded' /\ OpenOnlyWhenBlind'
<1>1. ReadingTracked' /\ OpenOnlyWhenBlind'
  BY DEF IInv, ReadingTracked, OpenOnlyWhenBlind
<1>2. ASSUME cache.at # Never /\ ~blind.unchecked
      PROVE  \E p, q \in bounds.policies :
                cache.used + bytes' - seen <= Max({cache.used, p.threshold - 1 + 2 * q.buffer})
  <2>1. PICK p \in bounds.policies, q \in bounds.policies :
                cache.used + bytes - seen <= Max({cache.used, p.threshold - 1 + 2 * q.buffer})
    BY <1>2 DEF IInv, MemoryIsBounded
  <2>2. /\ p.threshold \in Nat /\ q.buffer \in Nat /\ cache.used \in Nat
        /\ bytes \in Nat /\ seen \in Nat
    BY BoundsTyped, PolicyTyped DEF IInv, TypeOK
  <2>3. Max({cache.used, p.threshold - 1 + 2 * q.buffer}) \in Int
    BY <2>2, MaxPair
  <2>4. cache.used + bytes' - seen <= Max({cache.used, p.threshold - 1 + 2 * q.buffer})
    <3> DEFINE M == Max({cache.used, p.threshold - 1 + 2 * q.buffer})
    <3>1. cache.used + bytes - seen <= M /\ M \in Int
      BY <2>1, <2>3
    <3> HIDE DEF M
    <3>2. cache.used + bytes' - seen <= M
      BY <2>2, <3>1
    <3> QED BY <3>2 DEF M
  <2> QED BY <2>4, Zenon
<1> QED BY <1>1, <1>2 DEF MemoryIsBounded

-----------------------------------------------------------------------------
(* The end of a session                                                    *)

\* No listener has the place of a registered session in hand.
LEMMA PlacesUntouched ==
    ASSUME IInv, UNCHANGED <<listener, bounds>>, NEW c \in Conns,
           conn[c].phase \in {"live", "leaving"},
           \A d \in Conns \ {c} : conn'[d] = conn[d]
    PROVE  PlacesHeld'
<1>1. ASSUME NEW l \in Listeners, listener[l].pc \in {"captured", "admitted"}
      PROVE  listener[l].conn # c /\ listener[l].conn \in Conns
  BY <1>1 DEF IInv, PlacesHeld, Free
<1> QED BY <1>1 DEF IInv, PlacesHeld

LEMMA SessionEndsStep ==
    ASSUME IInv, NEW c \in Conns, SessionEnds(c)
    PROVE  IInv'
<1> USE DEF SessionEnds
<1> DEFINE q == [conn[c] EXCEPT !.phase = "leaving"]
<1>0. conn[c] \in ConnStates /\ conn \in [Conns -> ConnStates]
  BY DEF IInv, TypeOK
<1>1. /\ q \in ConnStates /\ q.phase = "leaving" /\ q.bytes = conn[c].bytes
      /\ q.max = conn[c].max /\ q.id = conn[c].id /\ q.aborted = conn[c].aborted
  BY <1>0 DEF ConnStates
<1>2. conn' = [conn EXCEPT ![c] = q]
  BY <1>0
<1> HIDE DEF q
<1> HIDE DEF SessionEnds
<1>3. /\ conn' \in [Conns -> ConnStates] /\ conn'[c] = q
      /\ \A d \in Conns \ {c} : conn'[d] = conn[d]
  BY <1>0, <1>1, <1>2
<1> USE DEF SessionEnds
<1>4. ListenerStates' = ListenerStates /\ ConnStates' = ConnStates
  BY DEF ListenerStates, ConnStates
<1>5. conn[c].id \in DOMAIN registry /\ registry[conn[c].id] = c
  BY DEF IInv, RegistryIsExact
<1>6. /\ DOMAIN registry' = DOMAIN registry \ {conn[c].id}
      /\ \A i \in DOMAIN registry' : registry'[i] = registry[i]
      /\ registry' \in [DOMAIN registry' -> Conns]
  BY DEF IInv, TypeOK
<1>7. TypeOK'
  BY <1>3, <1>4, <1>6 DEF IInv, TypeOK, admission
<1>8. PlacesHeld'
  BY <1>3, PlacesUntouched
<1>9. StopsInOrder' /\ DrainIsGraceful'
  BY <1>1, <1>3 DEF IInv, StopsInOrder, DrainIsGraceful
<1>10. IdsAscend'
  BY <1>6 DEF IInv, IdsAscend
<1>11. RegistryIsExact'
  <2>1. ASSUME NEW i \in DOMAIN registry'
        PROVE  conn'[registry'[i]].phase = "live" /\ conn'[registry'[i]].id = i
    <3>1. i \in DOMAIN registry /\ i # conn[c].id /\ registry'[i] = registry[i]
      BY <1>6
    <3>2. conn[registry[i]].phase = "live" /\ conn[registry[i]].id = i
      BY <3>1 DEF IInv, RegistryIsExact
    <3>3. registry[i] \in Conns
      BY <3>1 DEF IInv, TypeOK
    <3> QED BY <1>3, <3>1, <3>2, <3>3
  <2>2. ASSUME NEW d \in Conns, conn'[d].phase = "live"
        PROVE  conn'[d].id \in DOMAIN registry' /\ registry'[conn'[d].id] = d
    <3>1. d # c /\ conn'[d] = conn[d]
      BY <1>1, <1>3, <2>2
    <3>2. conn[d].id \in DOMAIN registry /\ registry[conn[d].id] = d
      BY <2>2, <3>1 DEF IInv, RegistryIsExact
    <3>3. conn[d].id # conn[c].id
      BY <1>5, <3>1, <3>2
    <3> QED BY <1>6, <3>1, <3>2, <3>3
  <2> QED BY <2>1, <2>2 DEF RegistryIsExact
<1>12. GaugesTracked'
  <2>1. \A d \in Conns : /\ conn'[d].phase = "free" <=> conn[d].phase = "free"
                         /\ conn'[d].bytes = conn[d].bytes
                         /\ conn'[d].max = conn[d].max
    BY <1>1, <1>3
  <2> QED BY <2>1, GaugesStay DEF admission
<1>13. ReadingTracked' /\ MemoryIsBounded' /\ OpenOnlyWhenBlind'
  BY MemoryStays DEF admission
<1> QED BY <1>7, <1>8, <1>9, <1>10, <1>11, <1>12, <1>13 DEF IInv

\* A place is empty again.
LEMMA PlaceFreed ==
    ASSUME IInv, NEW c \in Conns, conn' = [conn EXCEPT ![c] = Free], UNCHANGED bounds
    PROVE  /\ conn' \in [Conns -> ConnStates] /\ conn'[c] = Free
           /\ \A d \in Conns \ {c} : conn'[d] = conn[d]
<1>1. Free \in ConnStates
  BY BoundsTyped DEF Free, ConnStates, IInv, TypeOK
<1> QED BY <1>1 DEF IInv, TypeOK

LEMMA LeaseDroppedStep ==
    ASSUME IInv, NEW c \in Conns, LeaseDropped(c)
    PROVE  IInv'
<1> USE DEF LeaseDropped
<1>0. c \in Permits
  BY DEF Permits
<1>1. /\ conn' \in [Conns -> ConnStates] /\ conn'[c] = Free
      /\ \A d \in Conns \ {c} : conn'[d] = conn[d]
  BY PlaceFreed
<1>2. /\ GaugesTracked' /\ ahead' \in [Conns -> SUBSET Conns]
      /\ active' \in Nat /\ bytes' \in Nat /\ bytes' <= bytes
  BY <1>0, PermitDropped
<1>3. ListenerStates' = ListenerStates /\ ConnStates' = ConnStates
  BY DEF ListenerStates, ConnStates
<1>4. TypeOK'
  BY <1>1, <1>2, <1>3 DEF IInv, TypeOK
<1>5. PlacesHeld'
  BY <1>1, PlacesUntouched
<1>6. StopsInOrder' /\ DrainIsGraceful'
  BY <1>1 DEF IInv, StopsInOrder, DrainIsGraceful, Free
<1>7. IdsAscend' /\ RegistryIsExact'
  BY <1>1 DEF IInv, TypeOK, IdsAscend, RegistryIsExact, Free
<1>8. ReadingTracked' /\ MemoryIsBounded' /\ OpenOnlyWhenBlind'
  BY <1>2, MemoryReleased
<1> QED BY <1>2, <1>4, <1>5, <1>6, <1>7, <1>8 DEF IInv

-----------------------------------------------------------------------------
(* Letting a socket go: rejection, failed preparation, registration        *)

LEMMA LetGo ==
    ASSUME IInv, NEW l \in Listeners, Accepting(l), UNCHANGED <<bounds, shutdown, server>>,
           listener[l].pc \in {"captured", "admitted"},
           \A d \in Conns \ {listener[l].conn} : conn'[d] = conn[d]
    PROVE  listener' \in [Listeners -> ListenerStates] /\ PlacesHeld' /\ StopsInOrder'
<1> DEFINE q == [pc |-> "accept", snap |-> NoPolicy, conn |-> Never,
                 cancelled |-> listener[l].cancelled]
<1>0. listener \in [Listeners -> ListenerStates] /\ listener[l] \in ListenerStates
  BY DEF IInv, TypeOK
<1>1. /\ q \in ListenerStates /\ q.pc = "accept" /\ q.conn = Never
      /\ q.cancelled = listener[l].cancelled
  BY <1>0 DEF ListenerStates
<1>2. listener' = [listener EXCEPT ![l] = q]
  BY DEF Accepting
<1> HIDE DEF q
<1>3. /\ listener' \in [Listeners -> ListenerStates] /\ listener'[l] = q
      /\ \A m \in Listeners \ {l} : listener'[m] = listener[m]
  BY <1>0, <1>1, <1>2
<1>4. listener[l].conn \in Conns /\ listener[l].conn # Never
  BY PlacesAssumption DEF IInv, PlacesHeld, Never
<1>5. \A m \in Listeners \ {l} : listener[m].conn # listener[l].conn
  BY <1>4 DEF IInv, PlacesHeld
<1>6. PlacesHeld'
  BY <1>1, <1>3, <1>4, <1>5 DEF IInv, PlacesHeld
<1>7. StopsInOrder'
  BY <1>1, <1>3 DEF IInv, StopsInOrder
<1> QED BY <1>3, <1>6, <1>7

LEMMA PrepareFailsStep ==
    ASSUME IInv, NEW l \in Listeners, PrepareFails(l)
    PROVE  IInv'
<1> USE DEF PrepareFails
<1> DEFINE c == listener[l].conn
<1>0. c \in Conns /\ conn[c].phase = "permit" /\ c \in Permits
  BY DEF IInv, PlacesHeld, Permits
<1>1. /\ conn' \in [Conns -> ConnStates] /\ conn'[c] = Free
      /\ \A d \in Conns \ {c} : conn'[d] = conn[d]
  BY <1>0, PlaceFreed
<1>2. /\ GaugesTracked' /\ ahead' \in [Conns -> SUBSET Conns]
      /\ active' \in Nat /\ bytes' \in Nat /\ bytes' <= bytes
  BY <1>0, PermitDropped
<1>3. listener' \in [Listeners -> ListenerStates] /\ PlacesHeld' /\ StopsInOrder'
  BY <1>1, LetGo
<1>4. ListenerStates' = ListenerStates /\ ConnStates' = ConnStates
  BY DEF ListenerStates, ConnStates
<1>5. TypeOK'
  BY <1>1, <1>2, <1>3, <1>4 DEF IInv, TypeOK
<1>6. DrainIsGraceful'
  BY <1>1 DEF IInv, DrainIsGraceful, Free
<1>7. IdsAscend' /\ RegistryIsExact'
  BY <1>0, <1>1 DEF IInv, TypeOK, IdsAscend, RegistryIsExact, Free
<1>8. ReadingTracked' /\ MemoryIsBounded' /\ OpenOnlyWhenBlind'
  BY <1>2, MemoryReleased
<1> QED BY <1>2, <1>3, <1>5, <1>6, <1>7, <1>8 DEF IInv

\* A place whose session is registered.
Registered(r, i, l) == [r EXCEPT !.phase = "live", !.id = i, !.owner = l]

LEMMA LiveRecord ==
    ASSUME NEW r \in ConnStates, NEW i \in 0..bounds.id, NEW l \in Listeners,
           NEW q, q = Registered(r, i, l)
    PROVE  /\ q \in ConnStates /\ q.phase = "live" /\ q.id = i /\ q.bytes = r.bytes
           /\ q.max = r.max /\ q.aborted = r.aborted
BY DEF ConnStates, Registered

LEMMA RegisterStep ==
    ASSUME IInv, NEW l \in Listeners, Register(l)
    PROVE  IInv'
<1> USE DEF Register
<1> DEFINE c == listener[l].conn
           q == [conn[c] EXCEPT !.phase = "live", !.id = nextId, !.owner = l]
<1>0. /\ c \in Conns /\ conn[c].phase = "permit"
      /\ conn[c] \in ConnStates /\ conn \in [Conns -> ConnStates]
      /\ bounds.id \in Nat /\ nextId \in 1..bounds.id
      /\ nextId < bounds.id /\ nextId' = nextId + 1
  BY BoundsTyped DEF IInv, TypeOK, PlacesHeld, AllocateId
<1>1. /\ q \in ConnStates /\ q.phase = "live" /\ q.id = nextId /\ q.bytes = conn[c].bytes
      /\ q.max = conn[c].max /\ q.aborted = conn[c].aborted
  <2>1. nextId \in 0..bounds.id
    BY <1>0
  <2>2. q = Registered(conn[c], nextId, l)
    BY Zenon DEF Registered
  <2> HIDE DEF Register, c, q
  <2> QED BY <1>0, <2>1, <2>2, LiveRecord
<1>2. conn' = [conn EXCEPT ![c] = q]
  BY <1>0
<1> HIDE DEF q
<1>3. /\ conn' \in [Conns -> ConnStates] /\ conn'[c] = q
      /\ \A d \in Conns \ {c} : conn'[d] = conn[d]
  <2> HIDE DEF Register
  <2> QED BY <1>0, <1>1, <1>2
<1>4. listener' \in [Listeners -> ListenerStates] /\ PlacesHeld' /\ StopsInOrder'
  BY <1>3, LetGo
<1>5. ListenerStates' = ListenerStates /\ ConnStates' = ConnStates
  BY DEF ListenerStates, ConnStates
<1>6. /\ DOMAIN registry' = DOMAIN registry \cup {nextId}
      /\ registry'[nextId] = c /\ nextId \notin DOMAIN registry
      /\ \A i \in DOMAIN registry : registry'[i] = registry[i]
      /\ registry' \in [DOMAIN registry' -> Conns]
  <2>1. nextId \notin DOMAIN registry
    BY <1>0 DEF IInv, IdsAscend
  <2> QED BY <1>0, <2>1 DEF IInv, TypeOK
<1>7. TypeOK'
  <2>1. nextId' \in 1..bounds.id /\ DOMAIN registry' \subseteq 1..bounds.id
    BY <1>0, <1>6 DEF IInv, TypeOK
  <2> QED BY <1>3, <1>4, <1>5, <1>6, <2>1 DEF IInv, TypeOK, admission
<1>8. DrainIsGraceful'
  BY <1>1, <1>3 DEF IInv, DrainIsGraceful
<1>9. IdsAscend'
  <2>1. \A i \in DOMAIN registry : i \in Int /\ i < nextId
    BY DEF IInv, TypeOK, IdsAscend
  <2> QED BY <1>0, <1>6, <2>1 DEF IdsAscend
<1>10. RegistryIsExact'
  <2>1. ASSUME NEW i \in DOMAIN registry'
        PROVE  conn'[registry'[i]].phase = "live" /\ conn'[registry'[i]].id = i
    <3>1. CASE i = nextId
      BY <1>1, <1>3, <1>6, <3>1
    <3>2. CASE i # nextId
      <4>1. i \in DOMAIN registry /\ registry'[i] = registry[i] /\ registry[i] \in Conns
        BY <1>6, <3>2 DEF IInv, TypeOK
      <4>2. conn[registry[i]].phase = "live" /\ conn[registry[i]].id = i
        BY <4>1 DEF IInv, RegistryIsExact
      <4>3. registry[i] # c
        BY <1>0, <4>2
      <4> QED BY <1>3, <4>1, <4>2, <4>3
    <3> QED BY <3>1, <3>2
  <2>2. ASSUME NEW d \in Conns, conn'[d].phase = "live"
        PROVE  conn'[d].id \in DOMAIN registry' /\ registry'[conn'[d].id] = d
    <3>1. CASE d = c
      BY <1>1, <1>3, <1>6, <3>1
    <3>2. CASE d # c
      BY <1>3, <1>6, <2>2, <3>2, SMTT(20) DEF IInv, RegistryIsExact
    <3> QED BY <3>1, <3>2
  <2> QED BY <2>1, <2>2 DEF RegistryIsExact
<1>11. GaugesTracked'
  <2>1. \A d \in Conns : /\ conn'[d].phase = "free" <=> conn[d].phase = "free"
                         /\ conn'[d].bytes = conn[d].bytes
                         /\ conn'[d].max = conn[d].max
    BY <1>0, <1>1, <1>3
  <2> QED BY <2>1, GaugesStay DEF admission
<1>12. ReadingTracked' /\ MemoryIsBounded' /\ OpenOnlyWhenBlind'
  BY MemoryStays DEF admission
<1> QED BY <1>4, <1>7, <1>8, <1>9, <1>10, <1>11, <1>12 DEF IInv

-----------------------------------------------------------------------------
(* The decision                                                            *)

\* What a sample of the memory is: the reading that was cached, or a new one
\* made now; one that was usable is not discarded.
LEMMA SampleFacts ==
    ASSUME IInv, NEW s \in Samples
    PROVE  /\ s.cache \in [at : {Never} \cup 0..bounds.time, used : Nat,
                            attempt : {Never} \cup 0..bounds.time]
           /\ s.ok \in BOOLEAN /\ (Usable(cache) => s.ok) /\ (s.ok => s.cache.at # Never)
           /\ \/ s.cache.at = cache.at /\ s.cache.used = cache.used
              \/ s.ok /\ s.cache.at = now /\ now # cache.at
<1> DEFINE T == {Never} \cup 0..bounds.time
<1>0. /\ now \in 0..bounds.time /\ now \in Nat /\ now # Never /\ now \in T
      /\ bounds.refresh \in Nat \ {0} /\ bounds.used \subseteq Nat
      /\ cache \in [at : T, used : Nat, attempt : T]
  BY BoundsTyped DEF IInv, TypeOK, Never
<1> HIDE DEF T
<1>1. CASE cache.at # Never /\ now - cache.at < bounds.refresh
  <2>1. s = [cache |-> cache, ok |-> TRUE]
    BY <1>1 DEF Samples
  <2> QED BY <1>0, <1>1, <2>1 DEF T
<1>2. CASE /\ ~(cache.at # Never /\ now - cache.at < bounds.refresh)
           /\ cache.attempt # Never /\ now - cache.attempt < bounds.refresh
  <2>1. s = [cache |-> cache, ok |-> Usable(cache)]
    BY <1>2 DEF Samples
  <2>2. Usable(cache) \in BOOLEAN /\ (Usable(cache) => cache.at # Never)
    BY DEF Usable
  <2>3. s.cache = cache /\ s.ok = Usable(cache)
    BY <2>1
  <2> QED BY <1>0, <2>2, <2>3 DEF T
<1>3. CASE /\ ~(cache.at # Never /\ now - cache.at < bounds.refresh)
           /\ ~(cache.attempt # Never /\ now - cache.attempt < bounds.refresh)
  <2>0. now # cache.at
    BY <1>0, <1>3
  <2>1. \/ \E u \in bounds.used :
              s = [cache |-> [at |-> now, used |-> u, attempt |-> now], ok |-> TRUE]
        \/ s = [cache |-> [cache EXCEPT !.attempt = now], ok |-> Usable(cache)]
    BY <1>3, Zenon DEF Samples
  <2>2. CASE \E u \in bounds.used :
              s = [cache |-> [at |-> now, used |-> u, attempt |-> now], ok |-> TRUE]
    <3>1. PICK u \in bounds.used :
              s = [cache |-> [at |-> now, used |-> u, attempt |-> now], ok |-> TRUE]
      BY <2>2
    <3> QED BY <1>0, <2>0, <3>1 DEF T
  <2>3. CASE s = [cache |-> [cache EXCEPT !.attempt = now], ok |-> Usable(cache)]
    <3>1. Usable(cache) \in BOOLEAN /\ (Usable(cache) => cache.at # Never)
      BY DEF Usable
    <3>2. s.cache = [cache EXCEPT !.attempt = now] /\ s.ok = Usable(cache)
      BY <2>3
    <3>3. /\ s.cache \in [at : T, used : Nat, attempt : T]
          /\ s.cache.at = cache.at /\ s.cache.used = cache.used
      BY <1>0, <3>2
    <3> QED BY <3>1, <3>2, <3>3 DEF T
  <2> QED BY <2>1, <2>2, <2>3
<1> QED BY <1>1, <1>2, <1>3

\* How a decision ends, without the memory.
LEMMA Decided ==
    ASSUME IInv, NEW l \in Listeners, TryAcquire(l)
    PROVE  Reject(l) \/ (~Full(listener[l].snap) /\ \E u, w \in BOOLEAN : Admit(l, u, w))
<1>1. CASE listener[l].snap.threshold = 0
  BY <1>1, Zenon DEF TryAcquire
<1>2. CASE listener[l].snap.threshold # 0
  <2>1. PICK s \in Samples :
           IF (s.ok /\ EffectiveUsed(s.cache) >= listener[l].snap.threshold)
                \/ Full(listener[l].snap)
           THEN Reject(l) ELSE Admit(l, ~s.ok, Usable(cache))
    BY <1>2, Zenon DEF TryAcquire
  <2>2. (~s.ok) \in BOOLEAN /\ Usable(cache) \in BOOLEAN
    BY Zenon DEF Usable
  <2> QED BY <2>1, <2>2, Zenon
<1> QED BY <1>1, <1>2

LEMMA EffectiveBound ==
    ASSUME NEW k, NEW t \in Nat, k.used \in Nat, bytes \in Nat, Baseline(k) \in Nat,
           ~(EffectiveUsed(k) >= t)
    PROVE  k.used + bytes - Baseline(k) <= t - 1
<1> DEFINE x == k.used + bytes - Baseline(k)
<1>1. x \in Int
  OBVIOUS
<1>2. EffectiveUsed(k) = Max({0, x})
  BY DEF EffectiveUsed
<1> HIDE DEF x
<1>3. Max({0, x}) = IF 0 >= x THEN 0 ELSE x
  BY <1>1, MaxPair
<1>4. x <= t - 1
  BY <1>1, <1>2, <1>3
<1> QED BY <1>4 DEF x

\* The decision and the memory.  A reading that is kept keeps its baseline; a
\* new one starts from what is reserved now; and a checked admission adds one
\* connection's buffers to less than the threshold.
LEMMA MemoryDecided ==
    ASSUME IInv, NEW l \in Listeners, TryAcquire(l)
    PROVE  /\ cache' \in [at : {Never} \cup 0..bounds.time, used : Nat,
                           attempt : {Never} \cup 0..bounds.time]
           /\ seen' \in Nat /\ baseline' \in Nat
           /\ sampledAt' \in {Never} \cup 0..bounds.time
           /\ blind' \in [unchecked : BOOLEAN, fresh : BOOLEAN]
           /\ ReadingTracked' /\ MemoryIsBounded' /\ OpenOnlyWhenBlind'
<1> DEFINE p == listener[l].snap
<1>0. /\ p \in bounds.policies /\ p.threshold \in Nat /\ p.buffer \in Nat
      /\ bytes \in Nat /\ seen \in Nat /\ baseline \in Nat
      /\ sampledAt = cache.at /\ (cache.at # Never => baseline = seen)
      /\ blind \in [unchecked : BOOLEAN, fresh : BOOLEAN] /\ ~blind.fresh
      /\ cache \in [at : {Never} \cup 0..bounds.time, used : Nat,
                     attempt : {Never} \cup 0..bounds.time]
      /\ UNCHANGED bounds
  BY BoundsTyped, PolicyTyped
     DEF IInv, TypeOK, PlacesHeld, ReadingTracked, OpenOnlyWhenBlind, TryAcquire
<1>1. CASE p.threshold = 0
  <2>1. UNCHANGED <<cache, sampledAt, baseline, seen>>
    BY <1>1 DEF TryAcquire
  <2>2. Reject(l) \/ Admit(l, TRUE, FALSE)
    BY <1>1, Zenon DEF TryAcquire
  <2>3. CASE Reject(l)
    BY <1>0, <2>1, <2>3, MemoryStays DEF Reject, IInv, TypeOK
  <2>4. CASE Admit(l, TRUE, FALSE)
    <3>1. blind' = [unchecked |-> TRUE, fresh |-> FALSE]
      BY <1>0, <2>4 DEF Admit
    <3> QED BY <1>0, <2>1, <3>1 DEF ReadingTracked, MemoryIsBounded, OpenOnlyWhenBlind
  <2> QED BY <2>2, <2>3, <2>4
<1>2. CASE p.threshold # 0
  <2>1. PICK s \in Samples :
           /\ cache' = s.cache
           /\ seen' = IF s.cache.at # cache.at THEN bytes ELSE seen
           /\ sampledAt' = IF s.ok THEN s.cache.at ELSE sampledAt
           /\ baseline' = IF s.ok THEN Baseline(s.cache) ELSE baseline
           /\ IF (s.ok /\ EffectiveUsed(s.cache) >= p.threshold) \/ Full(p)
              THEN Reject(l) ELSE Admit(l, ~s.ok, Usable(cache))
    BY <1>2, Zenon DEF TryAcquire
  <2>2. /\ s.cache \in [at : {Never} \cup 0..bounds.time, used : Nat,
                         attempt : {Never} \cup 0..bounds.time]
        /\ s.ok \in BOOLEAN /\ (Usable(cache) => s.ok) /\ (s.ok => s.cache.at # Never)
        /\ \/ s.cache.at = cache.at /\ s.cache.used = cache.used
           \/ s.ok /\ s.cache.at = now /\ now # cache.at
    BY SampleFacts
  <2>3. Baseline(s.cache) = IF cache.at # s.cache.at THEN bytes ELSE baseline
    BY <1>0 DEF Baseline
  <2>4. seen' \in Nat /\ baseline' \in Nat /\ Baseline(s.cache) \in Nat
    BY <1>0, <2>1, <2>3
  <2>5. ReadingTracked' /\ sampledAt' \in {Never} \cup 0..bounds.time
    <3>1. CASE s.cache.at = cache.at
      BY <1>0, <2>1, <2>2, <2>3, <3>1 DEF ReadingTracked
    <3>2. CASE s.cache.at # cache.at
      BY <1>0, <2>1, <2>2, <2>3, <3>2 DEF ReadingTracked
    <3> QED BY <3>1, <3>2
  <2>6. s.cache.used \in Nat
    BY <2>2
  <2>7. CASE Reject(l)
    <3>1. UNCHANGED <<bytes, blind>>
      BY <2>7 DEF Reject
    <3>2. MemoryIsBounded'
      <4>1. CASE s.cache.at = cache.at
        <5>1. UNCHANGED <<cache.at, cache.used, seen>>
          BY <2>1, <2>2, <4>1
        <5> QED BY <1>0, <3>1, <5>1 DEF MemoryIsBounded, IInv
      <4>2. CASE s.cache.at # cache.at
        <5>1. cache'.used + bytes' - seen' = s.cache.used
          BY <1>0, <2>1, <2>6, <3>1, <4>2
        <5>2. cache'.used = s.cache.used
          BY <2>1
        <5>3. s.cache.used <= Max({s.cache.used, p.threshold - 1 + 2 * p.buffer})
          BY <1>0, <2>6, MaxPair
        <5>4. cache'.used + bytes' - seen'
                <= Max({cache'.used, p.threshold - 1 + 2 * p.buffer})
          BY <5>1, <5>2, <5>3
        <5> QED BY <1>0, <5>4, Zenon DEF MemoryIsBounded
      <4> QED BY <4>1, <4>2
    <3> QED BY <1>0, <2>1, <2>2, <2>4, <2>5, <3>1, <3>2 DEF OpenOnlyWhenBlind
  <2>8. CASE ~Reject(l)
    <3>1. Admit(l, ~s.ok, Usable(cache)) /\ (s.ok => ~(EffectiveUsed(s.cache) >= p.threshold))
      BY <2>1, <2>8
    <3>2. blind' = [unchecked |-> ~s.ok \/ (blind.unchecked /\ cache'.at = cache.at),
                    fresh |-> blind.fresh \/ (p.threshold # 0 /\ ~s.ok /\ Usable(cache))]
      BY <3>1, Zenon DEF Admit
    <3>3. blind' \in [unchecked : BOOLEAN, fresh : BOOLEAN] /\ ~blind'.fresh
      BY <1>0, <2>2, <3>2
    <3>4. bytes' = bytes + 2 * p.buffer
      BY <3>1 DEF Admit
    <3>5. ASSUME cache'.at # Never, ~blind'.unchecked
          PROVE  cache'.used + bytes' - seen'
                   <= Max({cache'.used, p.threshold - 1 + 2 * p.buffer})
      <4>1. s.ok
        BY <3>2, <3>5
      <4>2. s.cache.used + bytes - Baseline(s.cache) <= p.threshold - 1
        BY <1>0, <2>4, <2>6, <3>1, <4>1, EffectiveBound
      <4>3. Baseline(s.cache) = seen'
        BY <1>0, <2>1, <2>2, <2>3, <4>1
      <4>4. s.cache.used + bytes' - seen' <= p.threshold - 1 + 2 * p.buffer
        BY <1>0, <2>4, <2>6, <3>4, <4>2, <4>3
      <4>5. /\ p.threshold - 1 + 2 * p.buffer \in Int
            /\ s.cache.used + bytes' - seen' \in Int
        BY <1>0, <2>4, <2>6, <3>4
      <4>6. s.cache.used + bytes' - seen' <= Max({s.cache.used, p.threshold - 1 + 2 * p.buffer})
        <5> DEFINE x == s.cache.used + bytes' - seen'
                   y == p.threshold - 1 + 2 * p.buffer
        <5>1. x \in Int /\ y \in Int /\ x <= y
          BY <4>4, <4>5
        <5> HIDE DEF x, y
        <5>2. Max({s.cache.used, y}) = IF s.cache.used >= y THEN s.cache.used ELSE y
          BY <2>6, <5>1, MaxPair
        <5>3. x <= Max({s.cache.used, y})
          BY <2>6, <5>1, <5>2
        <5> QED BY <5>3 DEF x, y
      <4> QED BY <2>1, <4>6
    <3>6. MemoryIsBounded'
      BY <1>0, <3>5, Zenon DEF MemoryIsBounded
    <3> QED BY <2>1, <2>2, <2>4, <2>5, <3>3, <3>6 DEF OpenOnlyWhenBlind
  <2> QED BY <2>7, <2>8
<1> QED BY <1>1, <1>2

LEMMA RejectStep ==
    ASSUME IInv, NEW l \in Listeners, TryAcquire(l), Reject(l)
    PROVE  IInv'
<1>0. /\ UNCHANGED <<snapshot, draining, shutdown, nextId, registry, server, grace, now, bounds>>
      /\ UNCHANGED <<active, bytes, conn, ahead>> /\ Accepting(l)
      /\ listener[l].pc = "captured"
  BY DEF TryAcquire, Reject
<1>1. listener' \in [Listeners -> ListenerStates] /\ PlacesHeld' /\ StopsInOrder'
  BY <1>0, LetGo
<1>2. ListenerStates' = ListenerStates /\ ConnStates' = ConnStates
  BY <1>0 DEF ListenerStates, ConnStates
<1>3. TypeOK'
  BY <1>0, <1>1, <1>2, MemoryDecided DEF IInv, TypeOK
<1>4. DrainIsGraceful'
  BY <1>0 DEF IInv, DrainIsGraceful
<1>5. GaugesTracked'
  BY <1>0, GaugesStay
<1>6. IdsAscend' /\ RegistryIsExact'
  BY <1>0, RegistryStays
<1> QED BY <1>1, <1>3, <1>4, <1>5, <1>6, MemoryDecided DEF IInv

LEMMA AdmitStep ==
    ASSUME IInv, NEW l \in Listeners, TryAcquire(l), ~Full(listener[l].snap),
           NEW u, NEW w, Admit(l, u, w)
    PROVE  IInv'
<1> DEFINE p == listener[l].snap
           c == listener[l].conn
           q == [phase |-> "permit", bytes |-> 2 * p.buffer, id |-> 0, owner |-> Never,
                 aborted |-> FALSE, max |-> p.max]
           k == [listener[l] EXCEPT !.pc = "admitted"]
<1>0. /\ UNCHANGED <<snapshot, draining, shutdown, nextId, registry, server, grace, now, bounds>>
      /\ listener[l].pc = "captured"
      /\ conn' = [conn EXCEPT ![c] = q] /\ ahead' = [ahead EXCEPT ![c] = Permits]
      /\ active' = active + 1 /\ bytes' = bytes + 2 * p.buffer
  BY DEF TryAcquire, Admit
<1>1. /\ c \in Conns /\ c # Never /\ conn[c] = Free /\ p \in bounds.policies
      /\ p.max \in Nat /\ p.buffer \in Nat /\ active \in Nat /\ bytes \in Nat
      /\ listener \in [Listeners -> ListenerStates] /\ listener[l] \in ListenerStates
      /\ conn \in [Conns -> ConnStates] /\ ahead \in [Conns -> SUBSET Conns]
  BY <1>0, PlacesAssumption, BoundsTyped, PolicyTyped DEF IInv, TypeOK, PlacesHeld, Never
<1>2. /\ q \in ConnStates /\ q.phase = "permit" /\ q.bytes = 2 * p.buffer
      /\ q.max = p.max /\ ~q.aborted
  <2>1. bounds.id \in Nat
    BY BoundsTyped DEF IInv, TypeOK
  <2> QED BY <1>1, <2>1 DEF ConnStates
<1>3. /\ k \in ListenerStates /\ k.pc = "admitted" /\ k.snap = p /\ k.conn = c
      /\ k.cancelled = listener[l].cancelled
  BY <1>1 DEF ListenerStates
<1>4. listener' = [listener EXCEPT ![l] = k]
  BY DEF Admit
<1> HIDE DEF q, k
<1>5. /\ listener' \in [Listeners -> ListenerStates] /\ listener'[l] = k
      /\ \A m \in Listeners \ {l} : listener'[m] = listener[m]
  BY <1>1, <1>3, <1>4
<1>6. /\ conn' \in [Conns -> ConnStates] /\ conn'[c] = q
      /\ \A d \in Conns \ {c} : conn'[d] = conn[d]
  BY <1>0, <1>1, <1>2
<1>7. /\ ahead' \in [Conns -> SUBSET Conns] /\ ahead'[c] = Permits
      /\ \A d \in Conns \ {c} : ahead'[d] = ahead[d]
  BY <1>0, <1>1 DEF Permits
<1>8. ListenerStates' = ListenerStates /\ ConnStates' = ConnStates
  BY <1>0 DEF ListenerStates, ConnStates
<1>9. TypeOK'
  <2>1. active' \in Nat /\ bytes' \in Nat
    BY <1>0, <1>1
  <2> QED BY <1>0, <1>5, <1>6, <1>7, <1>8, <2>1, MemoryDecided DEF IInv, TypeOK
<1>10. PlacesHeld'
  <2>1. \A m \in Listeners \ {l} : listener[m].conn # c
    BY <1>1 DEF IInv, PlacesHeld
  <2> QED BY <1>0, <1>1, <1>2, <1>3, <1>5, <1>6, <2>1 DEF IInv, PlacesHeld
<1>11. StopsInOrder' /\ DrainIsGraceful'
  BY <1>0, <1>2, <1>3, <1>5, <1>6 DEF IInv, StopsInOrder, DrainIsGraceful
<1>12. GaugesTracked'
  <2>1. conn[c].phase = "free" /\ 2 * p.buffer \in Nat
    BY <1>1 DEF Free
  <2>2. conn'[c].max # 0 => active < conn'[c].max
    BY <1>1, <1>2, <1>6 DEF Full
  <2> QED BY <1>0, <1>1, <1>2, <1>6, <1>7, <2>1, <2>2, PermitGiven
<1>13. IdsAscend' /\ RegistryIsExact'
  BY <1>0, <1>1, <1>2, <1>6 DEF IInv, TypeOK, IdsAscend, RegistryIsExact, Free
<1> QED BY <1>9, <1>10, <1>11, <1>12, <1>13, MemoryDecided DEF IInv

-----------------------------------------------------------------------------
(* Every step, and the theorems                                            *)

LEMMA NextIInv == IInv /\ [Next]_vars => IInv'
<1> SUFFICES ASSUME IInv, [Next]_vars PROVE IInv'
  OBVIOUS
<1>1. CASE UNCHANGED vars
  <2>1. UNCHANGED <<conn, admission, nextId, registry, bounds>>
    BY <1>1 DEF vars, admission
  <2>2. ListenerStates' = ListenerStates /\ ConnStates' = ConnStates
    BY <1>1 DEF vars, ListenerStates, ConnStates
  <2>3. TypeOK' /\ PlacesHeld' /\ StopsInOrder' /\ DrainIsGraceful'
    BY <1>1, <2>2 DEF vars, IInv, TypeOK, PlacesHeld, StopsInOrder, DrainIsGraceful
  <2> QED BY <2>1, <2>3, ControllerStays DEF IInv
<1>2. CASE update_snapshot \/ stop_accepting \/ Shutdown \/ Tick \/ ServerWakes \/ ServerReturns
  BY <1>2, ProcessStep
<1>3. CASE ServerAborts
  BY <1>3, ServerAbortsStep
<1>4. ASSUME NEW l \in bounds.listeners, ListenerNext(l)
      PROVE  IInv'
  <2>0. l \in Listeners
    BY BoundsTyped DEF IInv, TypeOK
  <2>1. CASE TryAcquire(l)
    <3>1. CASE Reject(l)
      BY <2>0, <2>1, <3>1, RejectStep
    <3>2. CASE ~Full(listener[l].snap) /\ \E u, w \in BOOLEAN : Admit(l, u, w)
      BY <2>0, <2>1, <3>2, AdmitStep
    <3> QED BY <2>0, <2>1, <3>1, <3>2, Decided
  <2> QED BY <1>4, <2>0, <2>1, AcceptStep, BackoffStep, CloseStep, PrepareFailsStep,
             RegisterStep DEF ListenerNext
<1>5. ASSUME NEW c \in Conns, SessionEnds(c) \/ LeaseDropped(c)
      PROVE  IInv'
  BY <1>5, SessionEndsStep, LeaseDroppedStep
<1> QED BY <1>1, <1>2, <1>3, <1>4, <1>5 DEF Next

LEMMA Invariance == Spec => []IInv
BY InitIInv, NextIInv, PTL DEF Spec

\* The gauges count exactly the permits that exist and their bytes, every
\* connection fits in the limit its listener had captured, the registry names
\* exactly the running sessions, and the drain is graceful.
THEOREM Admitted == Spec => []AdmissionConsistent
<1>1. IInv => AdmissionConsistent
  BY DEF IInv, GaugesTracked, AdmissionConsistent
<1> QED BY Invariance, <1>1, PTL

\* Checked admissions between two readings pass the threshold by at most one
\* connection's buffers, and the check fails open only without a usable reading.
THEOREM MemoryGuarded == Spec => []MemoryIsGuarded
<1>1. IInv => MemoryIsGuarded
  BY DEF IInv, MemoryIsGuarded
<1> QED BY Invariance, <1>1, PTL

=============================================================================
