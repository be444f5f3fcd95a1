------------------------ MODULE TopologyHealthProofs ------------------------
(***************************************************************************)
(* Proofs about TopologyHealth and HealthHistory.                          *)
(*                                                                         *)
(* What a consumer may act on is decided by three planes that three tasks  *)
(* change: the routing source, the generation of the feed and the overlay. *)
(* The induction carries how each may lag behind the others.  The loop and *)
(* the overlay know only generations the feed has numbered already, so a   *)
(* number the feed gives out is new to them (Known); a number they share   *)
(* with the feed names the same generation; while the loop holds the feed  *)
(* lock the generation it publishes is the one of the feed (Locked); and   *)
(* the feed holds a source of another epoch than the published discovery   *)
(* set only once routing has been fenced (Epochs).                         *)
(***************************************************************************)
EXTENDS TopologyHealth, HealthHistory, TLAPS, FiniteSetTheorems

EpochRange == 0..bounds.epoch
SourceRange == 0..bounds.generation
RevisionRange == 0..bounds.revision
IdRange == 0..(bounds.revision + 1)
Topologies == {{}} \cup bounds.topologies

ModulePcs == {"select", "commit", "activate", "pair", "feed", "routing",
              "discovery", "feed_close", "abort", "done"}
LoopPcs == {"start", "top", "park", "round", "publish", "gauge", "swap",
            "cadence", "error", "retain", "drain", "done"}

Routings == [source : Sources, last : SourceRange, retired : BOOLEAN]
Refreshes == [pc : {"tick", "pull", "publish", "done"}, epoch : EpochRange,
              ok : BOOLEAN, value : Topologies]
Modules == [pc : ModulePcs, seen : SourceRange, source : Sources]
Feeds == [generation : Generations, revision : RevisionRange,
          closed : BOOLEAN, overflowed : BOOLEAN, live : SUBSET IdRange,
          locked : BOOLEAN]
Loops == [pc : LoopPcs, current : Generations, seen : RevisionRange,
          next : Generations, rev : RevisionRange, todo : SUBSET Backends,
          map : Verdicts, panics : Nat]
Probes == [backend : Backends, id : IdRange \ {0}]
Overlays == [source : Sources, feed : IdRange, map : Verdicts, error : BOOLEAN]

\* Every variable is a record with the fields the code gives it.
Shapes ==
    /\ bounds \in Bounds
    /\ owner \in BOOLEAN
    /\ discovery \in EpochRange /\ material \in EpochRange
    /\ routing \in Routings /\ refresh \in Refreshes
    /\ module \in Modules /\ feed \in Feeds /\ loop \in Loops
    /\ probes \subseteq Probes
    /\ IsFiniteSet(probes) /\ Cardinality(probes) <= bounds.concurrency
    /\ overlay \in [published : Overlays, retired : BOOLEAN]
    /\ gauges \subseteq SourceRange \ {0}

\* A source that is not published is none, and a fenced routing has none.
RoutingInv ==
    /\ routing.source.gen <= routing.last
    /\ routing.source.gen = 0 => routing.source = NoSource
    /\ routing.retired => routing.source = NoSource
    /\ module.pc \in {"discovery", "feed_close", "abort", "done"} => routing.retired

\* The live gate is the one of the generation; numbers are given out in order,
\* and the last one past the limit only to a feed that has overflowed.
FeedInv ==
    /\ feed.live = {feed.generation.id} \ {0}
    /\ feed.generation.id = 0 <=> feed.generation.source.gen = 0
    /\ ~feed.overflowed => feed.generation.id <= feed.revision
    /\ feed.overflowed =>
          feed.generation.id = 0 \/ feed.generation.id = feed.revision + 1
    /\ feed.closed => feed.generation.id = 0

\* A generation or an overlay the loop took from the feed.
KnownGeneration(g) ==
    /\ g.id <= feed.revision
    /\ g.id # 0 /\ g.id = feed.generation.id => g = feed.generation

Known ==
    /\ KnownGeneration(loop.current)
    /\ KnownGeneration(loop.next)
    /\ KnownGeneration([id |-> overlay.published.feed, source |-> overlay.published.source])

\* The feed lock is the loop's, and what it publishes is what the feed holds.
Locked ==
    /\ feed.locked => loop.pc \in {"gauge", "swap", "retain"}
    /\ loop.pc \in {"gauge", "swap"} =>
          feed.locked /\ ~IsTerminal /\ feed.generation = loop.current
    /\ loop.pc = "retain" =>
          feed.locked /\ ~IsTerminal /\ feed.generation = loop.next
          /\ loop.next.source.error

\* The feed serves the epoch of the discovery set, except where routing has
\* been fenced, or the feed serves nobody.
Epochs ==
    /\ module.pc \notin {"activate", "feed_close", "abort", "done"} => material = discovery
    /\ module.pc = "activate" => discovery = material + 1
    /\ module.pc = "commit" => material + 1 <= bounds.epoch
    /\ module.pc \in {"commit", "activate"} => feed.generation.id = 0 \/ IsTerminal
    /\ ~routing.retired /\ ~IsTerminal /\ feed.generation.id # 0 =>
          feed.generation.source.epoch = discovery

\* What the round has: every backend is still to be probed, being probed or
\* probed, all under the generation of the round.
Covers(todo, map, of) ==
    /\ DOMAIN map \cup todo \cup {p.backend : p \in probes} = of.source.backends
    /\ \A b \in DOMAIN map : map[b] = of.id
    /\ \A p \in probes : p.id = of.id
    /\ of.id # 0

RoundInv ==
    /\ bounds.disabled => probes = {}
    /\ loop.pc \in {"start", "top", "park", "publish", "gauge", "swap", "cadence"} => probes = {}
    /\ loop.pc = "round" => Covers(loop.todo, loop.map, loop.current)
    /\ loop.pc \in {"publish", "gauge", "swap"} => Covers({}, loop.map, loop.current)
    /\ loop.pc \in {"start", "top", "park", "cadence"} => loop.map = NoVerdict

\* The verdict of an overlay is of its own source and generation.
OverlayInv ==
    LET o == overlay.published
    IN  /\ o.error = o.source.error
        /\ ~o.error /\ o.feed # 0 =>
              /\ DOMAIN o.map = o.source.backends
              /\ \A b \in DOMAIN o.map : o.map[b] = o.feed

IInv ==
    /\ Shapes /\ RoutingInv /\ FeedInv /\ Known /\ Locked /\ Epochs /\ RoundInv
    /\ OverlayInv

-----------------------------------------------------------------------------
(* The domains *)

\* The domains depend on the bounds of the behaviour, which never change.
LEMMA DomainsKept ==
    ASSUME bounds' = bounds
    PROVE  /\ EpochRange' = EpochRange /\ SourceRange' = SourceRange
           /\ RevisionRange' = RevisionRange /\ IdRange' = IdRange
           /\ Topologies' = Topologies
           /\ Sources' = Sources /\ Generations' = Generations
           /\ Verdicts' = Verdicts /\ Overlays' = Overlays
           /\ Routings' = Routings /\ Refreshes' = Refreshes
           /\ Modules' = Modules /\ Feeds' = Feeds /\ Loops' = Loops
           /\ Probes' = Probes
<1>1. /\ EpochRange' = EpochRange /\ SourceRange' = SourceRange
      /\ RevisionRange' = RevisionRange /\ IdRange' = IdRange
      /\ Topologies' = Topologies /\ Sources' = Sources /\ Verdicts' = Verdicts
  BY DEF EpochRange, SourceRange, RevisionRange, IdRange, Topologies, Sources, Verdicts
<1>2. Generations' = Generations
  BY <1>1 DEF Generations
<1> QED BY <1>1, <1>2 DEF Overlays, Routings, Refreshes, Modules, Feeds, Loops, Probes

LEMMA BoundsType ==
    ASSUME bounds \in Bounds
    PROVE  /\ bounds.topologies \in SUBSET SUBSET Backends
           /\ bounds.epoch \in Nat \ {0} /\ bounds.generation \in Nat \ {0}
           /\ bounds.revision \in Nat \ {0} /\ bounds.concurrency \in Nat \ {0}
           /\ bounds.panics \in Nat /\ bounds.disabled \in BOOLEAN
           /\ EpochRange \subseteq Nat /\ SourceRange \subseteq Nat
           /\ RevisionRange \subseteq Nat /\ IdRange \subseteq Nat
           /\ RevisionRange \subseteq IdRange
           /\ 0 \in EpochRange /\ 0 \in SourceRange /\ 0 \in RevisionRange
           /\ {} \in Topologies
BY DEF Bounds, EpochRange, SourceRange, RevisionRange, IdRange, Topologies

LEMMA SourceType ==
    ASSUME bounds \in Bounds
    PROVE  /\ NoSource \in Sources
           /\ \A s \in Sources :
                /\ s.gen \in SourceRange /\ s.gen \in Nat
                /\ s.epoch \in EpochRange /\ s.epoch \in Nat
                /\ s.backends \in Topologies
                /\ s.backends \in SUBSET Backends
                /\ s.error \in BOOLEAN
BY BoundsType DEF Sources, NoSource, SourceRange, EpochRange, Topologies

LEMMA GenerationType ==
    ASSUME bounds \in Bounds
    PROVE  /\ NoGeneration \in Generations
           /\ NoGeneration.id = 0 /\ NoGeneration.source = NoSource
           /\ \A g \in Generations :
                /\ g.id \in IdRange /\ g.id \in Nat
                /\ g.source \in Sources
           /\ \A i \in IdRange, s \in Sources :
                /\ [id |-> i, source |-> s] \in Generations
                /\ [id |-> i, source |-> s].id = i
                /\ [id |-> i, source |-> s].source = s
BY BoundsType, SourceType DEF Generations, NoGeneration, IdRange

LEMMA VerdictType ==
    ASSUME bounds \in Bounds
    PROVE  /\ NoVerdict \in Verdicts /\ DOMAIN NoVerdict = {}
           /\ \A v \in Verdicts : DOMAIN v \in SUBSET Backends
           /\ \A bs \in SUBSET Backends, i \in IdRange \ {0} :
                [b \in bs |-> i] \in Verdicts
           /\ \A v \in Verdicts,
                 p \in Probes :
                /\ Recorded(v, p) \in Verdicts
                /\ DOMAIN Recorded(v, p) = DOMAIN v \cup {p.backend}
<1> DEFINE Ids == IdRange \ {0}
<1>0. Verdicts = UNION {[bs -> Ids] : bs \in SUBSET Backends}
  <2>1. Ids = 1..(bounds.revision + 1)
    BY BoundsType DEF IdRange
  <2> QED BY <2>1 DEF Verdicts
<1> HIDE DEF Ids
<1>1. NoVerdict \in Verdicts /\ DOMAIN NoVerdict = {}
  <2>1. NoVerdict \in [{} -> Ids] /\ {} \in SUBSET Backends
    BY DEF NoVerdict
  <2> QED BY <2>1, <1>0 DEF NoVerdict
<1>2. \A v \in Verdicts : DOMAIN v \in SUBSET Backends
  BY <1>0
<1>3. \A bs \in SUBSET Backends, i \in IdRange \ {0} :
        [b \in bs |-> i] \in Verdicts
  <2> TAKE bs \in SUBSET Backends, i \in IdRange \ {0}
  <2>1. [b \in bs |-> i] \in [bs -> Ids]
    BY DEF Ids
  <2> QED BY <2>1, <1>0
<1>4. ASSUME NEW v \in Verdicts,
             NEW p \in Probes
      PROVE  /\ Recorded(v, p) \in Verdicts
             /\ DOMAIN Recorded(v, p) = DOMAIN v \cup {p.backend}
  <2>1. PICK bs \in SUBSET Backends : v \in [bs -> Ids]
    BY <1>0
  <2>2. bs \cup {p.backend} \in SUBSET Backends /\ p.id \in Ids
    BY DEF Probes, Ids
  <2>3. Recorded(v, p) \in [bs \cup {p.backend} -> Ids]
    BY <2>1, <2>2 DEF Recorded
  <2>4. DOMAIN Recorded(v, p) = DOMAIN v \cup {p.backend}
    BY DEF Recorded
  <2> QED BY <2>2, <2>3, <2>4, <1>0
<1> QED BY <1>1, <1>2, <1>3, <1>4

LEMMA OverlayType ==
    ASSUME bounds \in Bounds
    PROVE  /\ NoOverlay \in Overlays
           /\ NoOverlay.feed = 0 /\ NoOverlay.source = NoSource
           /\ NoOverlay.error = FALSE /\ NoSource.error = FALSE
           /\ \A o \in Overlays :
                /\ o.source \in Sources /\ o.feed \in IdRange
                /\ o.map \in Verdicts /\ o.error \in BOOLEAN
           /\ \A s \in Sources, i \in IdRange, v \in Verdicts,
                 e \in BOOLEAN :
                [source |-> s, feed |-> i, map |-> v, error |-> e] \in Overlays
<1> USE BoundsType
<1>1. 0 \in IdRange
  BY DEF IdRange
<1> QED BY <1>1, SourceType, VerdictType DEF Overlays, NoOverlay, NoSource

-----------------------------------------------------------------------------
(* The initial states *)

LEMMA InitIInv == Init => IInv
<1> SUFFICES ASSUME Init PROVE IInv
  OBVIOUS
<1>0. bounds \in Bounds
  BY InstancesAssumption DEF Init
<1> USE <1>0
<1> USE BoundsType, SourceType, GenerationType, VerdictType, OverlayType
<1>1. probes = {} /\ IsFiniteSet(probes) /\ Cardinality(probes) = 0
  BY FS_EmptySet DEF Init
<1>2. Shapes
  <2>1. discovery \in EpochRange /\ material \in EpochRange
    BY DEF Init, EpochRange
  <2>2. routing \in Routings /\ refresh \in Refreshes /\ module \in Modules
    BY DEF Init, Routings, Refreshes, Modules, ModulePcs
  <2>3. feed \in Feeds /\ loop \in Loops /\ overlay \in [published : Overlays, retired : BOOLEAN]
    BY DEF Init, Feeds, Loops, LoopPcs
  <2> QED BY <1>1, <2>1, <2>2, <2>3 DEF Init, Shapes
<1>3. RoutingInv /\ FeedInv /\ Locked /\ Epochs
  BY DEF Init, RoutingInv, FeedInv, Locked, Epochs, NoSource, NoGeneration
<1>4. Known
  BY DEF Init, Known, KnownGeneration, NoGeneration, NoOverlay
<1>5. RoundInv
  BY <1>1 DEF Init, RoundInv
<1>6. OverlayInv
  BY DEF Init, OverlayInv
<1> QED BY <1>2, <1>3, <1>4, <1>5, <1>6 DEF IInv

-----------------------------------------------------------------------------
(* The refresh task *)

LEMMA PollStartKeeps == ASSUME IInv, PollStart PROVE IInv'
<1> USE DEF IInv, PollStart
<1>1. refresh' \in Refreshes
  BY DEF Shapes, Refreshes
<1>2. Shapes'
  BY <1>1, DomainsKept DEF Shapes
<1>3. RoutingInv' /\ FeedInv' /\ Locked' /\ Epochs'
  BY DEF RoutingInv, FeedInv, Locked, Epochs, IsTerminal
<1>4. Known' /\ RoundInv' /\ OverlayInv'
  BY DEF Known, KnownGeneration, RoundInv, Covers, OverlayInv
<1> QED BY <1>2, <1>3, <1>4

LEMMA PollEndKeeps == ASSUME IInv, PollEnd PROVE IInv'
<1> USE DEF IInv, PollEnd
<1>1. refresh' \in Refreshes
  <2>1. \A v \in bounds.topologies : v \in Topologies
    BY DEF Topologies
  <2> QED BY <2>1 DEF Shapes, Refreshes
<1>2. Shapes'
  BY <1>1, DomainsKept DEF Shapes
<1>3. RoutingInv' /\ FeedInv' /\ Locked' /\ Epochs'
  BY DEF RoutingInv, FeedInv, Locked, Epochs, IsTerminal
<1>4. Known' /\ RoundInv' /\ OverlayInv'
  BY DEF Known, KnownGeneration, RoundInv, Covers, OverlayInv
<1> QED BY <1>2, <1>3, <1>4

\* A publication of routing numbers a new source, or leaves the old one.
LEMMA PublishLocked ==
    ASSUME IInv, NEW epoch \in EpochRange, NEW backends \in Topologies,
           NEW error \in BOOLEAN,
           publish_locked(epoch, backends, error)
    PROVE  \/ routing' = routing
           \/ /\ routing' \in Routings
              /\ routing'.retired = routing.retired
              /\ routing'.source.gen = routing.last + 1
              /\ routing'.last = routing.last + 1
              /\ routing'.source.epoch = epoch
<1> USE DEF IInv, Shapes
<1>1. CASE routing.last < bounds.generation
  <2> DEFINE n == routing.last + 1
             s == [gen |-> n, epoch |-> epoch, backends |-> backends, error |-> error]
  <2>1. routing' = [routing EXCEPT !.source = s, !.last = n]
    BY <1>1 DEF publish_locked
  <2>2. n \in SourceRange
    BY <1>1, BoundsType DEF Routings, SourceRange
  <2>3. s \in Sources
    <3> HIDE DEF n
    <3>1. Sources = [gen : SourceRange, epoch : EpochRange, backends : Topologies,
                     error : BOOLEAN]
      BY DEF Sources, SourceRange, EpochRange, Topologies
    <3> QED BY <2>2, <3>1
  <2>4. s.gen = n /\ s.epoch = epoch
    OBVIOUS
  <2> HIDE DEF s, n
  <2>5. routing' \in Routings /\ routing'.source = s /\ routing'.last = n
        /\ routing'.retired = routing.retired
    BY <2>1, <2>2, <2>3 DEF Routings
  <2> QED BY <2>4, <2>5 DEF n
<1>2. CASE ~(routing.last < bounds.generation)
  BY <1>2 DEF publish_locked
<1> QED BY <1>1, <1>2

\* What a pull that ended does to routing, whichever set it was made with.
LEMMA Publishes ==
    ASSUME IInv, publish_refresh_result
    PROVE  \/ routing' = routing
           \/ /\ routing' \in Routings
              /\ ~routing.retired /\ routing'.retired = routing.retired
              /\ routing'.source.gen = routing.last + 1
              /\ routing'.last = routing.last + 1
              /\ routing'.source.epoch >= routing.source.epoch
<1> USE DEF IInv
<1> SUFFICES ASSUME routing' # routing
             PROVE  /\ routing' \in Routings
                    /\ ~routing.retired /\ routing'.retired = routing.retired
                    /\ routing'.source.gen = routing.last + 1
                    /\ routing'.last = routing.last + 1
                    /\ routing'.source.epoch >= routing.source.epoch
  OBVIOUS
<1> DEFINE e == refresh.epoch
           old == routing.source.epoch
<1>1. /\ e \in EpochRange /\ e \in Nat /\ refresh.value \in Topologies
      /\ routing.source.backends \in Topologies /\ old \in Nat
      /\ refresh.ok \in BOOLEAN
  BY SourceType, BoundsType DEF Shapes, Refreshes, Routings
<1>2. routing.source.gen = 0 => old = 0
  BY DEF RoutingInv, NoSource
<1>3. CASE refresh.ok
  <2> DEFINE older == e < old
             v == refresh.value
  <2>1. publish(e, v)
    BY <1>3 DEF publish_refresh_result
  <2>2. ~routing.retired /\ (routing.source.gen # 0 => ~older) /\ publish_locked(e, v, FALSE)
    <3> HIDE DEF older
    <3> QED BY <2>1 DEF publish, older
  <2>3. ~older
    BY <1>1, <1>2, <2>2
  <2> HIDE DEF e, v
  <2>4. routing' \in Routings /\ routing'.retired = routing.retired
        /\ routing'.source.gen = routing.last + 1
        /\ routing'.last = routing.last + 1 /\ routing'.source.epoch = e
    BY <2>2, <1>1, PublishLocked DEF v
  <2> QED BY <2>2, <2>3, <2>4, <1>1
<1>4. CASE ~refresh.ok
  <2> DEFINE v == routing.source.backends
  <2>1. publish_error(e)
    BY <1>4 DEF publish_refresh_result
  <2>2. ~routing.retired /\ e = old /\ publish_locked(e, v, TRUE)
    BY <2>1 DEF publish_error
  <2> HIDE DEF e, v
  <2>3. routing' \in Routings /\ routing'.retired = routing.retired
        /\ routing'.source.gen = routing.last + 1
        /\ routing'.last = routing.last + 1 /\ routing'.source.epoch = e
    BY <2>2, <1>1, PublishLocked DEF v
  <2> QED BY <2>2, <2>3, <1>1
<1> QED BY <1>1, <1>3, <1>4

LEMMA PublishRefreshKeeps == ASSUME IInv, publish_refresh_result PROVE IInv'
<1> USE DEF IInv, publish_refresh_result
<1>0. /\ bounds' = bounds /\ feed' = feed /\ loop' = loop /\ module' = module
      /\ overlay' = overlay /\ probes' = probes /\ discovery' = discovery
      /\ material' = material
  OBVIOUS
<1>1. routing' \in Routings /\ routing'.retired = routing.retired
  BY Publishes DEF Shapes
<1>2. Shapes'
  <2>1. refresh' \in Refreshes
    BY BoundsType DEF Shapes, Refreshes
  <2> QED BY <1>1, <2>1, DomainsKept DEF Shapes
<1>3. RoutingInv'
  <2>1. routing.last \in Nat
    BY BoundsType DEF Shapes, Routings
  <2> QED BY Publishes, <1>0, <2>1 DEF RoutingInv
<1>4. FeedInv' /\ Locked' /\ Epochs'
  BY <1>0, <1>1 DEF FeedInv, Locked, Epochs, IsTerminal
<1>5. Known' /\ RoundInv' /\ OverlayInv'
  BY <1>0 DEF Known, KnownGeneration, RoundInv, Covers, OverlayInv
<1> QED BY <1>2, <1>3, <1>4, <1>5

-----------------------------------------------------------------------------
(* The feed *)

\* A transition gives the next generation a number nobody knows yet.
LEMMA FeedMoves ==
    ASSUME IInv, NEW s \in Sources, NEW closing \in BOOLEAN,
           Transition(s, closing), ~feed.locked,
           closing => s = NoSource, ~closing => ~IsTerminal,
           UNCHANGED <<bounds, loop, overlay>>
    PROVE  /\ feed' \in Feeds /\ FeedInv' /\ Known' /\ Locked'
           /\ feed'.generation.id # 0 => feed'.generation.source = s /\ s.gen # 0
<1> USE DEF IInv
<1> DEFINE new == s.gen # 0
           g == IF s.gen = 0 THEN NoGeneration
                ELSE [id |-> feed.revision + 1, source |-> s]
           live == {g.id} \ {0}
           full == feed.revision = bounds.revision
           r == IF feed.revision < bounds.revision THEN feed.revision + 1
                ELSE feed.revision
           closed == feed.closed \/ closing
           over == feed.overflowed \/ full
<1>0. /\ feed \in Feeds /\ bounds \in Bounds /\ bounds.revision \in Nat
      /\ feed.revision \in RevisionRange
      /\ feed.revision \in Nat /\ feed.revision <= bounds.revision
      /\ feed.closed \in BOOLEAN /\ feed.overflowed \in BOOLEAN
  BY BoundsType DEF Shapes, Feeds, RevisionRange
<1>1. feed' = [feed EXCEPT !.generation = g, !.live = live, !.closed = closed,
                           !.revision = r, !.overflowed = over]
  BY DEF Transition
<1>2. /\ r \in RevisionRange /\ r \in Nat /\ r >= feed.revision
      /\ ~full => r = feed.revision + 1
      /\ full => r = feed.revision
  BY <1>0 DEF RevisionRange
<1>3. feed.revision + 1 \in IdRange
  BY <1>0 DEF IdRange
<1>4. /\ g \in Generations /\ g.id \in IdRange /\ g.id \in Nat
      /\ new => g.id = feed.revision + 1 /\ g.source = s
      /\ ~new => g = NoGeneration
  BY <1>0, <1>3, GenerationType, BoundsType
<1>5. live \in SUBSET IdRange /\ closed \in BOOLEAN /\ over \in BOOLEAN
  BY <1>4, <1>0
<1>6. /\ feed' \in Feeds
      /\ feed'.generation = g /\ feed'.live = live /\ feed'.closed = closed
      /\ feed'.revision = r /\ feed'.overflowed = over
      /\ feed'.locked = feed.locked
  <2> HIDE DEF g, live, r, closed, over
  <2> QED BY <1>0, <1>1, <1>2, <1>4, <1>5 DEF Feeds
<1>7. new => ~closing
  BY DEF NoSource
<1> HIDE DEF g, r
<1>8. FeedInv'
  <2>1. NoGeneration.id = 0 /\ NoGeneration.source.gen = 0
    BY DEF NoGeneration, NoSource
  <2>2. CASE new
    <3>1. ~closing /\ ~feed.closed /\ ~feed.overflowed
      BY <2>2, <1>7 DEF IsTerminal
    <3>2. g.id = feed.revision + 1 /\ g.id # 0 /\ g.source.gen # 0
      BY <2>2, <1>0, <1>4
    <3>3. ~closed /\ (over <=> full)
      BY <3>1
    <3>4. (~over => g.id <= r) /\ (over => g.id = r + 1)
      BY <3>2, <3>3, <1>0, <1>2
    <3> HIDE DEF closed, over
    <3> QED BY <1>6, <3>2, <3>3, <3>4 DEF FeedInv
  <2>3. CASE ~new
    <3>1. g.id = 0 /\ g.source.gen = 0
      BY <2>3, <1>4, <2>1
    <3> HIDE DEF closed, over
    <3> QED BY <1>2, <1>6, <3>1 DEF FeedInv
  <2> QED BY <2>2, <2>3
<1>9. Known'
  <2>1. ASSUME NEW k, k.id \in Nat, KnownGeneration(k)
        PROVE  k.id <= feed'.revision /\ (k.id # 0 => k.id # feed'.generation.id)
    BY <1>0, <1>2, <1>4, <1>6, <2>1, GenerationType DEF KnownGeneration
  <2>2. loop.current.id \in Nat /\ loop.next.id \in Nat /\ overlay.published.feed \in Nat
    BY <1>0, GenerationType, OverlayType, BoundsType DEF Shapes, Loops
  <2> DEFINE o == [id |-> overlay.published.feed, source |-> overlay.published.source]
  <2>3. o.id \in Nat
    BY <2>2
  <2>4. /\ loop.current.id <= feed'.revision
        /\ loop.current.id # 0 => loop.current.id # feed'.generation.id
        /\ loop.next.id <= feed'.revision
        /\ loop.next.id # 0 => loop.next.id # feed'.generation.id
    BY <2>1, <2>2 DEF Known
  <2>5. /\ o.id <= feed'.revision
        /\ o.id # 0 => o.id # feed'.generation.id
    <3>1. KnownGeneration(o)
      BY DEF Known
    <3> HIDE DEF o
    <3> QED BY <2>1, <2>3, <3>1
  <2>6. o' = o
    OBVIOUS
  <2> HIDE DEF o
  <2>7. KnownGeneration(loop.current)' /\ KnownGeneration(loop.next)'
    BY <2>4 DEF KnownGeneration
  <2>8. KnownGeneration(o)'
    BY <2>5, <2>6 DEF KnownGeneration
  <2> QED BY <2>7, <2>8 DEF Known, o
<1>10. Locked'
  BY <1>6 DEF Locked
<1>11. feed'.generation.id # 0 => feed'.generation.source = s /\ s.gen # 0
  BY <1>0, <1>4, <1>6, GenerationType
<1> QED BY <1>6, <1>8, <1>9, <1>10, <1>11

LEMMA WithdrawMoves ==
    ASSUME IInv, withdraw, ~feed.locked, UNCHANGED <<bounds, loop, overlay>>
    PROVE  /\ feed' \in Feeds /\ FeedInv' /\ Known' /\ Locked'
           /\ feed'.generation.id = 0 \/ (IsTerminal /\ feed' = feed)
<1>1. CASE IsTerminal
  <2>1. feed' = feed
    BY <1>1 DEF withdraw
  <2> QED BY <1>1, <2>1 DEF IInv, Shapes, FeedInv, Known, KnownGeneration, Locked, IsTerminal
<1>2. CASE ~IsTerminal
  <2>1. Transition(NoSource, FALSE)
    BY <1>2 DEF withdraw
  <2>2. NoSource \in Sources /\ NoSource.gen = 0
    BY SourceType DEF NoSource, IInv, Shapes
  <2> QED BY <1>2, <2>1, <2>2, FeedMoves
<1> QED BY <1>1, <1>2

-----------------------------------------------------------------------------
(* The module task *)

LEMMA ReconfigureKeeps == ASSUME IInv, Reconfigure PROVE IInv'
<1> USE DEF IInv
<1>0. UNCHANGED <<owner, discovery, material, routing, refresh, loop, probes,
                  overlay, gauges, bounds>>
  BY DEF Reconfigure
<1>1. /\ feed' \in Feeds /\ FeedInv' /\ Known' /\ Locked'
      /\ feed'.generation.id = 0 \/ (IsTerminal /\ feed' = feed)
  BY <1>0, WithdrawMoves DEF Reconfigure
<1>2. module' \in Modules /\ module'.pc = "commit" /\ module.pc = "select"
  BY DEF Reconfigure, ModuleGoes, Shapes, Modules, ModulePcs
<1>3. Shapes'
  BY <1>0, <1>1, <1>2, DomainsKept DEF Shapes
<1>4. RoutingInv'
  BY <1>0, <1>2 DEF RoutingInv
<1>5. Epochs'
  <2>1. material + 1 <= bounds.epoch
    BY <1>2, BoundsType DEF Reconfigure, Epochs, Shapes
  <2> QED BY <1>0, <1>1, <1>2, <2>1 DEF Epochs, IsTerminal
<1>6. RoundInv' /\ OverlayInv'
  BY <1>0 DEF RoundInv, Covers, OverlayInv
<1> QED BY <1>1, <1>3, <1>4, <1>5, <1>6

LEMMA CommitDiscoveryKeeps == ASSUME IInv, CommitDiscovery PROVE IInv'
<1> USE DEF IInv
<1>0. UNCHANGED <<owner, material, routing, refresh, feed, loop, probes, overlay,
                  gauges, bounds>>
  BY DEF CommitDiscovery
<1>1. module' \in Modules /\ module'.pc = "activate" /\ module.pc = "commit"
      /\ discovery' = material + 1
  BY DEF CommitDiscovery, ModuleGoes, Shapes, Modules, ModulePcs
<1>2. discovery' \in EpochRange
  BY <1>1, BoundsType DEF Epochs, Shapes, EpochRange
<1>3. Shapes'
  BY <1>0, <1>1, <1>2, DomainsKept DEF Shapes
<1>4. RoutingInv' /\ FeedInv' /\ Locked' /\ Epochs'
  BY <1>0, <1>1 DEF RoutingInv, FeedInv, Locked, Epochs, IsTerminal
<1>5. Known' /\ RoundInv' /\ OverlayInv'
  BY <1>0 DEF Known, KnownGeneration, RoundInv, Covers, OverlayInv
<1> QED BY <1>3, <1>4, <1>5

LEMMA ActivateKeeps == ASSUME IInv, Activate PROVE IInv'
<1> USE DEF IInv
<1>0. UNCHANGED <<owner, discovery, routing, refresh, feed, loop, probes, overlay,
                  gauges, bounds>>
  BY DEF Activate
<1>1. module' \in Modules /\ module'.pc = "pair" /\ material' = discovery
  BY DEF Activate, ModuleGoes, Shapes, Modules, ModulePcs
<1>2. Shapes'
  BY <1>0, <1>1, DomainsKept DEF Shapes
<1>3. RoutingInv' /\ FeedInv' /\ Locked' /\ Epochs'
  BY <1>0, <1>1 DEF RoutingInv, FeedInv, Locked, Epochs, IsTerminal
<1>4. Known' /\ RoundInv' /\ OverlayInv'
  BY <1>0 DEF Known, KnownGeneration, RoundInv, Covers, OverlayInv
<1> QED BY <1>2, <1>3, <1>4

\* Steps of the module that touch nothing but its own place.
LEMMA ModuleWaitsKeep ==
    ASSUME IInv, RoutingChanged \/ PairRead \/ Retire \/ Joined
    PROVE  IInv'
<1> USE DEF IInv
<1>0. UNCHANGED <<owner, discovery, material, routing, refresh, feed, loop, probes,
                  overlay, gauges, bounds>>
  BY DEF RoutingChanged, PairRead, Retire, Joined
<1>1. /\ module' \in Modules
      /\ \/ module.pc = "select" /\ module'.pc \in {"pair", "routing"}
         \/ module.pc = "pair" /\ module'.pc = "feed"
         \/ module.pc = "abort" /\ module'.pc = "done"
  BY DEF RoutingChanged, PairRead, Retire, Joined, ModuleGoes, Shapes, Modules,
         ModulePcs, Routings
<1>2. Shapes'
  BY <1>0, <1>1, DomainsKept DEF Shapes
<1>3. RoutingInv' /\ FeedInv' /\ Locked' /\ Epochs'
  BY <1>0, <1>1 DEF RoutingInv, FeedInv, Locked, Epochs, IsTerminal
<1>4. Known' /\ RoundInv' /\ OverlayInv'
  BY <1>0 DEF Known, KnownGeneration, RoundInv, Covers, OverlayInv
<1> QED BY <1>2, <1>3, <1>4

LEMMA PairFeedKeeps == ASSUME IInv, PairFeed PROVE IInv'
<1> USE DEF IInv
<1>0. UNCHANGED <<owner, discovery, material, routing, refresh, loop, probes,
                  overlay, gauges, bounds>>
  BY DEF PairFeed
<1>1. module' \in Modules /\ module'.pc = "select" /\ module.pc = "feed"
  BY SourceType DEF PairFeed, Shapes, Modules, ModulePcs
<1>2. /\ feed' \in Feeds /\ FeedInv' /\ Known' /\ Locked'
      /\ \/ feed'.generation.id = 0
         \/ feed' = feed
         \/ feed'.generation.source.epoch = material
  <2>1. CASE Paired(module.source) /\ ~IsTerminal
    <3>1. Transition(module.source, FALSE) /\ module.source \in Sources
      BY <2>1 DEF PairFeed, set, Shapes, Modules
    <3>2. module.source.epoch = material
      BY <2>1 DEF Paired
    <3> QED BY <1>0, <2>1, <3>1, <3>2, FeedMoves DEF PairFeed
  <2>2. CASE Paired(module.source) /\ IsTerminal
    <3>1. feed' = feed
      BY <2>2 DEF PairFeed, set
    <3> QED BY <1>0, <3>1 DEF Shapes, FeedInv, Known, KnownGeneration, Locked, IsTerminal
  <2>3. CASE ~Paired(module.source)
    BY <1>0, <2>3, WithdrawMoves DEF PairFeed
  <2> QED BY <2>1, <2>2, <2>3
<1>3. Shapes'
  BY <1>0, <1>1, <1>2, DomainsKept DEF Shapes
<1>4. RoutingInv'
  BY <1>0, <1>1 DEF RoutingInv
<1>5. Epochs'
  BY <1>0, <1>1, <1>2 DEF Epochs, IsTerminal
<1>6. RoundInv' /\ OverlayInv'
  BY <1>0 DEF RoundInv, Covers, OverlayInv
<1> QED BY <1>2, <1>3, <1>4, <1>5, <1>6

LEMMA FenceRoutingKeeps == ASSUME IInv, FenceRouting PROVE IInv'
<1> USE DEF IInv
<1>0. UNCHANGED <<owner, discovery, material, refresh, feed, loop, probes, overlay,
                  gauges, bounds>>
  BY DEF FenceRouting
<1>1. module' \in Modules /\ module'.pc = "discovery" /\ module.pc = "routing"
  BY DEF FenceRouting, ModuleGoes, Shapes, Modules, ModulePcs
<1>2. routing' \in Routings /\ routing'.retired /\ routing'.source = NoSource
      /\ routing'.last = routing.last
  BY SourceType DEF FenceRouting, Shapes, Routings
<1>3. Shapes'
  BY <1>0, <1>1, <1>2, DomainsKept DEF Shapes
<1>4. RoutingInv'
  BY <1>2, BoundsType DEF RoutingInv, NoSource, Shapes, Routings
<1>5. FeedInv' /\ Locked' /\ Epochs'
  BY <1>0, <1>1, <1>2 DEF FeedInv, Locked, Epochs, IsTerminal
<1>6. Known' /\ RoundInv' /\ OverlayInv'
  BY <1>0 DEF Known, KnownGeneration, RoundInv, Covers, OverlayInv
<1> QED BY <1>3, <1>4, <1>5, <1>6

LEMMA FenceDiscoveryKeeps == ASSUME IInv, FenceDiscovery PROVE IInv'
<1> USE DEF IInv
<1>0. UNCHANGED <<owner, material, routing, refresh, feed, loop, probes, overlay,
                  gauges, bounds>>
  BY DEF FenceDiscovery
<1>1. module' \in Modules /\ module'.pc = "feed_close" /\ module.pc = "discovery"
      /\ discovery' = 0
  BY DEF FenceDiscovery, ModuleGoes, Shapes, Modules, ModulePcs
<1>2. Shapes'
  BY <1>0, <1>1, DomainsKept, BoundsType DEF Shapes
<1>3. RoutingInv' /\ FeedInv' /\ Locked' /\ Epochs'
  BY <1>0, <1>1 DEF RoutingInv, FeedInv, Locked, Epochs, IsTerminal
<1>4. Known' /\ RoundInv' /\ OverlayInv'
  BY <1>0 DEF Known, KnownGeneration, RoundInv, Covers, OverlayInv
<1> QED BY <1>2, <1>3, <1>4

LEMMA FenceFeedKeeps == ASSUME IInv, FenceFeed PROVE IInv'
<1> USE DEF IInv
<1>0. UNCHANGED <<owner, discovery, material, routing, refresh, loop, probes,
                  overlay, gauges, bounds>>
  BY DEF FenceFeed
<1>1. module' \in Modules /\ module'.pc = "abort" /\ module.pc = "feed_close"
  BY DEF FenceFeed, ModuleGoes, Shapes, Modules, ModulePcs
<1>2. feed' \in Feeds /\ FeedInv' /\ Known' /\ Locked'
  <2>1. CASE feed.closed
    <3>1. feed' = feed
      BY <2>1 DEF FenceFeed, close
    <3> QED BY <1>0, <3>1 DEF Shapes, FeedInv, Known, KnownGeneration, Locked, IsTerminal
  <2>2. CASE ~feed.closed
    <3>1. Transition(NoSource, TRUE) /\ NoSource \in Sources
      BY <2>2, SourceType DEF FenceFeed, close, Shapes
    <3> QED BY <1>0, <3>1, FeedMoves DEF FenceFeed
  <2> QED BY <2>1, <2>2
<1>3. Shapes'
  BY <1>0, <1>1, <1>2, DomainsKept DEF Shapes
<1>4. RoutingInv' /\ Epochs'
  BY <1>0, <1>1 DEF RoutingInv, Epochs
<1>5. RoundInv' /\ OverlayInv'
  BY <1>0 DEF RoundInv, Covers, OverlayInv
<1> QED BY <1>2, <1>3, <1>4, <1>5

LEMMA AbortRefreshKeeps == ASSUME IInv, AbortRefresh \/ OwnerReleased PROVE IInv'
<1> USE DEF IInv
<1>0. UNCHANGED <<discovery, material, routing, module, feed, loop, probes, overlay,
                  gauges, bounds>>
  BY DEF AbortRefresh, OwnerReleased
<1>1. refresh' \in Refreshes /\ owner' \in BOOLEAN
  BY DEF AbortRefresh, OwnerReleased, Shapes, Refreshes
<1>2. Shapes'
  BY <1>0, <1>1, DomainsKept DEF Shapes
<1>3. RoutingInv' /\ FeedInv' /\ Locked' /\ Epochs'
  BY <1>0 DEF RoutingInv, FeedInv, Locked, Epochs, IsTerminal
<1>4. Known' /\ RoundInv' /\ OverlayInv'
  BY <1>0 DEF Known, KnownGeneration, RoundInv, Covers, OverlayInv
<1> QED BY <1>2, <1>3, <1>4

-----------------------------------------------------------------------------
(* The health loop *)

SameFeed ==
    /\ feed'.generation = feed.generation /\ feed'.revision = feed.revision
    /\ feed'.closed = feed.closed /\ feed'.overflowed = feed.overflowed
    /\ feed'.live = feed.live

\* A step of the loop leaves routing, the epochs and the generations alone.
LEMMA LoopStepKeeps ==
    ASSUME IInv, UNCHANGED LoopFrame, feed' \in Feeds, SameFeed,
           loop' \in Loops, probes' \subseteq Probes, IsFiniteSet(probes'),
           Cardinality(probes') <= bounds.concurrency,
           overlay' \in [published : Overlays, retired : BOOLEAN],
           gauges' \subseteq SourceRange \ {0},
           Known', Locked', RoundInv', OverlayInv'
    PROVE  IInv'
<1> USE DEF IInv
<1>0. /\ owner' = owner /\ discovery' = discovery /\ material' = material
      /\ routing' = routing /\ refresh' = refresh /\ module' = module
      /\ bounds' = bounds
  BY DEF LoopFrame
<1>1. Shapes'
  BY <1>0, DomainsKept DEF Shapes
<1>2. RoutingInv'
  BY <1>0 DEF RoutingInv
<1>3. FeedInv'
  BY DEF FeedInv, SameFeed
<1>4. Epochs'
  BY <1>0 DEF Epochs, SameFeed, IsTerminal
<1> QED BY <1>1, <1>2, <1>3, <1>4

\* What the round keeps besides the loop's own place.
LEMMA QuietProbes ==
    ASSUME IInv
    PROVE  /\ probes \subseteq Probes /\ IsFiniteSet(probes)
           /\ Cardinality(probes) <= bounds.concurrency
           /\ {} \subseteq Probes /\ IsFiniteSet({})
           /\ Cardinality({}) <= bounds.concurrency
           /\ feed \in Feeds /\ loop \in Loops
           /\ overlay \in [published : Overlays, retired : BOOLEAN]
           /\ gauges \subseteq SourceRange \ {0}
           /\ bounds \in Bounds
BY FS_EmptySet, BoundsType DEF IInv, Shapes

\* A step that only moves the loop: the parts about overlay and feed stay.
LEMMA LoopOnlyKeeps ==
    ASSUME IInv, UNCHANGED <<LoopFrame, feed, overlay>>,
           loop' \in Loops, probes' \subseteq Probes, IsFiniteSet(probes'),
           Cardinality(probes') <= bounds.concurrency,
           gauges' \subseteq SourceRange \ {0},
           KnownGeneration(loop'.current), KnownGeneration(loop'.next),
           Locked', RoundInv'
    PROVE  IInv'
<1>1. feed' = feed /\ overlay' = overlay
  BY Zenon
<1>2. SameFeed /\ feed' \in Feeds
  BY <1>1, QuietProbes DEF SameFeed
<1>3. OverlayInv'
  BY <1>1 DEF IInv, OverlayInv
<1>4. Known'
  BY <1>1 DEF IInv, Known, KnownGeneration
<1> QED BY <1>1, <1>2, <1>3, <1>4, QuietProbes, LoopStepKeeps

\* The loop ends: the overlay is withdrawn.
LEMMA StopKeeps ==
    ASSUME IInv, UNCHANGED <<LoopFrame, feed, gauges>>,
           loop.pc \notin {"gauge", "swap", "retain"},
           loop' = [loop EXCEPT !.pc = "done"], revoke_and_clear,
           probes' = {} \/ (probes' = probes)
    PROVE  IInv'
<1> USE DEF IInv
<1> USE QuietProbes
<1>0. feed' = feed /\ gauges' = gauges
  BY Zenon
<1>1. loop' \in Loops /\ loop'.pc = "done"
      /\ loop'.current = loop.current /\ loop'.next = loop.next
  BY DEF Loops, LoopPcs
<1>2. overlay' = [published |-> NoOverlay, retired |-> TRUE]
  BY DEF revoke_and_clear
<1>3. overlay' \in [published : Overlays, retired : BOOLEAN]
      /\ overlay'.published = NoOverlay
  BY <1>2, OverlayType
<1>4. Known'
  <2>1. NoOverlay.feed = 0 /\ feed.revision \in Nat
    BY OverlayType, BoundsType DEF Feeds
  <2> QED BY <1>0, <1>1, <1>3, <2>1 DEF Known, KnownGeneration
<1>5. Locked'
  BY <1>0, <1>1 DEF Locked
<1>6. RoundInv'
  BY <1>1 DEF RoundInv, LoopFrame
<1>7. OverlayInv'
  BY <1>3, OverlayType DEF OverlayInv
<1>8. SameFeed
  BY <1>0 DEF SameFeed
<1> QED BY <1>0, <1>1, <1>3, <1>4, <1>5, <1>6, <1>7, <1>8, LoopStepKeeps, Zenon

LEMMA AbortHealthKeeps == ASSUME IInv, AbortHealth PROVE IInv'
<1>1. loop.pc \notin {"gauge", "swap", "retain"}
  BY DEF AbortHealth, Awaiting
<1>2. UNCHANGED <<LoopFrame, feed, gauges>>
  BY DEF AbortHealth, LoopFrame
<1> QED BY <1>1, <1>2, StopKeeps DEF AbortHealth

\* A snapshot of a live feed is a known generation.
LEMMA Snapshot ==
    ASSUME IInv, ~IsTerminal
    PROVE  /\ KnownGeneration(feed.generation)
           /\ feed.generation \in Generations /\ feed.revision \in RevisionRange
BY DEF IInv, KnownGeneration, FeedInv, IsTerminal, Shapes, Feeds

\* The loop adopts a generation it knows, with no probe left.
LEMMA AdoptKeeps ==
    ASSUME IInv, UNCHANGED <<LoopFrame, feed, overlay, gauges>>,
           NEW g \in Generations, NEW r \in RevisionRange, KnownGeneration(g),
           loop.pc \in {"start", "park", "drain"},
           loop' = Adopted(loop, g, r), probes' = {}
    PROVE  IInv'
<1> USE DEF IInv
<1>0. feed' = feed /\ overlay' = overlay /\ gauges' = gauges
  BY Zenon
<1>1. 0 \in RevisionRange /\ NoGeneration \in Generations /\ NoVerdict \in Verdicts
  BY QuietProbes, BoundsType, GenerationType, VerdictType
<1>2. /\ loop' \in Loops /\ loop'.pc = "top" /\ loop'.current = g
      /\ loop'.next = NoGeneration /\ loop'.map = NoVerdict
  BY <1>1, QuietProbes DEF Adopted, Loops, LoopPcs
<1>3. KnownGeneration(NoGeneration)
  BY GenerationType, BoundsType, QuietProbes DEF KnownGeneration, Feeds
<1>4. Locked'
  BY <1>0, <1>2 DEF Locked
<1>5. RoundInv'
  BY <1>2 DEF RoundInv
<1> QED BY <1>0, <1>2, <1>3, <1>4, <1>5, QuietProbes, LoopOnlyKeeps

\* A snapshot is handed to publish_source_error.
LEMMA SnapshotKeeps ==
    ASSUME IInv, UNCHANGED <<LoopFrame, feed, overlay, gauges, probes>>,
           ~IsTerminal, loop.pc \in {"start", "round", "cadence"},
           loop' = [loop EXCEPT !.pc = "error", !.next = feed.generation,
                                !.rev = feed.revision]
    PROVE  IInv'
<1> USE DEF IInv
<1>0. feed' = feed /\ overlay' = overlay /\ gauges' = gauges /\ probes' = probes
      /\ bounds' = bounds
  BY DEF LoopFrame
<1>1. /\ loop' \in Loops /\ loop'.pc = "error" /\ loop'.current = loop.current
      /\ loop'.next = feed.generation
  BY Snapshot, QuietProbes DEF Loops, LoopPcs
<1>2. KnownGeneration(loop'.current) /\ KnownGeneration(loop'.next)
  BY <1>1, Snapshot DEF Known
<1>3. Locked'
  BY <1>0, <1>1 DEF Locked
<1>4. RoundInv'
  BY <1>0, <1>1 DEF RoundInv
<1> QED BY <1>0, <1>1, <1>2, <1>3, <1>4, QuietProbes, LoopOnlyKeeps

LEMMA StartKeeps == ASSUME IInv, Start PROVE IInv'
<1>0. /\ UNCHANGED <<LoopFrame, feed, gauges>> /\ probes' = probes
      /\ loop.pc = "start" /\ probes = {}
  BY DEF Start, IInv, RoundInv
<1>1. CASE IsTerminal
  BY <1>0, <1>1, StopKeeps DEF Start, Stopped
<1>2. CASE ~IsTerminal /\ feed.generation.source.error
  BY <1>0, <1>2, SnapshotKeeps DEF Start
<1>3. CASE ~IsTerminal /\ ~feed.generation.source.error
  BY <1>0, <1>3, Snapshot, AdoptKeeps DEF Start
<1> QED BY <1>1, <1>2, <1>3

LEMMA TopKeeps == ASSUME IInv, Top PROVE IInv'
<1> USE DEF IInv
<1>0. UNCHANGED <<LoopFrame, feed, gauges>> /\ loop.pc = "top" /\ feed' = feed
      /\ gauges' = gauges /\ bounds' = bounds
  BY DEF Top, LoopFrame
<1>1. CASE ~owner
  BY <1>0, <1>1, StopKeeps DEF Top, Terminate, Stopped
<1>2. CASE owner
  <2>0. overlay' = overlay /\ probes' = probes /\ probes = {} /\ loop.map = NoVerdict
    BY <1>0, <1>2 DEF Top, RoundInv
  <2>1. CASE loop.current.id = 0
    <3>1. loop' = [loop EXCEPT !.pc = "park"]
      BY <1>2, <2>1 DEF Top
    <3>2. /\ loop' \in Loops /\ loop'.pc = "park" /\ loop'.current = loop.current
          /\ loop'.next = loop.next /\ loop'.map = loop.map
      BY <3>1, QuietProbes DEF Loops, LoopPcs
    <3>3. Locked' /\ RoundInv'
      BY <1>0, <2>0, <3>2 DEF Locked, RoundInv
    <3> QED BY <1>0, <2>0, <3>2, <3>3, QuietProbes, LoopOnlyKeeps DEF Known
  <2>2. CASE loop.current.id # 0
    <3>1. loop' = [loop EXCEPT !.pc = "round", !.todo = loop.current.source.backends]
      BY <1>2, <2>2 DEF Top
    <3>2. loop.current.source.backends \in SUBSET Backends
      BY QuietProbes, GenerationType, SourceType DEF Loops
    <3>3. /\ loop' \in Loops /\ loop'.pc = "round" /\ loop'.current = loop.current
          /\ loop'.next = loop.next /\ loop'.map = loop.map
          /\ loop'.todo = loop.current.source.backends
      BY <3>1, <3>2, QuietProbes DEF Loops, LoopPcs
    <3>4. Locked'
      BY <1>0, <3>3 DEF Locked
    <3>5. RoundInv'
      <4>1. DOMAIN NoVerdict = {}
        BY QuietProbes, VerdictType
      <4> QED BY <1>0, <2>0, <2>2, <3>3, <4>1 DEF RoundInv, Covers
    <3> QED BY <1>0, <2>0, <3>3, <3>4, <3>5, QuietProbes, LoopOnlyKeeps DEF Known
  <2> QED BY <2>1, <2>2
<1> QED BY <1>1, <1>2 DEF Shapes

LEMMA OwnerPollKeeps == ASSUME IInv, OwnerPoll PROVE IInv'
BY StopKeeps DEF OwnerPoll, Terminate, Stopped

LEMMA UnparkKeeps == ASSUME IInv, Unpark PROVE IInv'
<1>0. UNCHANGED <<LoopFrame, feed, gauges>> /\ loop.pc = "park" /\ probes = {}
  BY DEF Unpark, IInv, RoundInv
<1>1. CASE IsTerminal
  BY <1>0, <1>1, StopKeeps DEF Unpark, Terminate, Stopped
<1>2. CASE ~IsTerminal
  BY <1>0, <1>2, Snapshot, AdoptKeeps DEF Unpark
<1> QED BY <1>1, <1>2

LEMMA RotateKeeps == ASSUME IInv, Rotate PROVE IInv'
<1>0. UNCHANGED <<LoopFrame, feed, gauges>> /\ loop.pc \in {"round", "cadence"}
  BY DEF Rotate
<1>1. CASE IsTerminal
  BY <1>0, <1>1, StopKeeps DEF Rotate, Terminate, Stopped
<1>2. CASE ~IsTerminal
  BY <1>0, <1>2, SnapshotKeeps DEF Rotate
<1> QED BY <1>1, <1>2

LEMMA AdoptStepKeeps == ASSUME IInv, Adopt PROVE IInv'
<1>1. /\ loop.next \in Generations /\ loop.rev \in RevisionRange
      /\ KnownGeneration(loop.next)
  BY QuietProbes DEF IInv, Known, Loops
<1> QED BY <1>1, AdoptKeeps DEF Adopt

-----------------------------------------------------------------------------
(* The round *)

\* The round ends without a verdict.
LEMMA DiscardKeeps ==
    ASSUME IInv, UNCHANGED <<LoopFrame, feed, overlay, gauges>>,
           loop.pc = "round", probes' = {},
           NEW n \in Nat,
           loop' = [loop EXCEPT !.pc = "cadence", !.todo = {}, !.map = NoVerdict,
                                !.panics = n]
    PROVE  IInv'
<1> USE DEF IInv
<1>0. feed' = feed /\ overlay' = overlay /\ gauges' = gauges
  BY Zenon
<1>1. NoVerdict \in Verdicts /\ {} \in SUBSET Backends
  BY QuietProbes, VerdictType
<1>2. /\ loop' \in Loops /\ loop'.pc = "cadence" /\ loop'.current = loop.current
      /\ loop'.next = loop.next /\ loop'.map = NoVerdict
  BY <1>1, QuietProbes DEF Loops, LoopPcs
<1>3. Locked' /\ RoundInv'
  BY <1>0, <1>2 DEF Locked, RoundInv
<1> QED BY <1>0, <1>2, <1>3, QuietProbes, LoopOnlyKeeps DEF Known

LEMMA DiscardStepKeeps ==
    ASSUME IInv, UNCHANGED <<LoopFrame, feed, overlay, gauges>>,
           loop.pc = "round", Discard
    PROVE  IInv'
<1>1. loop.panics \in Nat
  BY QuietProbes DEF Loops
<1>2. loop' = [loop EXCEPT !.pc = "cadence", !.todo = {}, !.map = NoVerdict,
                           !.panics = loop.panics]
  BY QuietProbes DEF Discard, Loops
<1> QED BY <1>1, <1>2, DiscardKeeps DEF Discard

LEMMA DisabledRoundKeeps == ASSUME IInv, DisabledRound PROVE IInv'
<1> USE DEF IInv
<1>0. /\ feed' = feed /\ overlay' = overlay /\ gauges' = gauges /\ probes' = probes
      /\ loop.pc = "round" /\ probes = {} /\ bounds' = bounds
      /\ UNCHANGED <<LoopFrame, feed, overlay>>
  BY DEF DisabledRound, RoundInv, LoopFrame
<1> DEFINE v == [b \in loop.current.source.backends |-> loop.current.id]
<1>1. /\ loop.current.source.backends \in SUBSET Backends
      /\ loop.current.id \in IdRange \ {0}
  BY <1>0, QuietProbes, GenerationType, SourceType DEF Loops, RoundInv, Covers
<1>2. v \in Verdicts /\ DOMAIN v = loop.current.source.backends
      /\ \A b \in DOMAIN v : v[b] = loop.current.id
  BY <1>1, VerdictType, QuietProbes
<1>3. loop' = [loop EXCEPT !.pc = "publish", !.todo = {}, !.map = v]
  BY DEF DisabledRound
<1> HIDE DEF v
<1>4. /\ loop' \in Loops /\ loop'.pc = "publish" /\ loop'.current = loop.current
      /\ loop'.next = loop.next /\ loop'.map = v
  BY <1>2, <1>3, QuietProbes DEF Loops, LoopPcs
<1>5. Locked' /\ RoundInv'
  BY <1>0, <1>1, <1>2, <1>4 DEF Locked, RoundInv, Covers
<1> QED BY <1>0, <1>4, <1>5, QuietProbes, LoopOnlyKeeps DEF Known

LEMMA SpawnProbeKeeps == ASSUME IInv, SpawnProbe PROVE IInv'
<1> USE DEF IInv
<1>0. /\ feed' = feed /\ overlay' = overlay /\ gauges' = gauges
      /\ loop.pc = "round" /\ bounds' = bounds /\ ~bounds.disabled
      /\ Cardinality(probes) < bounds.concurrency
      /\ UNCHANGED <<LoopFrame, feed, overlay, gauges>>
  BY DEF SpawnProbe, LoopFrame
<1>1. CASE ~round_authoritative(loop.current.source)
  BY <1>0, <1>1, DiscardStepKeeps DEF SpawnProbe
<1>2. CASE round_authoritative(loop.current.source)
  <2>1. PICK b \in loop.todo :
          /\ probes' = probes \cup {[backend |-> b, id |-> loop.current.id]}
          /\ loop' = [loop EXCEPT !.todo = @ \ {b}]
    BY <1>2 DEF SpawnProbe
  <2> DEFINE p == [backend |-> b, id |-> loop.current.id]
  <2>2. Covers(loop.todo, loop.map, loop.current)
    BY <1>0 DEF RoundInv
  <2>3. p \in Probes /\ p.backend = b /\ p.id = loop.current.id
    BY <2>2, QuietProbes, GenerationType DEF Loops, Covers, Probes
  <2>4. probes' = probes \cup {p}
    BY <2>1
  <2> HIDE DEF p
  <2>5. IsFiniteSet(probes') /\ Cardinality(probes') <= bounds.concurrency
    <3>1. Cardinality(probes) \in Nat
      BY QuietProbes, FS_CardinalityType
    <3>2. /\ IsFiniteSet(probes \cup {p})
          /\ \/ Cardinality(probes \cup {p}) = Cardinality(probes)
             \/ Cardinality(probes \cup {p}) = Cardinality(probes) + 1
      BY QuietProbes, FS_AddElement
    <3> QED BY <1>0, <2>4, <3>1, <3>2, QuietProbes, BoundsType
  <2>6. /\ loop' \in Loops /\ loop'.pc = "round" /\ loop'.current = loop.current
        /\ loop'.next = loop.next /\ loop'.map = loop.map
        /\ loop'.todo = loop.todo \ {b}
    BY <1>0, <2>1, QuietProbes DEF Loops, LoopPcs
  <2>7. Covers(loop.todo \ {b}, loop.map, loop.current)'
    <3>1. {q.backend : q \in probes'} = {q.backend : q \in probes} \cup {b}
      BY <2>3, <2>4
    <3>2. \A q \in probes' : q.id = loop.current.id
      BY <2>2, <2>3, <2>4 DEF Covers
    <3>3. DOMAIN loop.map \cup (loop.todo \ {b}) \cup {q.backend : q \in probes'}
            = loop.current.source.backends
      BY <3>1, <2>1, <2>2 DEF Covers
    <3> QED BY <2>2, <2>6, <3>2, <3>3 DEF Covers
  <2>8. Locked' /\ RoundInv'
    BY <1>0, <2>6, <2>7 DEF Locked, RoundInv, Covers
  <2> QED BY <1>0, <2>3, <2>4, <2>5, <2>6, <2>8, QuietProbes, LoopOnlyKeeps DEF Known
<1> QED BY <1>1, <1>2

LEMMA JoinProbeKeeps == ASSUME IInv, JoinProbe PROVE IInv'
<1> USE DEF IInv
<1>0. /\ feed' = feed /\ overlay' = overlay /\ gauges' = gauges
      /\ loop.pc = "round" /\ bounds' = bounds
      /\ UNCHANGED <<LoopFrame, feed, overlay, gauges>>
  BY DEF JoinProbe, LoopFrame
<1>1. PICK p \in probes :
        /\ probes' = probes \ {p}
        /\ loop' = [loop EXCEPT !.map = Recorded(loop.map, p)]
  BY DEF JoinProbe
<1>2. Covers(loop.todo, loop.map, loop.current)
  BY <1>0 DEF RoundInv
<1>3. p \in Probes /\ loop.map \in Verdicts
  BY QuietProbes DEF Loops
<1> DEFINE v == Recorded(loop.map, p)
<1>4. v \in Verdicts /\ DOMAIN v = DOMAIN loop.map \cup {p.backend}
  BY <1>3, VerdictType, QuietProbes
<1>5. \A b \in DOMAIN v : v[b] = loop.current.id
  BY <1>2, <1>4 DEF Recorded, Covers
<1> HIDE DEF v
<1>6. /\ loop' \in Loops /\ loop'.pc = "round" /\ loop'.current = loop.current
      /\ loop'.next = loop.next /\ loop'.map = v /\ loop'.todo = loop.todo
  <2>1. loop' = [loop EXCEPT !.map = v]
    BY <1>1 DEF v
  <2> QED BY <1>0, <1>4, <2>1, QuietProbes DEF Loops, LoopPcs
<1>7. IsFiniteSet(probes') /\ Cardinality(probes') <= bounds.concurrency
  <2>1. Cardinality(probes) \in Nat
    BY QuietProbes, FS_CardinalityType
  <2>2. IsFiniteSet(probes \ {p}) /\ Cardinality(probes \ {p}) = Cardinality(probes) - 1
    BY QuietProbes, FS_RemoveElement
  <2> QED BY <1>1, <2>1, <2>2, QuietProbes, BoundsType
<1>8. Covers(loop.todo, loop.map, loop.current)'
  <2>1. {q.backend : q \in probes'} \cup {p.backend} = {q.backend : q \in probes}
    BY <1>1
  <2>2. DOMAIN v \cup loop.todo \cup {q.backend : q \in probes'}
          = loop.current.source.backends
    BY <2>1, <1>2, <1>4 DEF Covers
  <2>3. \A q \in probes' : q.id = loop.current.id
    BY <1>1, <1>2 DEF Covers
  <2> QED BY <1>2, <1>5, <1>6, <2>2, <2>3 DEF Covers
<1>9. Locked' /\ RoundInv'
  BY <1>0, <1>1, <1>6, <1>8 DEF Locked, RoundInv, Covers
<1> QED BY <1>0, <1>1, <1>6, <1>7, <1>9, QuietProbes, LoopOnlyKeeps DEF Known

LEMMA ProbePanicKeeps == ASSUME IInv, ProbePanic PROVE IInv'
<1> DEFINE n == loop.panics + 1
<1>1. n \in Nat
  BY QuietProbes DEF Loops
<1>2. loop' = [loop EXCEPT !.pc = "cadence", !.todo = {}, !.map = NoVerdict,
                           !.panics = n]
  BY DEF ProbePanic
<1> HIDE DEF n
<1> QED BY <1>1, <1>2, DiscardKeeps DEF ProbePanic

LEMMA RoundEndKeeps == ASSUME IInv, RoundEnd PROVE IInv'
<1> USE DEF IInv
<1>0. /\ feed' = feed /\ overlay' = overlay /\ gauges' = gauges
      /\ loop.pc = "round" /\ bounds' = bounds /\ loop.todo = {} /\ probes = {}
      /\ UNCHANGED <<LoopFrame, feed, overlay, gauges>>
  BY DEF RoundEnd, LoopFrame
<1>1. CASE ~round_authoritative(loop.current.source)
  BY <1>0, <1>1, DiscardStepKeeps DEF RoundEnd
<1>2. CASE round_authoritative(loop.current.source)
  <2>1. loop' = [loop EXCEPT !.pc = "publish"] /\ probes' = probes
    BY <1>2 DEF RoundEnd
  <2>2. /\ loop' \in Loops /\ loop'.pc = "publish" /\ loop'.current = loop.current
        /\ loop'.next = loop.next /\ loop'.map = loop.map
    BY <2>1, QuietProbes DEF Loops, LoopPcs
  <2>3. Locked' /\ RoundInv'
    BY <1>0, <2>1, <2>2 DEF Locked, RoundInv, Covers
  <2> QED BY <1>0, <2>1, <2>2, <2>3, QuietProbes, LoopOnlyKeeps DEF Known
<1> QED BY <1>1, <1>2

LEMMA ElapsedKeeps == ASSUME IInv, Elapsed PROVE IInv'
<1> USE DEF IInv
<1>0. /\ feed' = feed /\ overlay' = overlay /\ gauges' = gauges /\ probes' = probes
      /\ loop.pc = "cadence" /\ bounds' = bounds
      /\ UNCHANGED <<LoopFrame, feed, overlay>>
  BY DEF Elapsed, LoopFrame
<1>1. /\ loop' \in Loops /\ loop'.pc = "top" /\ loop'.current = loop.current
      /\ loop'.next = loop.next /\ loop'.map = loop.map
  BY QuietProbes DEF Elapsed, Loops, LoopPcs
<1>2. Locked' /\ RoundInv'
  BY <1>0, <1>1 DEF Locked, RoundInv
<1> QED BY <1>0, <1>1, <1>2, QuietProbes, LoopOnlyKeeps DEF Known

-----------------------------------------------------------------------------
(* Publication *)

LEMMA PublishCheckKeeps == ASSUME IInv, PublishCheck PROVE IInv'
<1> USE DEF IInv
<1>0. /\ overlay' = overlay /\ gauges' = gauges /\ probes' = probes
      /\ loop.pc = "publish" /\ bounds' = bounds /\ ~feed.locked
      /\ UNCHANGED LoopFrame
  BY DEF PublishCheck, LoopFrame
<1> DEFINE passes == publish_current(loop.current) /\ round_authoritative(loop.current.source)
<1>1. CASE passes
  <2>1. /\ feed' = [feed EXCEPT !.locked = TRUE]
        /\ loop' = [loop EXCEPT !.pc = "gauge"]
    BY <1>1 DEF PublishCheck
  <2>2. feed' \in Feeds /\ SameFeed /\ feed'.locked
    BY <2>1, QuietProbes DEF Feeds, SameFeed
  <2>3. /\ loop' \in Loops /\ loop'.pc = "gauge" /\ loop'.current = loop.current
        /\ loop'.next = loop.next /\ loop'.map = loop.map
    BY <2>1, QuietProbes DEF Loops, LoopPcs
  <2>4. ~IsTerminal /\ feed.generation = loop.current
    BY <1>1 DEF publish_current
  <2>5. Locked'
    BY <2>2, <2>3, <2>4 DEF Locked, IsTerminal, SameFeed
  <2>6. Known'
    BY <1>0, <2>2, <2>3 DEF Known, KnownGeneration, SameFeed
  <2>7. RoundInv' /\ OverlayInv'
    BY <1>0, <2>3 DEF RoundInv, Covers, OverlayInv
  <2> QED BY <1>0, <2>2, <2>3, <2>5, <2>6, <2>7, QuietProbes, LoopStepKeeps
<1>2. CASE ~passes
  <2>1. /\ feed' = feed
        /\ loop' = [loop EXCEPT !.pc = "cadence", !.map = NoVerdict]
    BY <1>2 DEF PublishCheck
  <2>2. /\ loop' \in Loops /\ loop'.pc = "cadence" /\ loop'.current = loop.current
        /\ loop'.next = loop.next /\ loop'.map = NoVerdict
    BY <2>1, QuietProbes, VerdictType DEF Loops, LoopPcs
  <2>3. Locked' /\ RoundInv'
    BY <1>0, <2>1, <2>2 DEF Locked, RoundInv
  <2> QED BY <1>0, <2>1, <2>2, <2>3, QuietProbes, LoopOnlyKeeps DEF Known
<1> QED BY <1>1, <1>2

LEMMA ApplyGaugeKeeps == ASSUME IInv, ApplyGauge PROVE IInv'
<1> USE DEF IInv
<1>0. /\ feed' = feed /\ overlay' = overlay /\ probes' = probes
      /\ loop.pc = "gauge" /\ bounds' = bounds
      /\ UNCHANGED <<LoopFrame, feed, overlay>>
  BY DEF ApplyGauge, LoopFrame
<1>1. /\ loop' \in Loops /\ loop'.pc = "swap" /\ loop'.current = loop.current
      /\ loop'.next = loop.next /\ loop'.map = loop.map
  BY QuietProbes DEF ApplyGauge, Loops, LoopPcs
<1>2. gauges' \subseteq SourceRange \ {0}
  <2>1. loop.current.source.gen \in SourceRange
    BY QuietProbes, GenerationType, SourceType DEF Loops
  <2> QED BY <2>1, QuietProbes DEF ApplyGauge, GaugeCommits, StillCurrent
<1>3. Locked' /\ RoundInv'
  BY <1>0, <1>1 DEF Locked, IsTerminal, RoundInv, Covers
<1> QED BY <1>0, <1>1, <1>2, <1>3, QuietProbes, LoopOnlyKeeps DEF Known

\* The overlay of a generation the feed holds is installed; the lock is free.
LEMMA InstallKeeps ==
    ASSUME IInv, UNCHANGED <<LoopFrame, probes, gauges>>,
           feed' = [feed EXCEPT !.locked = FALSE],
           loop' \in Loops, loop'.pc \in {"cadence", "drain"},
           loop'.pc = "cadence" => loop'.map = NoVerdict /\ probes = {},
           loop'.current = loop.current, loop'.next = loop.next,
           NEW map \in Verdicts, NEW error \in BOOLEAN,
           overlay' = IF overlay.retired THEN overlay
                      ELSE [overlay EXCEPT
                              !.published = [source |-> feed.generation.source,
                                             feed |-> feed.generation.id,
                                             map |-> map, error |-> error]],
           error = feed.generation.source.error,
           ~error => /\ DOMAIN map = feed.generation.source.backends
                     /\ \A b \in DOMAIN map : map[b] = feed.generation.id,
           KnownGeneration(feed.generation)
    PROVE  IInv'
<1> USE DEF IInv
<1>0. probes' = probes /\ gauges' = gauges /\ bounds' = bounds
  BY DEF LoopFrame
<1>1. feed' \in Feeds /\ SameFeed /\ feed'.locked = FALSE
  BY QuietProbes DEF Feeds, SameFeed
<1> DEFINE o == [source |-> feed.generation.source, feed |-> feed.generation.id,
                 map |-> map, error |-> error]
<1>2. /\ o \in Overlays /\ o.source = feed.generation.source
      /\ o.feed = feed.generation.id /\ o.map = map /\ o.error = error
  BY QuietProbes, GenerationType, OverlayType DEF Feeds
<1>3. [id |-> o.feed, source |-> o.source] = feed.generation
  BY <1>2, QuietProbes DEF Feeds, Generations
<1> HIDE DEF o
<1>4. /\ overlay' \in [published : Overlays, retired : BOOLEAN]
      /\ overlay'.published = overlay.published \/ overlay'.published = o
  BY <1>2, QuietProbes DEF o
<1>5. OverlayInv'
  <2>1. CASE overlay'.published = overlay.published
    BY <2>1 DEF OverlayInv
  <2>2. CASE overlay'.published = o
    BY <2>2, <1>2 DEF OverlayInv
  <2> QED BY <1>4, <2>1, <2>2
<1>6. Known'
  <2>1. \A g : KnownGeneration(g) => KnownGeneration(g)'
    BY <1>1 DEF KnownGeneration, SameFeed
  <2>2. KnownGeneration(loop.current)' /\ KnownGeneration(loop.next)'
    BY <1>1 DEF Known, KnownGeneration, SameFeed
  <2> DEFINE old == [id |-> overlay.published.feed, source |-> overlay.published.source]
             new == [id |-> overlay'.published.feed, source |-> overlay'.published.source]
  <2>3. KnownGeneration(old)
    BY DEF Known
  <2>4. new = old \/ new = feed.generation
    BY <1>3, <1>4
  <2>5. new.id <= feed.revision
        /\ (new.id # 0 /\ new.id = feed.generation.id => new = feed.generation)
    <3> HIDE DEF new, old
    <3> QED BY <2>3, <2>4 DEF KnownGeneration
  <2> HIDE DEF new, old
  <2>6. /\ new.id <= feed'.revision
        /\ new.id # 0 /\ new.id = feed'.generation.id => new = feed'.generation
    BY <2>5, <1>1 DEF SameFeed
  <2> QED BY <2>2, <2>6 DEF Known, KnownGeneration, new
<1>7. Locked'
  BY <1>1 DEF Locked
<1>8. RoundInv'
  BY <1>0 DEF RoundInv
<1> QED BY <1>0, <1>1, <1>4, <1>5, <1>6, <1>7, <1>8, QuietProbes, LoopStepKeeps

LEMMA ObservationKeeps == ASSUME IInv, publish_observation PROVE IInv'
<1> USE DEF IInv
<1>0. /\ UNCHANGED <<LoopFrame, probes, gauges>> /\ loop.pc = "swap"
      /\ feed' = [feed EXCEPT !.locked = FALSE]
      /\ loop' = [loop EXCEPT !.pc = "cadence", !.map = NoVerdict]
  BY DEF publish_observation
<1>1. /\ feed.generation = loop.current /\ probes = {}
      /\ Covers({}, loop.map, loop.current)
  BY <1>0 DEF Locked, RoundInv
<1>2. /\ loop' \in Loops /\ loop'.pc = "cadence" /\ loop'.current = loop.current
      /\ loop'.next = loop.next /\ loop'.map = NoVerdict
  BY <1>0, QuietProbes, VerdictType DEF Loops, LoopPcs
<1> DEFINE error == loop.current.source.error
<1>3. loop.map \in Verdicts /\ error \in BOOLEAN
  BY QuietProbes, GenerationType, SourceType DEF Loops
<1>4. /\ DOMAIN loop.map = feed.generation.source.backends
      /\ \A b \in DOMAIN loop.map : loop.map[b] = feed.generation.id
  BY <1>1 DEF Covers
<1>5. overlay' = IF overlay.retired THEN overlay
                 ELSE [overlay EXCEPT
                         !.published = [source |-> feed.generation.source,
                                        feed |-> feed.generation.id,
                                        map |-> loop.map, error |-> error]]
  BY <1>1 DEF publish_observation
<1>6. KnownGeneration(feed.generation) /\ error = feed.generation.source.error
  BY <1>1 DEF Known
<1> HIDE DEF error
<1> QED BY <1>0, <1>1, <1>2, <1>3, <1>4, <1>5, <1>6, InstallKeeps

LEMMA RetainedErrorKeeps == ASSUME IInv, publish_retained_error PROVE IInv'
<1> USE DEF IInv
<1>0. /\ UNCHANGED <<LoopFrame, probes, gauges>> /\ loop.pc = "retain"
      /\ feed' = [feed EXCEPT !.locked = FALSE]
      /\ loop' = [loop EXCEPT !.pc = "drain"]
  BY DEF publish_retained_error
<1>1. feed.generation = loop.next /\ loop.next.source.error
  BY <1>0 DEF Locked
<1>2. /\ loop' \in Loops /\ loop'.pc = "drain" /\ loop'.current = loop.current
      /\ loop'.next = loop.next
  BY <1>0, QuietProbes DEF Loops, LoopPcs
<1> DEFINE map == overlay.published.map
<1>3. map \in Verdicts
  BY QuietProbes, OverlayType
<1>4. overlay' = IF overlay.retired THEN overlay
                 ELSE [overlay EXCEPT
                         !.published = [source |-> feed.generation.source,
                                        feed |-> feed.generation.id,
                                        map |-> map, error |-> TRUE]]
  BY <1>1 DEF publish_retained_error
<1>5. KnownGeneration(feed.generation) /\ TRUE = feed.generation.source.error
  <2>1. loop.next.source.error \in BOOLEAN
    BY QuietProbes, GenerationType, SourceType DEF Loops
  <2> QED BY <1>1, <2>1 DEF Known
<1> HIDE DEF map
<1> QED BY <1>0, <1>1, <1>2, <1>3, <1>4, <1>5, InstallKeeps

LEMMA SourceErrorKeeps == ASSUME IInv, SourceError PROVE IInv'
<1> USE DEF IInv
<1>0. /\ probes' = probes /\ gauges' = gauges /\ bounds' = bounds
      /\ loop.pc = "error" /\ ~feed.locked /\ UNCHANGED LoopFrame
  BY DEF SourceError, LoopFrame
<1> DEFINE passes == /\ loop.next.source.error
                     /\ publish_current(loop.next)
                     /\ round_authoritative(loop.next.source)
<1>1. CASE passes
  <2>1. /\ feed' = [feed EXCEPT !.locked = TRUE] /\ overlay' = overlay
        /\ loop' = [loop EXCEPT !.pc = "retain"]
    BY <1>1 DEF SourceError
  <2>2. feed' \in Feeds /\ SameFeed /\ feed'.locked
    BY <2>1, QuietProbes DEF Feeds, SameFeed
  <2>3. /\ loop' \in Loops /\ loop'.pc = "retain" /\ loop'.current = loop.current
        /\ loop'.next = loop.next
    BY <2>1, QuietProbes DEF Loops, LoopPcs
  <2>4. ~IsTerminal /\ feed.generation = loop.next
    BY <1>1 DEF publish_current
  <2>5. Locked'
    BY <1>1, <2>2, <2>3, <2>4 DEF Locked, IsTerminal, SameFeed
  <2>6. Known'
    BY <2>1, <2>2, <2>3 DEF Known, KnownGeneration, SameFeed
  <2>7. RoundInv' /\ OverlayInv'
    BY <1>0, <2>1, <2>3 DEF RoundInv, OverlayInv
  <2> QED BY <1>0, <2>1, <2>2, <2>3, <2>5, <2>6, <2>7, QuietProbes, LoopStepKeeps
<1>2. CASE ~passes
  <2>1. /\ feed' = feed /\ overlay' = [overlay EXCEPT !.published = NoOverlay]
        /\ loop' = [loop EXCEPT !.pc = "drain"]
    BY <1>2 DEF SourceError, transient_clear
  <2>2. feed' \in Feeds /\ SameFeed
    BY <2>1, QuietProbes DEF SameFeed
  <2>3. /\ loop' \in Loops /\ loop'.pc = "drain" /\ loop'.current = loop.current
        /\ loop'.next = loop.next
    BY <2>1, QuietProbes DEF Loops, LoopPcs
  <2>4. /\ overlay' \in [published : Overlays, retired : BOOLEAN]
        /\ overlay'.published = NoOverlay
    BY <2>1, QuietProbes, OverlayType
  <2>5. Known'
    <3>1. NoOverlay.feed = 0 /\ feed.revision \in Nat
      BY OverlayType, QuietProbes, BoundsType DEF Feeds
    <3> QED BY <2>1, <2>3, <2>4, <3>1 DEF Known, KnownGeneration
  <2>6. Locked' /\ RoundInv'
    BY <1>0, <2>1, <2>3 DEF Locked, RoundInv
  <2>7. OverlayInv'
    BY <2>4, OverlayType, QuietProbes DEF OverlayInv
  <2> QED BY <1>0, <2>2, <2>3, <2>4, <2>5, <2>6, <2>7, QuietProbes, LoopStepKeeps
<1> QED BY <1>1, <1>2

-----------------------------------------------------------------------------
(* The theorems *)

LEMMA NextKeeps == IInv /\ [Next]_vars => IInv'
<1> SUFFICES ASSUME IInv, [Next]_vars PROVE IInv'
  OBVIOUS
<1>1. CASE RefreshStep
  BY <1>1, PollStartKeeps, PollEndKeeps, PublishRefreshKeeps DEF RefreshStep
<1>2. CASE ModuleStep
  BY <1>2, CommitDiscoveryKeeps, ActivateKeeps, ModuleWaitsKeep, PairFeedKeeps,
     FenceRoutingKeeps, FenceDiscoveryKeeps, FenceFeedKeeps, AbortRefreshKeeps,
     AbortHealthKeeps DEF ModuleStep
<1>3. CASE Reconfigure \/ Retire \/ OwnerReleased
  BY <1>3, ReconfigureKeeps, ModuleWaitsKeep, AbortRefreshKeeps
<1>4. CASE WakeStep
  BY <1>4, OwnerPollKeeps, UnparkKeeps, RotateKeeps DEF WakeStep
<1>5. CASE LoopStep
  BY <1>5, StartKeeps, TopKeeps, DisabledRoundKeeps, SpawnProbeKeeps, JoinProbeKeeps,
     ProbePanicKeeps, RoundEndKeeps, PublishCheckKeeps, ApplyGaugeKeeps,
     ObservationKeeps, ElapsedKeeps, SourceErrorKeeps, RetainedErrorKeeps,
     AdoptStepKeeps DEF LoopStep, RoundStep
<1>6. CASE Ended \/ UNCHANGED vars
  <2>1. UNCHANGED vars
    BY <1>6 DEF Ended
  <2>2. /\ Shapes' /\ RoutingInv' /\ FeedInv' /\ Known'
    BY <2>1, DomainsKept DEF vars, IInv, Shapes, RoutingInv, FeedInv, Known, KnownGeneration
  <2>3. Locked' /\ Epochs' /\ RoundInv' /\ OverlayInv'
    BY <2>1 DEF vars, IInv, Locked, Epochs, RoundInv, Covers, OverlayInv, IsTerminal
  <2> QED BY <2>2, <2>3 DEF IInv
<1> QED BY <1>1, <1>2, <1>3, <1>4, <1>5, <1>6 DEF Next

LEMMA IInvHolds == Spec => []IInv
BY InitIInv, NextKeeps, PTL DEF Spec

LEMMA IInvConsistent == IInv => OverlayConsistent
<1> SUFFICES ASSUME IInv PROVE OverlayConsistent
  OBVIOUS
<1> USE DEF IInv
<1>0. bounds \in Bounds
  BY DEF Shapes
<1>1. TypeOK
  <2>1. IdRange \ {0} = 1..(bounds.revision + 1)
        /\ SourceRange \ {0} = 1..bounds.generation
    BY <1>0, BoundsType DEF IdRange, SourceRange
  <2>2. feed.live \subseteq 1..(bounds.revision + 1)
    BY <2>1 DEF FeedInv, Shapes, Feeds
  <2>3. Probes = [backend : Backends, id : 1..(bounds.revision + 1)]
    BY <2>1 DEF Probes
  <2>4. overlay.published.source \in Sources /\ overlay.published.map \in Verdicts
    BY <1>0, OverlayType DEF Shapes
  <2> QED BY <2>1, <2>2, <2>3, <2>4
          DEF TypeOK, Shapes, Routings, Feeds, Loops, EpochRange, SourceRange, RevisionRange
<1>2. OverlayIsExact
  <2> SUFFICES ASSUME still_current_for
               PROVE  LET o == overlay.published
                      IN  /\ feed.generation = [id |-> o.feed, source |-> o.source]
                          /\ ~IsTerminal
                          /\ o.source.epoch = discovery
                          /\ o.error = o.source.error
                          /\ ~o.error =>
                               /\ DOMAIN o.map = o.source.backends
                               /\ \A b \in DOMAIN o.map : o.map[b] = o.feed
    BY DEF OverlayIsExact
  <2> DEFINE o == overlay.published
             k == [id |-> o.feed, source |-> o.source]
  <2>1. k.id = feed.generation.id /\ k.id # 0 /\ k.id = o.feed /\ k.source = o.source
    BY DEF still_current_for, FeedInv
  <2>2. KnownGeneration(k)
    BY DEF Known
  <2>3. feed.generation = k /\ k.id <= feed.revision
    <3> HIDE DEF k
    <3> QED BY <2>1, <2>2 DEF KnownGeneration
  <2>4. feed.revision \in Nat
    BY <1>0, BoundsType DEF Shapes, Feeds
  <2>5. ~IsTerminal
    <3> HIDE DEF k
    <3> QED BY <2>1, <2>3, <2>4, <1>0, GenerationType DEF FeedInv, IsTerminal, Shapes, Feeds
  <2>6. ~routing.retired
    BY DEF still_current_for, StillCurrent, RoutingInv, NoSource
  <2>7. o.source.epoch = discovery
    <3> HIDE DEF k
    <3> QED BY <2>1, <2>3, <2>5, <2>6 DEF Epochs
  <2> QED BY <2>1, <2>3, <2>5, <2>7 DEF OverlayInv
<1>3. RoundsAreSeparate
  BY DEF RoundsAreSeparate, Shapes, RoundInv, Covers
<1> QED BY <1>1, <1>2, <1>3 DEF OverlayConsistent

\* For any clusters, counters and order of rotations, retirements and pulls,
\* what a consumer may act on is exact: the overlay that passes
\* still_current_for covers the generation the feed holds now, of the epoch
\* discovery publishes now, and rounds never mix (still_current_for,
\* run_health_round, publish_observation).
THEOREM ExactOverlay == Spec => []OverlayConsistent
BY IInvHolds, IInvConsistent, PTL

\* The status gauge is written only for the live routing source, without an
\* error, though both were checked steps before (ApplyGauge).
THEOREM QualifiedGauges == Spec => GaugesAreQualified
<1>1. ASSUME IInv, [Next]_vars
      PROVE  [\A g \in gauges' \ gauges :
                routing.source.gen = g /\ ~routing.source.error]_vars
  <2> SUFFICES ASSUME NEW g \in gauges' \ gauges
               PROVE  routing.source.gen = g /\ ~routing.source.error
    OBVIOUS
  <2>1. CASE ApplyGauge
    BY <2>1 DEF ApplyGauge, GaugeCommits, StillCurrent
  <2>2. CASE ~ApplyGauge
    <3>1. gauges' = gauges
      BY <1>1, <2>2 DEF Next, vars, RefreshStep, PollStart, PollEnd, publish_refresh_result,
         ModuleStep, CommitDiscovery, Activate, RoutingChanged, PairRead, PairFeed,
         FenceRouting, FenceDiscovery, FenceFeed, AbortRefresh, AbortHealth, Joined,
         Reconfigure, Retire, WakeStep, OwnerPoll, Unpark, Rotate, LoopStep, Start, Top,
         RoundStep, DisabledRound, SpawnProbe, JoinProbe, ProbePanic, RoundEnd,
         PublishCheck, publish_observation, Elapsed, SourceError, publish_retained_error,
         Adopt, OwnerReleased, Ended
    <3> QED BY <3>1
  <2> QED BY <2>1, <2>2
<1> QED BY <1>1, IInvHolds, PTL DEF Spec, GaugesAreQualified

\* Routing never goes back, whatever pull of an older set comes late
\* (publish, publish_error).
THEOREM RoutingOnlyAdvances == Spec => RoutingAdvances
<1>1. ASSUME IInv, [Next]_vars
      PROVE  [routing'.source # routing.source /\ routing'.source.gen # 0 =>
                /\ routing'.source.gen > routing.last
                /\ routing'.source.epoch >= routing.source.epoch]_vars
  <2> SUFFICES ASSUME routing'.source # routing.source, routing'.source.gen # 0
               PROVE  /\ routing'.source.gen > routing.last
                      /\ routing'.source.epoch >= routing.source.epoch
    OBVIOUS
  <2>1. CASE publish_refresh_result
    <3>1. routing.last \in Nat
      BY <1>1, BoundsType DEF IInv, Shapes, Routings
    <3> QED BY <1>1, <2>1, <3>1, Publishes
  <2>2. CASE FenceRouting
    <3>1. routing'.source = NoSource
      BY <1>1, <2>2 DEF FenceRouting, IInv, Shapes, Routings
    <3> QED BY <3>1 DEF NoSource
  <2>3. CASE ~publish_refresh_result /\ ~FenceRouting
    <3>1. routing' = routing
      BY <1>1, <2>3 DEF Next, vars, RefreshStep, PollStart, PollEnd,
         ModuleStep, CommitDiscovery, Activate, RoutingChanged, PairRead, PairFeed,
         FenceDiscovery, FenceFeed, AbortRefresh, AbortHealth, Joined,
         Reconfigure, Retire, WakeStep, OwnerPoll, Unpark, Rotate, LoopStep, Start, Top,
         RoundStep, DisabledRound, SpawnProbe, JoinProbe, ProbePanic, RoundEnd,
         PublishCheck, ApplyGauge, publish_observation, Elapsed, SourceError,
         publish_retained_error, Adopt, OwnerReleased, Ended, LoopFrame
    <3> QED BY <3>1
  <2> QED BY <2>1, <2>2, <2>3
<1> QED BY <1>1, IInvHolds, PTL DEF Spec, RoutingAdvances

-----------------------------------------------------------------------------
(***************************************************************************)
(* The health gauges (HealthHistory), for any observers, addresses and     *)
(* capacity.  The watermark argument: the highest sequence an address ever *)
(* showed is what its series shows, or, when it has none, is covered by    *)
(* its own watermark or by the common floor (WatermarksCover).             *)
(***************************************************************************)

\* What the series of an address shows is the highest it ever showed; of an
\* address without a series a later dial must exceed it.
WatermarksCover ==
    \A a \in Addresses :
        IF a \in DOMAIN ping THEN ping[a] = shown[a]
        ELSE shown[a] <= Value(retired, a) \/ shown[a] <= floor

\* The maps per observer are functions of the observers.
PerObserver ==
    current = [o \in Observers |-> current[o]] /\ down = [o \in Observers |-> down[o]]

\* The inductive invariant.
HistoryInv ==
    /\ HistoryTypes /\ PerObserver
    /\ RetentionIsBounded /\ ClocksStopOnRecovery /\ WatermarksCover

-----------------------------------------------------------------------------
(* Operators                                                               *)

LEMMA MaxPair ==
    ASSUME NEW x \in Int, NEW y \in Int
    PROVE  Max({x, y}) = IF x >= y THEN x ELSE y
BY DEF Max

LEMMA MinPair ==
    ASSUME NEW x \in Int, NEW y \in Int
    PROVE  Min({x, y}) = IF x <= y THEN x ELSE y
BY DEF Min

LEMMA AddressSetsFinite ==
    ASSUME NEW S \in SUBSET Addresses
    PROVE  IsFiniteSet(S) /\ Cardinality(S) \in Nat
BY HistoryAssumption, FS_Subset, FS_CardinalityType

\* Writing and removing values keeps a map of addresses what it is.
LEMMA OverwritePartial ==
    ASSUME NEW f, NEW values, Partial(f, values),
           NEW as \in SUBSET Addresses, NEW v \in values
    PROVE  /\ Partial(Overwrite(f, as, v), values)
           /\ DOMAIN Overwrite(f, as, v) = DOMAIN f \cup as
           /\ \A a \in as : Overwrite(f, as, v)[a] = v
           /\ \A a \in DOMAIN f \ as : Overwrite(f, as, v)[a] = f[a]
BY DEF Partial, Overwrite

LEMMA RestrictPartial ==
    ASSUME NEW f, NEW values, Partial(f, values), NEW S \in SUBSET DOMAIN f
    PROVE  /\ Partial(Restrict(f, S), values)
           /\ DOMAIN Restrict(f, S) = S
           /\ \A a \in S : Restrict(f, S)[a] = f[a]
BY DEF Partial, Restrict

LEMMA WithoutPartial ==
    ASSUME NEW f, NEW values, Partial(f, values), NEW a
    PROVE  /\ Partial(Without(f, a), values)
           /\ DOMAIN Without(f, a) = DOMAIN f \ {a}
           /\ \A b \in DOMAIN f \ {a} : Without(f, a)[b] = f[b]
BY RestrictPartial DEF Without

\* One more address fits where the map was not full.
LEMMA OneMoreFits ==
    ASSUME NEW f, NEW values, Partial(f, values), NEW a \in Addresses, NEW v \in values,
           Cardinality(DOMAIN f) <= Capacity, ~Full(f) \/ a \in DOMAIN f
    PROVE  Cardinality(DOMAIN Overwrite(f, {a}, v)) <= Capacity
<1>1. DOMAIN f \in SUBSET Addresses /\ DOMAIN Overwrite(f, {a}, v) = DOMAIN f \cup {a}
  BY DEF Partial, Overwrite
<1>2. IsFiniteSet(DOMAIN f) /\ Cardinality(DOMAIN f) \in Nat
  BY <1>1, AddressSetsFinite
<1>3. Cardinality(DOMAIN f \cup {a}) =
        IF a \in DOMAIN f THEN Cardinality(DOMAIN f) ELSE Cardinality(DOMAIN f) + 1
  BY <1>2, FS_AddElement
<1> QED BY <1>1, <1>2, <1>3, HistoryAssumption DEF Dials, Full

LEMMA FewerFit ==
    ASSUME NEW f, NEW values, Partial(f, values), NEW a,
           Cardinality(DOMAIN f) <= Capacity
    PROVE  Cardinality(DOMAIN Without(f, a)) <= Capacity
<1>1. DOMAIN f \in SUBSET Addresses /\ DOMAIN Without(f, a) = DOMAIN f \ {a}
  BY WithoutPartial DEF Partial
<1>2. IsFiniteSet(DOMAIN f) /\ Cardinality(DOMAIN f) \in Nat
  BY <1>1, AddressSetsFinite
<1>3. Cardinality(DOMAIN f \ {a}) =
        IF a \in DOMAIN f THEN Cardinality(DOMAIN f) - 1 ELSE Cardinality(DOMAIN f)
  BY <1>2, FS_RemoveElement
<1> QED BY <1>1, <1>2, <1>3, HistoryAssumption DEF Dials

\* Of a set of addresses only as many are written as there are places.
LEMMA WrittenFit ==
    ASSUME NEW f, NEW values, Partial(f, values), Cardinality(DOMAIN f) <= Capacity,
           NEW as \in SUBSET Addresses, NEW w \in set_status(as, f), NEW v \in values
    PROVE  /\ w \subseteq as
           /\ Partial(Overwrite(f, w, v), values)
           /\ Cardinality(DOMAIN Overwrite(f, w, v)) <= Capacity
<1> DEFINE new == as \ DOMAIN f
           places == Min({Cardinality(new), Capacity - Cardinality(DOMAIN f)})
<1>1. PICK admitted \in SUBSET new : w = as \ (new \ admitted) /\ Cardinality(admitted) = places
  BY DEF set_status
<1>2. /\ DOMAIN f \in SUBSET Addresses /\ new \in SUBSET Addresses
      /\ admitted \in SUBSET Addresses /\ w \in SUBSET Addresses
  BY <1>1 DEF Partial
<1>3. /\ DOMAIN Overwrite(f, w, v) = DOMAIN f \cup admitted
      /\ DOMAIN f \cap admitted = {}
  BY <1>1 DEF Overwrite
<1>4. /\ IsFiniteSet(DOMAIN f) /\ Cardinality(DOMAIN f) \in Nat
      /\ IsFiniteSet(admitted) /\ Cardinality(admitted) \in Nat
      /\ Cardinality(new) \in Nat
  BY <1>2, AddressSetsFinite
<1>5. places <= Capacity - Cardinality(DOMAIN f)
  <2> HIDE DEF new
  <2> QED BY <1>4, MinPair, HistoryAssumption DEF Dials
<1>6. Cardinality(DOMAIN f \cup admitted) = Cardinality(DOMAIN f) + Cardinality(admitted)
  <2>1. Cardinality(DOMAIN f \cap admitted) = 0
    BY <1>3, FS_EmptySet
  <2>2. Cardinality(DOMAIN f \cup admitted) =
          Cardinality(DOMAIN f) + Cardinality(admitted) - Cardinality(DOMAIN f \cap admitted)
    BY <1>4, FS_Union
  <2> HIDE DEF new, places
  <2> QED BY <1>4, <2>1, <2>2
<1> HIDE DEF new, places
<1>7. Cardinality(DOMAIN Overwrite(f, w, v)) <= Capacity
  BY <1>1, <1>3, <1>4, <1>5, <1>6, HistoryAssumption DEF Dials
<1>8. w \subseteq as
  BY <1>1
<1> QED BY <1>2, <1>7, <1>8, OverwritePartial

-----------------------------------------------------------------------------
(* The steps                                                               *)

LEMMA InitHistoryInv == HistoryInit => HistoryInv
<1> SUFFICES ASSUME HistoryInit PROVE HistoryInv
  OBVIOUS
<1> USE DEF HistoryInit
<1>1. HistoryTypes
  BY HistoryAssumption DEF Dials, HistoryTypes, Partial, Empty, None
<1>2. PerObserver /\ ClocksStopOnRecovery /\ WatermarksCover
  BY DEF PerObserver, ClocksStopOnRecovery, WatermarksCover, Empty, Value, None
<1>3. RetentionIsBounded
  <2>1. DOMAIN ping = {} /\ DOMAIN status = {} /\ DOMAIN retired = {}
    BY DEF Empty
  <2>2. Cardinality({}) <= Capacity
    BY FS_EmptySet, HistoryAssumption DEF Dials
  <2> QED BY <2>1, <2>2 DEF RetentionIsBounded
<1> QED BY <1>1, <1>2, <1>3 DEF HistoryInv

LEMMA DialReturnsStep ==
    ASSUME HistoryInv, NEW o \in Observers, NEW a \in Addresses, DialReturns(o, a)
    PROVE  HistoryInv'
<1> USE DEF DialReturns
<1>1. HistoryTypes'
  BY HistoryAssumption DEF Dials, HistoryInv, HistoryTypes, Partial
<1>2. PerObserver' /\ RetentionIsBounded' /\ ClocksStopOnRecovery' /\ WatermarksCover'
  BY DEF HistoryInv, PerObserver, RetentionIsBounded, ClocksStopOnRecovery, WatermarksCover, Value
<1> QED BY <1>1, <1>2 DEF HistoryInv

\* What a dial that reaches the history does: the series and the watermarks
\* keep their shape and their bound, and the address is covered as before.
LEMMA PublishDialStep ==
    ASSUME HistoryInv, NEW o \in Observers, PublishDial(o)
    PROVE  /\ HistoryInv'
           /\ \A a \in DOMAIN ping' :
                (a \notin DOMAIN ping \/ ping'[a] # ping[a]) => ping'[a] > shown[a]
<1>0. PICK d \in dialling[o] :
        /\ dialling' = [dialling EXCEPT ![o] = @ \ {d}]
        /\ observe_dial(d.address, d.seq)
        /\ shown' = [shown EXCEPT ![d.address] = Max({@, Value(ping', d.address)})]
        /\ UNCHANGED <<sequence, status, floor, current, down>>
  BY DEF PublishDial
<1> DEFINE b == d.address
<1>1. b \in Addresses /\ d.seq \in Dials
  BY DEF HistoryInv, HistoryTypes
<1> HIDE DEF b
<1>2. /\ Partial(ping, Dials) /\ Partial(retired, Dials) /\ floor \in Int
      /\ shown \in [Addresses -> -1..MaxDials]
  BY DEF HistoryInv, HistoryTypes
<1>3. shown[b] \in Int /\ Value(retired, b) \in Int /\ shown[b] \in -1..MaxDials
  BY <1>1, <1>2, HistoryAssumption DEF Dials, Partial, Value, None
<1>a. CASE b \in DOMAIN ping
  <2>1. /\ ping' = [ping EXCEPT ![b] = Max({@, d.seq})] /\ UNCHANGED retired
    BY <1>0, <1>a DEF observe_dial, b
  <2>2. ping[b] \in Dials /\ ping[b] = shown[b]
    BY <1>1, <1>2, <1>a DEF HistoryInv, WatermarksCover, Partial
  <2>3. Max({ping[b], d.seq}) = IF ping[b] >= d.seq THEN ping[b] ELSE d.seq
    BY <1>1, <2>2, MaxPair, HistoryAssumption DEF Dials
  <2>4. /\ Partial(ping', Dials) /\ DOMAIN ping' = DOMAIN ping
        /\ ping'[b] = Max({ping[b], d.seq}) /\ ping'[b] \in Dials
        /\ \A a \in DOMAIN ping \ {b} : ping'[a] = ping[a]
    BY <1>1, <1>2, <1>a, <2>1, <2>2, <2>3 DEF Partial
  <2>5. shown' = [shown EXCEPT ![b] = ping'[b]]
    <3>1. Value(ping', b) = ping'[b]
      BY <1>a, <2>4 DEF Value
    <3>2. Max({shown[b], ping'[b]}) = ping'[b]
      <4>1. shown[b] \in Int /\ ping'[b] \in Int /\ ping'[b] >= shown[b]
        BY <1>1, <2>2, <2>3, <2>4, HistoryAssumption DEF Dials
      <4> QED BY <4>1, MaxPair
    <3> QED BY <1>0, <3>1, <3>2 DEF b
  <2>6. shown' \in [Addresses -> -1..MaxDials]
    <3>1. ping'[b] \in -1..MaxDials
      BY <2>4, HistoryAssumption DEF Dials
    <3> QED BY <1>2, <2>5, <3>1
  <2>7. HistoryTypes'
    BY <1>0, <1>2, <2>1, <2>4, <2>6 DEF HistoryInv, HistoryTypes, Partial
  <2>8. PerObserver' /\ ClocksStopOnRecovery'
    BY <1>0 DEF HistoryInv, PerObserver, ClocksStopOnRecovery
  <2>9. RetentionIsBounded'
    BY <1>0, <2>1, <2>4 DEF HistoryInv, RetentionIsBounded
  <2>10. WatermarksCover'
    <3>1. shown'[b] = ping'[b] /\ \A a \in Addresses \ {b} : shown'[a] = shown[a]
      BY <1>1, <1>2, <2>5
    <3> QED BY <1>0, <1>a, <2>1, <2>4, <3>1 DEF HistoryInv, WatermarksCover, Value
  <2>11. \A a \in DOMAIN ping' :
            (a \notin DOMAIN ping \/ ping'[a] # ping[a]) => ping'[a] > shown[a]
    BY <1>1, <2>2, <2>3, <2>4, HistoryAssumption DEF Dials
  <2> QED BY <2>7, <2>8, <2>9, <2>10, <2>11 DEF HistoryInv
<1>b. CASE b \notin DOMAIN ping /\ (d.seq <= Watermark(b) \/ Full(ping))
  <2>1. UNCHANGED <<ping, retired>>
    BY <1>0, <1>b DEF observe_dial, b
  <2>2. UNCHANGED shown
    <3>1. Value(ping', b) = -1
      BY <1>b, <2>1 DEF Value, None
    <3>2. Max({shown[b], -1}) = shown[b]
      BY <1>3, MaxPair
    <3> QED BY <1>0, <1>1, <1>2, <3>1, <3>2 DEF b
  <2>3. HistoryTypes'
    BY <1>0, <2>1, <2>2 DEF HistoryInv, HistoryTypes, Partial
  <2> QED BY <1>0, <2>1, <2>2, <2>3
          DEF HistoryInv, PerObserver, RetentionIsBounded, ClocksStopOnRecovery, WatermarksCover, Value
<1>c. CASE b \notin DOMAIN ping /\ ~(d.seq <= Watermark(b) \/ Full(ping))
  <2>1. ping' = Overwrite(ping, {b}, d.seq) /\ retired' = Without(retired, b)
    BY <1>0, <1>c DEF observe_dial, b
  <2>2. shown[b] < d.seq
    <3>1. Watermark(b) = IF Value(retired, b) >= floor THEN Value(retired, b) ELSE floor
      BY <1>2, <1>3, MaxPair DEF Watermark
    <3>2. shown[b] <= Value(retired, b) \/ shown[b] <= floor
      BY <1>1, <1>c DEF HistoryInv, WatermarksCover
    <3> QED BY <1>1, <1>2, <1>3, <1>c, <3>1, <3>2, HistoryAssumption DEF Dials
  <2>3. /\ Partial(ping', Dials) /\ DOMAIN ping' = DOMAIN ping \cup {b}
        /\ ping'[b] = d.seq /\ \A a \in DOMAIN ping \ {b} : ping'[a] = ping[a]
    BY <1>1, <1>2, <2>1 DEF Partial, Overwrite
  <2>4. /\ Partial(retired', Dials) /\ DOMAIN retired' = DOMAIN retired \ {b}
        /\ \A a \in DOMAIN retired \ {b} : retired'[a] = retired[a]
    BY <1>2, <2>1, WithoutPartial
  <2>5. shown' = [shown EXCEPT ![b] = d.seq]
    <3>1. Value(ping', b) = d.seq
      BY <2>3 DEF Value
    <3>2. Max({shown[b], d.seq}) = d.seq
      BY <1>1, <1>3, <2>2, MaxPair, HistoryAssumption DEF Dials
    <3> QED BY <1>0, <3>1, <3>2 DEF b
  <2>6. shown' \in [Addresses -> -1..MaxDials]
    BY <1>1, <1>2, <2>5, HistoryAssumption DEF Dials
  <2>7. HistoryTypes'
    BY <1>0, <2>3, <2>4, <2>6 DEF HistoryInv, HistoryTypes, Partial
  <2>8. PerObserver' /\ ClocksStopOnRecovery'
    BY <1>0 DEF HistoryInv, PerObserver, ClocksStopOnRecovery
  <2>9. RetentionIsBounded'
    <3>1. Cardinality(DOMAIN ping') <= Capacity
      BY <1>1, <1>2, <1>c, <2>1, OneMoreFits DEF HistoryInv, RetentionIsBounded
    <3>2. Cardinality(DOMAIN retired') <= Capacity
      BY <1>2, <2>1, FewerFit DEF HistoryInv, RetentionIsBounded
    <3> QED BY <1>0, <3>1, <3>2 DEF HistoryInv, RetentionIsBounded
  <2>10. WatermarksCover'
    BY <1>0, <1>1, <1>2, <2>3, <2>4, <2>5 DEF HistoryInv, WatermarksCover, Value
  <2>11. \A a \in DOMAIN ping' :
            (a \notin DOMAIN ping \/ ping'[a] # ping[a]) => ping'[a] > shown[a]
    BY <1>1, <1>3, <2>2, <2>3, HistoryAssumption DEF Dials
  <2> QED BY <2>7, <2>8, <2>9, <2>10, <2>11 DEF HistoryInv
<1> QED BY <1>a, <1>b, <1>c

LEMMA RefuseDialStep ==
    ASSUME HistoryInv, NEW o \in Observers, RefuseDial(o)
    PROVE  HistoryInv'
<1> USE DEF RefuseDial
<1>1. HistoryTypes'
  BY DEF HistoryInv, HistoryTypes, Partial
<1>2. PerObserver' /\ RetentionIsBounded' /\ ClocksStopOnRecovery' /\ WatermarksCover'
  BY DEF HistoryInv, PerObserver, RetentionIsBounded, ClocksStopOnRecovery, WatermarksCover, Value
<1> QED BY <1>1, <1>2 DEF HistoryInv

\* A round starts clocks for what falls and stops those of what rises, so a
\* clock that runs is of an address the observer does not see healthy.
LEMMA ObserverRoundStep ==
    ASSUME HistoryInv, NEW o \in Observers, Round(o)
    PROVE  HistoryInv'
<1>s. PICK as \in WatchedSets : \E verdict \in [as -> BOOLEAN] : apply_round(o, verdict)
  BY DEF Round
<1>0. PICK verdict \in [as -> BOOLEAN] : apply_round(o, verdict)
  BY <1>s
<1> DEFINE up == Rising(o, verdict)
           fallen == Falling(o, verdict)
<1>1. as \in SUBSET Addresses /\ Partial(verdict, BOOLEAN) /\ up \in SUBSET Addresses
  BY HistoryAssumption DEF Dials, Partial, Rising
<1>2. /\ Partial(current[o], BOOLEAN) /\ Partial(down[o], Timers)
      /\ Partial(status, BOOLEAN) /\ Cardinality(DOMAIN status) <= Capacity
  BY DEF HistoryInv, HistoryTypes, RetentionIsBounded
<1>3. fallen \in SUBSET Addresses
  BY <1>2 DEF Falling, Partial
<1>4. PICK u \in set_status(up, status) :
        LET risen == Overwrite(status, u, TRUE)
        IN  \E fall \in set_status(fallen, risen) :
              /\ status' = Overwrite(risen, fall, FALSE)
              /\ down' = [down EXCEPT ![o] =
                            Overwrite(Recovered(@, up), fallen, "running")]
              /\ current' = [current EXCEPT ![o] = verdict]
              /\ UNCHANGED <<sequence, dialling, ping, retired, floor, shown>>
  BY <1>0 DEF apply_round
<1> DEFINE risen == Overwrite(status, u, TRUE)
<1>5. PICK fall \in set_status(fallen, risen) :
        /\ status' = Overwrite(risen, fall, FALSE)
        /\ down' = [down EXCEPT ![o] = Overwrite(Recovered(@, up), fallen, "running")]
        /\ current' = [current EXCEPT ![o] = verdict]
        /\ UNCHANGED <<sequence, dialling, ping, retired, floor, shown>>
  BY <1>4
<1>6. Partial(status', BOOLEAN) /\ Cardinality(DOMAIN status') <= Capacity
  <2> HIDE DEF up, fallen
  <2>1. Partial(risen, BOOLEAN) /\ Cardinality(DOMAIN risen) <= Capacity
    <3>1. TRUE \in BOOLEAN
      OBVIOUS
    <3> QED BY <1>1, <1>2, <3>1, WrittenFit
  <2> HIDE DEF risen
  <2>2. FALSE \in BOOLEAN
    OBVIOUS
  <2> QED BY <1>3, <1>5, <2>1, <2>2, WrittenFit
<1> DEFINE kept == Recovered(down[o], up)
           clocks == Overwrite(kept, fallen, "running")
<1>7. /\ Partial(kept, Timers) /\ DOMAIN kept = DOMAIN down[o] \ up
  <2> HIDE DEF up
  <2> QED BY <1>2, RestrictPartial DEF Recovered
<1>8. /\ Partial(clocks, Timers) /\ DOMAIN clocks = (DOMAIN down[o] \ up) \cup fallen
  <2> HIDE DEF kept, up, fallen
  <2>1. "running" \in Timers
    BY DEF Timers
  <2> QED BY <1>3, <1>7, <2>1 DEF Partial, Overwrite
<1>9. /\ down'[o] = clocks /\ current'[o] = verdict
      /\ \A p \in Observers \ {o} : down'[p] = down[p] /\ current'[p] = current[p]
      /\ PerObserver'
  BY <1>5 DEF HistoryInv, PerObserver
<1> HIDE DEF clocks
<1>10. HistoryTypes'
  BY <1>1, <1>5, <1>6, <1>8, <1>9 DEF HistoryInv, HistoryTypes, Partial
<1>11. RetentionIsBounded' /\ WatermarksCover'
  BY <1>5, <1>6 DEF HistoryInv, RetentionIsBounded, WatermarksCover, Value
<1>12. ClocksStopOnRecovery'
  <2>1. \A a \in DOMAIN clocks : ~(a \in DOMAIN verdict /\ verdict[a])
    BY <1>8 DEF Rising, Falling, HistoryInv, ClocksStopOnRecovery
  <2> QED BY <1>9, <2>1 DEF HistoryInv, ClocksStopOnRecovery
<1> QED BY <1>9, <1>10, <1>11, <1>12 DEF HistoryInv

LEMMA ExpireStep ==
    ASSUME HistoryInv, NEW o \in Observers, Expire(o)
    PROVE  HistoryInv'
<1>0. PICK a \in DOMAIN down[o] :
        /\ down' = [down EXCEPT ![o][a] = "expired"]
        /\ UNCHANGED <<sequence, dialling, ping, status, retired, floor, current, shown>>
  BY DEF Expire
<1>1. /\ down'[o] = [down[o] EXCEPT ![a] = "expired"]
      /\ \A p \in Observers \ {o} : down'[p] = down[p]
      /\ PerObserver'
  BY <1>0 DEF HistoryInv, PerObserver
<1>2. Partial(down'[o], Timers) /\ DOMAIN down'[o] = DOMAIN down[o]
  BY <1>1 DEF HistoryInv, HistoryTypes, Partial, Timers
<1>3. HistoryTypes'
  BY <1>0, <1>1, <1>2 DEF HistoryInv, HistoryTypes, Partial
<1>4. RetentionIsBounded' /\ ClocksStopOnRecovery' /\ WatermarksCover'
  BY <1>0, <1>1, <1>2 DEF HistoryInv, RetentionIsBounded, ClocksStopOnRecovery, WatermarksCover, Value
<1> QED BY <1>1, <1>3, <1>4 DEF HistoryInv

\* Retiring a series leaves what it had reached in its own watermark or, when
\* there is no place for one, in the floor.
LEMMA PurgeStep ==
    ASSUME HistoryInv, NEW o \in Observers, Purge(o)
    PROVE  HistoryInv' /\ \A b \in DOMAIN ping' : b \in DOMAIN ping /\ ping'[b] = ping[b]
<1>0. PICK a \in DOMAIN down[o] :
        /\ forget_backend(a)
        /\ down' = [down EXCEPT ![o] = Without(@, a)]
        /\ UNCHANGED <<sequence, dialling, current, shown>>
  BY DEF Purge
<1>1. /\ Partial(ping, Dials) /\ Partial(retired, Dials) /\ Partial(status, BOOLEAN)
      /\ floor \in -1..MaxDials /\ shown \in [Addresses -> -1..MaxDials]
      /\ Partial(down[o], Timers)
  BY DEF HistoryInv, HistoryTypes
<1>2. a \in Addresses /\ Value(retired, a) \in -1..MaxDials
  BY <1>1, HistoryAssumption DEF Dials, Partial, Value, None
<1>3. /\ Partial(ping', Dials) /\ DOMAIN ping' = DOMAIN ping \ {a}
      /\ \A b \in DOMAIN ping \ {a} : ping'[b] = ping[b]
      /\ Partial(status', BOOLEAN)
      /\ Cardinality(DOMAIN ping') <= Capacity /\ Cardinality(DOMAIN status') <= Capacity
  BY <1>0, <1>1, WithoutPartial, FewerFit DEF forget_backend, HistoryInv, RetentionIsBounded
<1>4. /\ Partial(retired', Dials) /\ Cardinality(DOMAIN retired') <= Capacity
      /\ floor' \in -1..MaxDials /\ floor <= floor'
      /\ a \in DOMAIN ping => ping[a] <= Value(retired', a) \/ ping[a] <= floor'
      /\ Value(retired, a) <= Value(retired', a)
      /\ \A b \in Addresses \ {a} : Value(retired', b) = Value(retired, b)
  <2>1. CASE a \notin DOMAIN ping
    BY <1>0, <1>1, <1>2, <2>1, HistoryAssumption DEF Dials, forget_backend, HistoryInv, RetentionIsBounded
  <2>2. CASE a \in DOMAIN ping /\ Full(retired) /\ a \notin DOMAIN retired
    <3>1. floor' = Max({floor, ping[a]}) /\ UNCHANGED retired /\ ping[a] \in Dials
      BY <1>0, <1>1, <2>2 DEF forget_backend, Partial
    <3>2. floor' = IF floor >= ping[a] THEN floor ELSE ping[a]
      BY <1>1, <3>1, MaxPair, HistoryAssumption DEF Dials
    <3>3. floor' \in -1..MaxDials /\ floor <= floor' /\ ping[a] <= floor'
      <4>1. floor \in Int /\ ping[a] \in Int /\ ping[a] \in -1..MaxDials
        BY <1>1, <3>1, HistoryAssumption DEF Dials
      <4> QED BY <1>1, <3>2, <4>1
    <3>4. /\ Partial(retired', Dials) /\ Cardinality(DOMAIN retired') <= Capacity
          /\ \A b \in Addresses : Value(retired', b) = Value(retired, b)
      BY <1>1, <3>1 DEF HistoryInv, RetentionIsBounded
    <3>5. Value(retired, a) <= Value(retired', a)
      BY <1>2, <3>4, HistoryAssumption DEF Dials
    <3> QED BY <3>3, <3>4, <3>5
  <2>3. CASE a \in DOMAIN ping /\ ~(Full(retired) /\ a \notin DOMAIN retired)
    <3> DEFINE m == Max({Value(retired, a), ping[a]})
    <3>1. /\ retired' = Overwrite(retired, {a}, m) /\ UNCHANGED floor
          /\ ping[a] \in Dials
      BY <1>0, <1>1, <2>3 DEF forget_backend, Partial
    <3>2. m = IF Value(retired, a) >= ping[a] THEN Value(retired, a) ELSE ping[a]
      BY <1>2, <3>1, MaxPair, HistoryAssumption DEF Dials
    <3>3. m \in Dials /\ ping[a] <= m /\ Value(retired, a) <= m
      BY <1>2, <3>1, <3>2, HistoryAssumption DEF Dials
    <3> HIDE DEF m
    <3>4. Cardinality(DOMAIN retired') <= Capacity
      BY <1>1, <1>2, <2>3, <3>1, <3>3, OneMoreFits DEF HistoryInv, RetentionIsBounded
    <3>5. /\ Partial(retired', Dials) /\ DOMAIN retired' = DOMAIN retired \cup {a}
          /\ retired'[a] = m /\ \A b \in DOMAIN retired \ {a} : retired'[b] = retired[b]
      BY <1>1, <1>2, <3>1, <3>3 DEF Partial, Overwrite
    <3>6. /\ Value(retired', a) = m
          /\ \A b \in Addresses \ {a} : Value(retired', b) = Value(retired, b)
      BY <3>5 DEF Value
    <3>7. floor' \in -1..MaxDials /\ floor <= floor'
      BY <1>1, <3>1, HistoryAssumption DEF Dials
    <3> QED BY <3>3, <3>4, <3>5, <3>6, <3>7
  <2> QED BY <2>1, <2>2, <2>3
<1>5. /\ down'[o] = Without(down[o], a)
      /\ \A p \in Observers \ {o} : down'[p] = down[p]
      /\ PerObserver'
  BY <1>0 DEF HistoryInv, PerObserver
<1>6. /\ Partial(down'[o], Timers) /\ DOMAIN down'[o] = DOMAIN down[o] \ {a}
  <2>1. /\ Partial(Without(down[o], a), Timers)
        /\ DOMAIN Without(down[o], a) = DOMAIN down[o] \ {a}
    BY <1>1, WithoutPartial
  <2> QED BY <1>5, <2>1
<1>7. HistoryTypes'
  BY <1>0, <1>3, <1>4, <1>5, <1>6 DEF HistoryInv, HistoryTypes
<1>8. RetentionIsBounded'
  BY <1>3, <1>4 DEF RetentionIsBounded
<1>9. ClocksStopOnRecovery'
  BY <1>0, <1>5, <1>6 DEF HistoryInv, ClocksStopOnRecovery
<1>10. WatermarksCover'
  <2> SUFFICES ASSUME NEW b \in Addresses
               PROVE  IF b \in DOMAIN ping' THEN ping'[b] = shown[b]
                      ELSE shown[b] <= Value(retired', b) \/ shown[b] <= floor'
    BY <1>0 DEF WatermarksCover, Value
  <2>0. /\ Value(retired, b) \in Int /\ Value(retired', b) \in Int /\ shown[b] \in Int
        /\ floor \in Int /\ floor' \in Int
    BY <1>1, <1>4, HistoryAssumption DEF Dials, Partial, Value, None
  <2>1. IF b \in DOMAIN ping THEN ping[b] = shown[b]
        ELSE shown[b] <= Value(retired, b) \/ shown[b] <= floor
    BY DEF HistoryInv, WatermarksCover
  <2>2. CASE b = a
    BY <1>3, <1>4, <2>0, <2>1, <2>2
  <2>3. CASE b # a
    BY <1>3, <1>4, <2>0, <2>1, <2>3
  <2> QED BY <2>2, <2>3
<1> QED BY <1>3, <1>5, <1>7, <1>8, <1>9, <1>10 DEF HistoryInv

-----------------------------------------------------------------------------
(* The theorems                                                            *)

LEMMA NextHistoryInv == HistoryInv /\ [HistoryNext]_historyVars => HistoryInv'
<1> SUFFICES ASSUME HistoryInv, [HistoryNext]_historyVars PROVE HistoryInv'
  OBVIOUS
<1>1. CASE UNCHANGED historyVars
  <2>1. HistoryTypes'
    BY <1>1 DEF historyVars, HistoryInv, HistoryTypes, Partial
  <2> QED BY <1>1, <2>1 DEF historyVars, HistoryInv, PerObserver, RetentionIsBounded, ClocksStopOnRecovery,
                            WatermarksCover, Value
<1>2. ASSUME NEW o \in Observers,
             \/ \E a \in Addresses : DialReturns(o, a)
             \/ PublishDial(o) \/ RefuseDial(o) \/ Round(o) \/ Expire(o) \/ Purge(o)
      PROVE  HistoryInv'
  BY <1>2, DialReturnsStep, PublishDialStep, RefuseDialStep, ObserverRoundStep, ExpireStep, PurgeStep
<1> QED BY <1>1, <1>2 DEF HistoryNext

LEMMA HistoryInvariance == HistorySpec => []HistoryInv
BY InitHistoryInv, NextHistoryInv, PTL DEF HistorySpec

\* For any observers, addresses, sources and capacity: the retained maps keep
\* their bound however many addresses come and go (set_status, observe_dial,
\* forget_backend), and the retention clock of an observer never runs for a
\* backend it sees healthy (apply_round, purge).
THEOREM Retained == HistorySpec => []HistoryConsistent
<1>1. HistoryInv => HistoryConsistent
  BY DEF HistoryInv, HistoryConsistent
<1> QED BY <1>1, HistoryInvariance, PTL

\* A ping series never goes back: whatever a step writes to it is newer than
\* anything the address ever showed, across retirements, out-of-order arrivals
\* and watermarks that lost their place (observe_dial, forget_backend).
THEOREM PingsAdvance == HistorySpec => PingNeverGoesBack
<1> DEFINE Advances == \A a \in DOMAIN ping' :
             (a \notin DOMAIN ping \/ ping'[a] # ping[a]) => ping'[a] > shown[a]
<1>1. HistoryInv /\ [HistoryNext]_historyVars => [Advances]_historyVars
  <2> SUFFICES ASSUME HistoryInv, HistoryNext PROVE Advances
    OBVIOUS
  <2>1. ASSUME NEW o \in Observers, PublishDial(o) PROVE Advances
    BY <2>1, PublishDialStep
  <2>2. ASSUME NEW o \in Observers, Purge(o) PROVE Advances
    BY <2>2, PurgeStep
  <2>3. ASSUME NEW o \in Observers,
               \/ \E a \in Addresses : DialReturns(o, a)
               \/ RefuseDial(o) \/ Round(o) \/ Expire(o)
        PROVE  UNCHANGED ping
    BY <2>3 DEF DialReturns, RefuseDial, Round, apply_round, Expire
  <2> QED BY <2>1, <2>2, <2>3 DEF HistoryNext
<1> QED BY <1>1, HistoryInvariance, PTL DEF HistorySpec, PingNeverGoesBack

=============================================================================
