--------------------------- MODULE TopologyHealth ---------------------------
(***************************************************************************)
(* The topology module of control-topology: a discovery set under a client *)
(* epoch, the refresh task that pulls the merged topology and publishes it *)
(* as exact routing sources, the module task that pairs each source with   *)
(* the health material of its epoch in the health feed, and the health     *)
(* loop that probes every backend of the fed generation and publishes the  *)
(* whole verdict as the health overlay.  Three tasks, an owner lease that  *)
(* another task may release, and a teardown that fences the planes in a    *)
(* fixed order.                                                            *)
(*                                                                         *)
(* A gate and the watch slot it belongs to change together here: a reader  *)
(* requires both, so the instant between the two is the later state to it. *)
(* An identity (Arc::ptr_eq) is the number a source or a generation is     *)
(* given once.  The u64 counters keep their limits, at small values.       *)
(***************************************************************************)
EXTENDS Naturals, FiniteSets

CONSTANTS
    Backends,          \* the addresses of the clusters
    Instances          \* the bounds a behaviour may run under

Bounds == [
    topologies : SUBSET SUBSET Backends,  \* what the clusters may report
    epoch : Nat \ {0},        \* the last client epoch discovery can reserve
    generation : Nat \ {0},   \* the last routing generation
    revision : Nat \ {0},     \* the last revision of the health feed
    panics : Nat,             \* probe tasks that may panic
    concurrency : Nat \ {0},  \* probes in flight at once
    disabled : BOOLEAN,       \* health checking is switched off
    releases : BOOLEAN,       \* another task may release the owner lease
    live : BOOLEAN]           \* the tasks are scheduled fairly

ASSUME InstancesAssumption == Instances # {} /\ Instances \subseteq Bounds

VARIABLES
    owner,      \* the process owner lease is current
    discovery,  \* client epoch of the published discovery set, 0 for none
    material,   \* client epoch of the active health artifact
    routing,    \* [source, last, retired]: the routing publisher
    refresh,    \* the refresh task: where it is and what it pulled
    module,     \* the module task: where it is, the routing it has seen
    feed,       \* the health feed slot and the feed gates still live
    loop,       \* the health loop: where it is and its locals
    probes,     \* the JoinSet of the round: probes in flight
    overlay,    \* [published, retired]: the overlay publisher
    gauges,     \* generations whose verdict reached the b_status gauge
    bounds      \* the bounds of this behaviour

vars == <<owner, discovery, material, routing, refresh, module, feed, loop,
          probes, overlay, gauges, bounds>>

NoSource == [gen |-> 0, epoch |-> 0, backends |-> {}, error |-> FALSE]
NoGeneration == [id |-> 0, source |-> NoSource]
NoVerdict == [b \in {} |-> 0]
NoOverlay == [source |-> NoSource, feed |-> 0, map |-> NoVerdict,
              error |-> FALSE]

Init ==
    /\ owner = TRUE
    /\ discovery = 1
    /\ material = 1
    /\ routing = [source |-> NoSource, last |-> 0, retired |-> FALSE]
    /\ refresh = [pc |-> "tick", epoch |-> 0, ok |-> FALSE, value |-> {}]
    /\ module = [pc |-> "select", seen |-> 0, source |-> NoSource]
    /\ feed = [generation |-> NoGeneration, revision |-> 0, closed |-> FALSE,
               overflowed |-> FALSE, live |-> {}, locked |-> FALSE]
    /\ loop = [pc |-> "start", current |-> NoGeneration, seen |-> 0,
               next |-> NoGeneration, rev |-> 0, todo |-> {},
               map |-> NoVerdict, panics |-> 0]
    /\ probes = {}
    /\ overlay = [published |-> NoOverlay, retired |-> FALSE]
    /\ gauges = {}
    /\ bounds \in Instances

-----------------------------------------------------------------------------
(* Routing publication and the refresh task.                               *)

StillCurrent(source) == source.gen # 0 /\ routing.source = source

\* (mutant) An exhausted counter starts again.

PublishLockedWrapping(epoch, backends, error) ==
    LET gen == IF routing.last < bounds.generation THEN routing.last + 1 ELSE 1
    IN  routing' = [routing EXCEPT
                      !.source = [gen |-> gen, epoch |-> epoch,
                                  backends |-> backends, error |-> error],
                      !.last = gen]

publish_locked(epoch, backends, error) ==
    IF routing.last < bounds.generation
    THEN routing' = [routing EXCEPT
           !.source = [gen |-> routing.last + 1, epoch |-> epoch,
                       backends |-> backends, error |-> error],
           !.last = @ + 1]
    ELSE UNCHANGED routing

publish(epoch, backends) ==
    LET live == routing.source
    IN  IF \/ routing.retired
           \/ /\ live.gen # 0
              /\ \/ epoch < live.epoch
                 \/ epoch = live.epoch /\ backends = live.backends /\ ~live.error
        THEN UNCHANGED routing
        ELSE publish_locked(epoch, backends, FALSE)

publish_error(epoch) ==
    LET live == routing.source
    IN  IF routing.retired \/ live.gen = 0 \/ epoch # live.epoch \/ live.error
        THEN UNCHANGED routing
        ELSE publish_locked(epoch, live.backends, TRUE)

\* A tick admits the published set and starts a pull on forks of its
\* connections; a revoked set or a retired owner admits none.
PollStart ==
    /\ refresh.pc = "tick"
    /\ discovery # 0 /\ owner
    /\ refresh' = [refresh EXCEPT !.pc = "pull", !.epoch = discovery]
    /\ UNCHANGED <<owner, discovery, material, routing, module, feed, loop,
                   probes, overlay, gauges, bounds>>

\* The pull ends, with a topology or with every cluster failed, and the final
\* fence discards every outcome of a set that is no longer the published one.
PollEnd ==
    /\ refresh.pc = "pull"
    /\ IF owner /\ refresh.epoch = discovery
       THEN \/ \E value \in bounds.topologies :
                 refresh' = [refresh EXCEPT !.pc = "publish", !.ok = TRUE,
                                            !.value = value]
            \/ refresh' = [refresh EXCEPT !.pc = "publish", !.ok = FALSE]
       ELSE refresh' = [refresh EXCEPT !.pc = "tick"]
    /\ UNCHANGED <<owner, discovery, material, routing, module, feed, loop,
                   probes, overlay, gauges, bounds>>

publish_refresh_result ==
    /\ refresh.pc = "publish"
    /\ IF refresh.ok
       THEN publish(refresh.epoch, refresh.value)
       ELSE publish_error(refresh.epoch)
    /\ refresh' = [pc |-> "tick", epoch |-> 0, ok |-> FALSE, value |-> {}]
    /\ UNCHANGED <<owner, discovery, material, module, feed, loop, probes,
                   overlay, gauges, bounds>>

-----------------------------------------------------------------------------
(* The feed.  A transition runs under the slot lock, which the health loop *)
(* holds across a publication.                                             *)

IsTerminal == feed.closed \/ feed.overflowed

\* set, withdraw and close: revoke the outgoing gate, install the next
\* generation (none for a withdrawal), advance the revision.
Transition(source, closing) ==
    LET next == IF source.gen = 0
                THEN NoGeneration
                ELSE [id |-> feed.revision + 1, source |-> source]
    IN  feed' = [feed EXCEPT
                   !.generation = next,
                   !.live = {next.id} \ {0},
                   !.closed = @ \/ closing,
                   !.revision = IF @ < bounds.revision THEN @ + 1 ELSE @,
                   !.overflowed = @ \/ feed.revision = bounds.revision]

set(source) == IF IsTerminal THEN UNCHANGED feed ELSE Transition(source, FALSE)
withdraw == IF IsTerminal THEN UNCHANGED feed ELSE Transition(NoSource, FALSE)
close == IF feed.closed THEN UNCHANGED feed ELSE Transition(NoSource, TRUE)

-----------------------------------------------------------------------------
(* The module task.                                                        *)

ModuleGoes(from, to) == module.pc = from /\ module' = [module EXCEPT !.pc = to]

\* (mutant) The new epoch is committed while the old generation is still fed.
ReconfigureCommitFirst ==
    /\ ModuleGoes("select", "commit")
    /\ discovery < bounds.epoch
    /\ discovery' = discovery + 1
    /\ UNCHANGED <<owner, material, routing, refresh, feed, loop, probes,
                   overlay, gauges, bounds>>

\* A new cluster material was prepared: its epoch is reserved, its clients are
\* built.  The feed is withdrawn first.  An exhausted epoch counter or a
\* rejected candidate leaves every plane as it was.
Reconfigure ==
    /\ discovery < bounds.epoch
    /\ ModuleGoes("select", "commit")
    /\ ~feed.locked /\ withdraw
    /\ UNCHANGED <<owner, discovery, material, routing, refresh, loop, probes,
                   overlay, gauges, bounds>>

\* Then the new discovery set is published, under the next epoch.
CommitDiscovery ==
    /\ ModuleGoes("commit", "activate")
    /\ discovery' = material + 1
    /\ UNCHANGED <<owner, material, routing, refresh, feed, loop, probes,
                   overlay, gauges, bounds>>

\* Then the health artifact of that epoch becomes the active one.
Activate ==
    /\ ModuleGoes("activate", "pair")
    /\ material' = discovery
    /\ UNCHANGED <<owner, discovery, routing, refresh, feed, loop, probes,
                   overlay, gauges, bounds>>

\* The routing observer fires: the module reads the source afterwards.
RoutingChanged ==
    /\ module.pc = "select"
    /\ module.seen # routing.last
    /\ module' = [module EXCEPT !.pc = "pair", !.seen = routing.last]
    /\ UNCHANGED <<owner, discovery, material, routing, refresh, feed, loop,
                   probes, overlay, gauges, bounds>>

\* reconcile_health_feed, first half: read the live routing source.
PairRead ==
    /\ module.pc = "pair"
    /\ module' = [module EXCEPT !.pc = "feed", !.source = routing.source]
    /\ UNCHANGED <<owner, discovery, material, routing, refresh, feed, loop,
                   probes, overlay, gauges, bounds>>

Paired(source) == source.gen # 0 /\ source.epoch = material

\* Second half: feed the source only with material of its own epoch.
PairFeed ==
    /\ module.pc = "feed"
    /\ ~feed.locked
    /\ IF Paired(module.source) THEN set(module.source) ELSE withdraw
    /\ module' = [module EXCEPT !.pc = "select", !.source = NoSource]
    /\ UNCHANGED <<owner, discovery, material, routing, refresh, loop, probes,
                   overlay, gauges, bounds>>

\* The lifecycle asks for the retirement, at any time, or the health child is
\* seen ended.
Retire ==
    /\ ModuleGoes("select", "routing")
    /\ UNCHANGED <<owner, discovery, material, routing, refresh, feed, loop,
                   probes, overlay, gauges, bounds>>

\* terminal_fence: routing first, then discovery, then the feed.
FenceRouting ==
    /\ ModuleGoes("routing", "discovery")
    /\ routing' = [routing EXCEPT !.source = NoSource, !.retired = TRUE]
    /\ UNCHANGED <<owner, discovery, material, refresh, feed, loop, probes,
                   overlay, gauges, bounds>>

FenceDiscovery ==
    /\ ModuleGoes("discovery", "feed_close")
    /\ discovery' = 0
    /\ UNCHANGED <<owner, material, routing, refresh, feed, loop, probes,
                   overlay, gauges, bounds>>

FenceFeed ==
    /\ ModuleGoes("feed_close", "abort")
    /\ ~feed.locked /\ close
    /\ UNCHANGED <<owner, discovery, material, routing, refresh, loop, probes,
                   overlay, gauges, bounds>>

\* Both children are aborted.  The refresh task is cancelled at an await (its
\* tick or its pull); the health task at one of its awaits, and dropping its
\* guard clears the overlay and aborts the probes.
Awaiting == {"start", "park", "round", "cadence", "drain"}

AbortRefresh ==
    /\ module.pc = "abort"
    /\ refresh.pc \in {"tick", "pull"}
    /\ refresh' = [refresh EXCEPT !.pc = "done"]
    /\ UNCHANGED <<owner, discovery, material, routing, module, feed, loop,
                   probes, overlay, gauges, bounds>>

revoke_and_clear == overlay' = [published |-> NoOverlay, retired |-> TRUE]

AbortHealth ==
    /\ module.pc = "abort"
    /\ loop.pc \in Awaiting
    /\ loop' = [loop EXCEPT !.pc = "done"]
    /\ revoke_and_clear
    /\ probes' = {}
    /\ UNCHANGED <<owner, discovery, material, routing, refresh, module, feed,
                   gauges, bounds>>

\* Both joined: the module task ends.
Joined ==
    /\ refresh.pc = "done" /\ loop.pc = "done"
    /\ ModuleGoes("abort", "done")
    /\ UNCHANGED <<owner, discovery, material, routing, refresh, feed, loop,
                   probes, overlay, gauges, bounds>>

OwnerReleased ==
    /\ bounds.releases /\ owner
    /\ owner' = FALSE
    /\ UNCHANGED <<discovery, material, routing, refresh, module, feed, loop,
                   probes, overlay, gauges, bounds>>

-----------------------------------------------------------------------------
(* The health loop.                                                        *)

LoopFrame ==
    <<owner, discovery, material, routing, refresh, module, bounds>>

\* The feed changed since the loop's snapshot, or is terminal.
Changed == IsTerminal \/ feed.revision # loop.seen

round_authoritative(source) == owner /\ StillCurrent(source)

Adopted(l, generation, revision) ==
    [l EXCEPT !.pc = "top", !.current = generation, !.seen = revision,
              !.next = NoGeneration, !.rev = 0, !.todo = {}, !.map = NoVerdict]

Stopped == [loop EXCEPT !.pc = "done"]

Start ==
    /\ loop.pc = "start"
    /\ ~feed.locked
    /\ IF IsTerminal
       THEN revoke_and_clear /\ loop' = Stopped
       ELSE /\ loop' = IF feed.generation.source.error
                       THEN [loop EXCEPT !.pc = "error", !.next = feed.generation,
                                         !.rev = feed.revision]
                       ELSE Adopted(loop, feed.generation, feed.revision)
            /\ UNCHANGED overlay
    /\ UNCHANGED <<LoopFrame, feed, probes, gauges>>

\* terminate: the owner has retired.  Withdraw the overlay, then drain.
Terminate ==
    /\ revoke_and_clear
    /\ probes' = {}
    /\ loop' = Stopped

\* The top of the loop: an owner that has retired ends it, no generation parks
\* it, a generation starts a round at once.
Top ==
    /\ loop.pc = "top"
    /\ IF ~owner
       THEN Terminate
       ELSE /\ loop' = IF loop.current.id = 0
                       THEN [loop EXCEPT !.pc = "park"]
                       ELSE [loop EXCEPT !.pc = "round",
                               !.todo = loop.current.source.backends]
            /\ UNCHANGED <<overlay, probes>>
    /\ UNCHANGED <<LoopFrame, feed, gauges>>

\* (mutant) The park waits for the feed alone.
OwnerPollUnparked ==
    /\ loop.pc \in {"round", "cadence"}
    /\ ~owner
    /\ Terminate
    /\ UNCHANGED <<LoopFrame, feed, gauges>>

\* Every wait polls the owner.
OwnerPoll ==
    /\ loop.pc \in {"park", "round", "cadence"}
    /\ ~owner
    /\ Terminate
    /\ UNCHANGED <<LoopFrame, feed, gauges>>

Unpark ==
    /\ loop.pc = "park"
    /\ Changed /\ ~feed.locked
    /\ IF IsTerminal
       THEN Terminate
       ELSE /\ loop' = Adopted(loop, feed.generation, feed.revision)
            /\ UNCHANGED <<overlay, probes>>
    /\ UNCHANGED <<LoopFrame, feed, gauges>>

\* The round ends without a verdict: the probes are drained.
Discard ==
    /\ probes' = {}
    /\ loop' = [loop EXCEPT !.pc = "cadence", !.todo = {}, !.map = NoVerdict]

\* With health switched off every backend is healthy, no probe is made.
DisabledRound ==
    /\ loop.pc = "round" /\ bounds.disabled
    /\ loop' = [loop EXCEPT !.pc = "publish", !.todo = {},
                  !.map = [b \in loop.current.source.backends |-> loop.current.id]]
    /\ UNCHANGED <<LoopFrame, feed, probes, overlay, gauges>>

SpawnProbe ==
    /\ loop.pc = "round" /\ ~bounds.disabled
    /\ loop.todo # {}
    /\ Cardinality(probes) < bounds.concurrency
    /\ IF round_authoritative(loop.current.source)
       THEN \E b \in loop.todo :
              /\ probes' = probes \cup {[backend |-> b, id |-> loop.current.id]}
              /\ loop' = [loop EXCEPT !.todo = @ \ {b}]
       ELSE Discard
    /\ UNCHANGED <<LoopFrame, feed, overlay, gauges>>

\* A probe is collected: when the set is full, or once all are started.
Collects == loop.todo = {} \/ Cardinality(probes) >= bounds.concurrency

Recorded(map, probe) ==
    [b \in DOMAIN map \cup {probe.backend} |->
        IF b = probe.backend THEN probe.id ELSE map[b]]

JoinProbe ==
    /\ loop.pc = "round" /\ Collects
    /\ \E probe \in probes :
         /\ probes' = probes \ {probe}
         /\ loop' = [loop EXCEPT !.map = Recorded(@, probe)]
    /\ UNCHANGED <<LoopFrame, feed, overlay, gauges>>

ProbePanic ==
    /\ loop.pc = "round" /\ Collects
    /\ loop.panics < bounds.panics
    /\ probes # {}
    /\ probes' = {}
    /\ loop' = [loop EXCEPT !.pc = "cadence", !.todo = {}, !.map = NoVerdict,
                            !.panics = @ + 1]
    /\ UNCHANGED <<LoopFrame, feed, overlay, gauges>>

RoundEnd ==
    /\ loop.pc = "round" /\ ~bounds.disabled
    /\ loop.todo = {} /\ probes = {}
    /\ IF round_authoritative(loop.current.source)
       THEN loop' = [loop EXCEPT !.pc = "publish"] /\ UNCHANGED probes
       ELSE Discard
    /\ UNCHANGED <<LoopFrame, feed, overlay, gauges>>

\* The feed is live and holds this exact generation, under a live gate.
publish_current(generation) ==
    /\ ~IsTerminal
    /\ generation.id # 0
    /\ feed.generation = generation
    /\ generation.id \in feed.live

\* The critical section of a publication: the feed lock is taken and held.
PublishCheck ==
    /\ loop.pc = "publish"
    /\ ~feed.locked
    /\ IF publish_current(loop.current) /\ round_authoritative(loop.current.source)
       THEN /\ feed' = [feed EXCEPT !.locked = TRUE]
            /\ loop' = [loop EXCEPT !.pc = "gauge"]
       ELSE /\ loop' = [loop EXCEPT !.pc = "cadence", !.map = NoVerdict]
            /\ UNCHANGED feed
    /\ UNCHANGED <<LoopFrame, probes, overlay, gauges>>

\* (mutant) The gauge is written without the commit of the source's gate.
GaugeUncommitted(source) == ~source.error

GaugeCommits(source) == StillCurrent(source) /\ ~source.error

\* The status gauge moves under the source's own gate, and not for a source
\* that carries an error.
ApplyGauge ==
    /\ loop.pc = "gauge"
    /\ gauges' = IF GaugeCommits(loop.current.source)
                 THEN gauges \cup {loop.current.source.gen} ELSE gauges
    /\ loop' = [loop EXCEPT !.pc = "swap"]
    /\ UNCHANGED <<LoopFrame, feed, probes, overlay>>

\* The overlay of the round replaces the last one, under the gate of the slot;
\* the feed lock is released.
publish_observation ==
    /\ loop.pc = "swap"
    /\ overlay' = IF overlay.retired
                  THEN overlay
                  ELSE [overlay EXCEPT
                          !.published = [source |-> loop.current.source,
                                         feed |-> feed.generation.id,
                                         map |-> loop.map,
                                         error |-> loop.current.source.error]]
    /\ feed' = [feed EXCEPT !.locked = FALSE]
    /\ loop' = [loop EXCEPT !.pc = "cadence", !.map = NoVerdict]
    /\ UNCHANGED <<LoopFrame, probes, gauges>>

\* The cadence elapses: the same generation, the next round.  The wait polls
\* the feed first, so a change that is there already is taken instead.
Elapsed ==
    /\ loop.pc = "cadence"
    /\ ~Changed
    /\ loop' = [loop EXCEPT !.pc = "top"]
    /\ UNCHANGED <<LoopFrame, feed, probes, overlay, gauges>>

\* The feed changed during the round or the cadence: handle_rotation takes a
\* snapshot.  A terminal feed withdraws the overlay, drains and stops.
Rotate ==
    /\ loop.pc \in {"round", "cadence"}
    /\ Changed /\ ~feed.locked
    /\ IF IsTerminal
       THEN Terminate
       ELSE /\ loop' = [loop EXCEPT !.pc = "error", !.next = feed.generation,
                          !.rev = feed.revision]
            /\ UNCHANGED <<overlay, probes>>
    /\ UNCHANGED <<LoopFrame, feed, gauges>>

transient_clear == overlay' = [overlay EXCEPT !.published = NoOverlay]

\* publish_source_error: a next source that carries an error replaces the
\* overlay at once; anything else clears it.  Both before a probe is joined.
SourceError ==
    /\ loop.pc = "error"
    /\ ~feed.locked
    /\ IF /\ loop.next.source.error
          /\ publish_current(loop.next)
          /\ round_authoritative(loop.next.source)
       THEN /\ feed' = [feed EXCEPT !.locked = TRUE]
            /\ loop' = [loop EXCEPT !.pc = "retain"]
            /\ UNCHANGED overlay
       ELSE /\ transient_clear
            /\ loop' = [loop EXCEPT !.pc = "drain"]
            /\ UNCHANGED feed
    /\ UNCHANGED <<LoopFrame, probes, gauges>>

\* The error overlay of the next source keeps the map of the last overlay.
publish_retained_error ==
    /\ loop.pc = "retain"
    /\ overlay' = IF overlay.retired
                  THEN overlay
                  ELSE [overlay EXCEPT
                          !.published = [source |-> loop.next.source,
                                         feed |-> feed.generation.id,
                                         map |-> @.map, error |-> TRUE]]
    /\ feed' = [feed EXCEPT !.locked = FALSE]
    /\ loop' = [loop EXCEPT !.pc = "drain"]
    /\ UNCHANGED <<LoopFrame, probes, gauges>>

\* Abort and drain the old probes, then adopt the generation and the revision
\* of the snapshot.
Adopt ==
    /\ loop.pc = "drain"
    /\ probes' = {}
    /\ loop' = Adopted(loop, loop.next, loop.rev)
    /\ UNCHANGED <<LoopFrame, feed, overlay, gauges>>

-----------------------------------------------------------------------------
RefreshStep == PollStart \/ PollEnd \/ publish_refresh_result
ModuleStep ==
    \/ CommitDiscovery \/ Activate \/ RoutingChanged \/ PairRead \/ PairFeed
    \/ FenceRouting \/ FenceDiscovery \/ FenceFeed
    \/ AbortRefresh \/ AbortHealth \/ Joined
RoundStep ==
    DisabledRound \/ SpawnProbe \/ JoinProbe \/ ProbePanic \/ RoundEnd
WakeStep == OwnerPoll \/ Unpark \/ Rotate
LoopStep ==
    \/ Start \/ Top \/ RoundStep \/ PublishCheck \/ ApplyGauge
    \/ publish_observation \/ Elapsed \/ SourceError \/ publish_retained_error
    \/ Adopt

\* Everything has ended.
Ended == module.pc = "done" /\ UNCHANGED vars

Next ==
    \/ RefreshStep \/ ModuleStep \/ Reconfigure \/ Retire
    \/ WakeStep \/ LoopStep
    \/ OwnerReleased \/ Ended

Spec == Init /\ [][Next]_vars

\* Tokio polls every ready task again and again; every wait of the loop names
\* the feed first and polls the owner at a fixed interval, so a wake that
\* stays due is taken; a pull ends within the budget of a cluster.  Nobody is
\* obliged to change the configuration, to start a pull, to release the owner
\* or to stop.
LiveSpec ==
    /\ Spec
    /\ WF_vars(bounds.live /\ (PollEnd \/ publish_refresh_result))
    /\ WF_vars(bounds.live /\ ModuleStep)
    /\ WF_vars(bounds.live /\ loop.pc = "done" /\ Retire)
    /\ WF_vars(bounds.live /\ WakeStep)
    /\ WF_vars(bounds.live /\ LoopStep)

-----------------------------------------------------------------------------
Sources == [gen : 0..bounds.generation, epoch : 0..bounds.epoch,
            backends : {{}} \cup bounds.topologies, error : BOOLEAN]
Generations == [id : 0..(bounds.revision + 1), source : Sources]
Verdicts == UNION {[bs -> 1..(bounds.revision + 1)] : bs \in SUBSET Backends}

\* Every variable has its shape.
TypeOK ==
    /\ owner \in BOOLEAN
    /\ discovery \in 0..bounds.epoch /\ material \in 0..bounds.epoch
    /\ routing.source \in Sources /\ routing.last \in 0..bounds.generation
    /\ feed.generation \in Generations /\ feed.revision \in 0..bounds.revision
    /\ feed.live \subseteq 1..(bounds.revision + 1)
    /\ {loop.current, loop.next} \subseteq Generations
    /\ loop.map \in Verdicts
    /\ probes \subseteq [backend : Backends, id : 1..(bounds.revision + 1)]
    /\ overlay.published.source \in Sources
    /\ overlay.published.map \in Verdicts
    /\ gauges \subseteq 1..bounds.generation

\* still_current_for of the health overlay: what lets a consumer act on it.
still_current_for ==
    /\ StillCurrent(overlay.published.source)
    /\ overlay.published.feed \in feed.live
    /\ owner

\* What a consumer may act on is exact.  While the published overlay passes
\* still_current_for it belongs to the generation the feed holds now, its
\* source was read under the client epoch discovery publishes now, and a
\* verdict without an error covers every backend of that source with a probe
\* of that very generation: never a part of a round, never a verdict of a
\* replaced generation or an older epoch's clients.
OverlayIsExact ==
    still_current_for =>
        LET o == overlay.published
        IN  /\ feed.generation = [id |-> o.feed, source |-> o.source]
            /\ ~IsTerminal
            /\ o.source.epoch = discovery
            /\ o.error = o.source.error
            /\ ~o.error =>
                 /\ DOMAIN o.map = o.source.backends
                 /\ \A b \in DOMAIN o.map : o.map[b] = o.feed

\* No probe of a replaced generation is left when a round of the next one
\* runs, and the probes in flight never exceed the concurrency of the loop.
RoundsAreSeparate ==
    /\ Cardinality(probes) <= bounds.concurrency
    /\ loop.pc \in {"round", "publish", "gauge", "swap"} =>
         \A probe \in probes : probe.id = loop.current.id

\* The status gauge is written only while the source that was probed is the
\* live routing source, and never from a source that carries an error, though
\* the check of the owner and the source was made steps before.
GaugesAreQualified ==
    [][\A g \in gauges' \ gauges :
         routing.source.gen = g /\ ~routing.source.error]_vars

\* Routing never goes back: a publication names a later generation and never
\* an older client epoch than the source it replaces, whatever pull was late.
RoutingAdvances ==
    [][routing'.source # routing.source /\ routing'.source.gen # 0 =>
         /\ routing'.source.gen > routing.last
         /\ routing'.source.epoch >= routing.source.epoch]_vars

\* The feed overlay is what it says at every instant: OverlayIsExact and
\* RoundsAreSeparate hold, in states of the right type.
OverlayConsistent == TypeOK /\ OverlayIsExact /\ RoundsAreSeparate

\* Health settles.  A routing source of the current epoch that stays is given
\* its overlay: the feed is paired, no rotation is lost and a round over it is
\* published.  An owner that has retired, or a feed that has ended, ends the
\* loop instead: the overlay is withdrawn for good, no probe is left and the
\* module retires.
HealthSettles ==
    <>[](bounds.live =>
           IF owner /\ ~IsTerminal
           THEN Paired(routing.source) /\ material = discovery =>
                  still_current_for
           ELSE /\ loop.pc = "done" /\ module.pc = "done"
                /\ overlay = [published |-> NoOverlay, retired |-> TRUE]
                /\ probes = {})
=============================================================================
