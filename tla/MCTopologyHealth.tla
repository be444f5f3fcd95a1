------------------------- MODULE MCTopologyHealth -------------------------
(* The instances of TopologyHealth that one run checks. *)
EXTENDS TopologyHealth

\* Two epochs and counters at their limits, two probes at once, a panic.
Rotations ==
    [topologies : {{{"b1"}, {"b1", "b2"}}}, epoch : {2}, generation : {2},
     revision : {3}, panics : {1}, concurrency : {2}, disabled : {FALSE},
     releases : {FALSE}, live : {FALSE}]

\* The owner may retire; checks on or off.
Retirements ==
    [topologies : {{{"b1"}}}, epoch : {2}, generation : {2}, revision : {3},
     panics : {0}, concurrency : {1}, disabled : BOOLEAN, releases : {TRUE},
     live : {FALSE}]

\* Three sources in turn, scheduled fairly.
Settling ==
    [topologies : {{{"b1"}}}, epoch : {1}, generation : {3}, revision : {4},
     panics : {1}, concurrency : {1}, disabled : {FALSE}, releases : {TRUE},
     live : {TRUE}]

HealthInstances == Rotations \cup Retirements \cup Settling
============================================================================
