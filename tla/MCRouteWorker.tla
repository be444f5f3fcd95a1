--------------------------- MODULE MCRouteWorker ---------------------------
(***************************************************************************)
(* The instances of RouteWorker that are model-checked, explored in one    *)
(* run.                                                                    *)
(***************************************************************************)
EXTENDS RouteWorker

Src(members, healthy, failed) == [members |-> members, healthy |-> healthy, failed |-> failed]
Both == Src({1, 2}, {1, 2}, {})

Unhealthy == Src({1, 2}, {2}, {})
OneFailed == Src({1, 2}, {1, 2}, {1})

Base == [sessions |-> {1, 2}, leavers |-> {}, sources |-> {Both}, publications |-> 0,
         faults |-> 0, keyspace |-> [b \in Backends |-> 1], plain |-> {}, fast |-> FALSE,
         replace |-> FALSE, manual |-> FALSE, live |-> FALSE]

WorkerInstances ==
    { \* backends come and go, sessions fail and leave
      [Base EXCEPT !.sessions = {1}, !.leavers = {1}, !.publications = 2, !.faults = 1,
                   !.sources = {Both, Src({2}, {2}, {})}],
      \* an operator redirects while redirects fail, or a failed backend is closed
      [Base EXCEPT !.manual = TRUE, !.leavers = {1}, !.faults = 1, !.plain = {1}],
      [Base EXCEPT !.manual = TRUE, !.sources = {OneFailed}, !.faults = 1, !.sessions = {1}],
      \* a backend fails for good: its sessions are moved or closed
      [Base EXCEPT !.sources = {Both, OneFailed}, !.publications = 1, !.live = TRUE],
      [Base EXCEPT !.sessions = {1}, !.leavers = {1}, !.sources = {Both, OneFailed},
                   !.publications = 1, !.replace = TRUE, !.live = TRUE],
      \* an unhealthy backend is relieved at a high rate, within a keyspace
      [Base EXCEPT !.sources = {Both, Unhealthy}, !.publications = 1, !.fast = TRUE, !.live = TRUE],
      [Base EXCEPT !.sources = {Both, Unhealthy}, !.publications = 1, !.leavers = {1},
                   !.keyspace = [b \in Backends |-> b]],
      \* three sessions settle over two backends
      [Base EXCEPT !.sessions = {1, 2, 3}, !.live = TRUE] }
=============================================================================
