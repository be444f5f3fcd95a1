----------------------------- MODULE MCMetering -----------------------------
(***************************************************************************)
(* The instances of Metering that are model-checked, explored in one run.  *)
(***************************************************************************)
EXTENDS Metering

Base == [generations |-> 1, processes |-> 1, bytes |-> 1, batches |-> 2, minutes |-> 1,
         faults |-> 0, crashes |-> 0, width |-> 100, live |-> FALSE]

MeteringInstances ==
    { \* a crash, a failed write or upload, and restarts
      [Base EXCEPT !.processes = 2, !.faults = 1, !.crashes = 1],
      \* sessions that move twice while the sampler runs
      [Base EXCEPT !.generations = 3, !.batches = 4],
      \* the traffic of two minutes
      [Base EXCEPT !.batches = 3, !.minutes = 2],
      \* a counter that wraps round
      [Base EXCEPT !.bytes = 7, !.batches = 4, !.width = 3],
      \* progress, with one crash and one failure
      [Base EXCEPT !.processes = 3, !.bytes = 0, !.batches = 1, !.faults = 1, !.crashes = 1,
                   !.live = TRUE] }
=============================================================================
