----------------------------- MODULE MCElection -----------------------------
(***************************************************************************)
(* The instances of Election that are model-checked, explored in one run.  *)
(***************************************************************************)
EXTENDS Election

CONSTANTS a, b

Quiet == [members |-> {a, b}, puts |-> 0, work |-> 0, faults |-> 1, stops |-> 0,
          live |-> TRUE]

ElectionInstances ==
    { \* succession between two members: a failed request, a stop
      [Quiet EXCEPT !.puts = 1, !.live = FALSE],
      [Quiet EXCEPT !.puts = 2, !.faults = 0, !.stops = 1, !.live = FALSE],
      \* one member whose session comes and goes while work is under way
      [Quiet EXCEPT !.members = {a}, !.puts = 1, !.work = 1, !.faults = 2, !.stops = 1,
                    !.live = FALSE],
      \* progress
      Quiet }
=============================================================================
