----------------------------- MODULE MCAuthority -----------------------------
(***************************************************************************)
(* The instances of Authority that are model-checked, explored in one run. *)
(***************************************************************************)
EXTENDS Authority

CONSTANTS c1, c2, t1, t2

Small == [runtimes |-> 1, effects |-> {c1}, releasers |-> {t1}, configs |-> 1, epochs |-> 1,
          commits |-> 1, live |-> FALSE]

AuthorityInstances ==
    { \* effects of two threads against every kind of revocation
      [Small EXCEPT !.effects = {c1, c2}, !.configs = 2, !.epochs = 2, !.commits = 2],
      \* two callers release the leases of two runtimes
      [Small EXCEPT !.runtimes = 2, !.releasers = {t1, t2}],
      \* progress: two effects, a release and a publication wait for each other
      [Small EXCEPT !.effects = {c1, c2}, !.configs = 2, !.commits = 2, !.live = TRUE] }
=============================================================================
