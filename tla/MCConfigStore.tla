--------------------------- MODULE MCConfigStore ---------------------------
(***************************************************************************)
(* The instances of ConfigStore that are model-checked.                    *)
(***************************************************************************)
EXTENDS ConfigStore

CONSTANTS proxy, log, default, tenant

Quiet == [writes |-> 1, mutations |-> 1, files |-> 0, materials |-> 0, faults |-> 0,
          keys |-> {proxy, default}, live |-> FALSE]

ConfigInstances ==
    { \* sections written by others and by this process, with a failure
      [Quiet EXCEPT !.writes = 2, !.keys = {proxy, log}],
      [Quiet EXCEPT !.writes = 2, !.faults = 1, !.keys = {proxy}],
      \* namespaces that come, go and return, and new certificate files
      [Quiet EXCEPT !.mutations = 2, !.keys = {default, tenant}],
      [Quiet EXCEPT !.mutations = 2, !.materials = 1, !.keys = {tenant}],
      \* progress, with an edit of the file and a failure, or with certificate
      \* files that do not load for a while
      [Quiet EXCEPT !.files = 1, !.faults = 1, !.keys = {proxy}, !.live = TRUE],
      [Quiet EXCEPT !.mutations = 0, !.files = 1, !.materials = 2, !.keys = {proxy}, !.live = TRUE] }
=============================================================================
