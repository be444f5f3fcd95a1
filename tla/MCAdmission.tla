------------------------------ MODULE MCAdmission ------------------------------
(* The instances of Admission that one run checks. *)
EXTENDS Admission

With(m, t, b, s) == [max |-> m, threshold |-> t, buffer |-> b, listeners |-> s]

\* No limit, small limits, two buffer sizes, and other listeners.
LimitPolicies == {With(0, 0, 1, "a"), With(1, 0, 2, "a"), With(2, 0, 1, "a"),
                  With(2, 0, 1, "b")}

\* The memory check on, with two thresholds, and off.
MemoryPolicies == {With(0, 2, 1, "a"), With(3, 3, 1, "a"), With(2, 0, 1, "a")}

\* Two listeners decide while the limits are reloaded and the ids run out.
Limits == [listeners : {1..2}, conns : {1..3}, policies : {LimitPolicies},
           graces : {{TRUE}}, id : {4}, used : {{0}}, refresh : {1}, expiry : {1},
           time : {0}, stops : {FALSE}, live : {FALSE}]

\* One listener, readings that are refreshed, fail, age and expire.
Memory == [listeners : {{1}}, conns : {1..2}, policies : {MemoryPolicies},
           graces : {{TRUE}}, id : {4}, used : {{1, 3}}, refresh : {1}, expiry : {2},
           time : {4}, stops : {FALSE}, live : {FALSE}]

\* Two listeners are drained and forced, with grace and without.
Stopping == [listeners : {1..2}, conns : {1..2},
             policies : {{With(2, 0, 1, "a")}}, graces : {BOOLEAN}, id : {3},
             used : {{0}}, refresh : {1}, expiry : {1}, time : {0},
             stops : {TRUE}, live : {TRUE}]

AdmissionInstances == Limits \cup Memory \cup Stopping
================================================================================
