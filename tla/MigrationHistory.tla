-------------------------- MODULE MigrationHistory --------------------------
(***************************************************************************)
(* The process-wide memory of migration metrics (migration_history.rs).    *)
(* Every router of the process writes to one history; the operators below  *)
(* are its methods, as functions from a history to a history.  The latency *)
(* buckets and the counter of refused label sets are left out: neither     *)
(* decides anything.                                                       *)
(***************************************************************************)
EXTENDS Naturals, FiniteSets

CONSTANTS
    Addresses,              \* backend addresses
    Reasons,                \* RedirectReason: why a migration was issued
    MaxRetainedLabelSets    \* MAX_RETAINED_LABEL_SETS, per family

ASSUME RetentionAssumption == MaxRetainedLabelSets \in Nat

\* What a pending series is labelled with, and the key of a settled one.
MigrationLabels == [from : Addresses, to : Addresses, reason : Reasons]
TerminalKeys == [labels : MigrationLabels, succeeded : BOOLEAN]

\* migrate_duration_seconds carries no reason: two keys that differ by the
\* reason alone share a series.
DurationKeys == [from : Addresses, to : Addresses, succeeded : BOOLEAN]
DurationKey(key) ==
    [from |-> key.labels.from, to |-> key.labels.to, succeeded |-> key.succeeded]

Histories ==
    [known_pending : SUBSET MigrationLabels,
     known_backends : SUBSET Addresses,
     terminals : [TerminalKeys -> Nat],
     durations : [DurationKeys -> Nat]]

\* A key without an entry is one that counts nothing: entries are created by
\* their first increment.
NoHistory ==
    [known_pending |-> {}, known_backends |-> {},
     terminals |-> [key \in TerminalKeys |-> 0],
     durations |-> [key \in DurationKeys |-> 0]]

Entries(counter) == {key \in DOMAIN counter : counter[key] > 0}

\* One more member of a retained set, unless the set is full.
Retain(set, member) ==
    IF member \in set \/ Cardinality(set) >= MaxRetainedLabelSets
    THEN set
    ELSE set \union {member}

\* remember: the admission decision of a label set, and its verdict.
Remember(h, labels) == [h EXCEPT !.known_pending = Retain(@, labels)]
Retained(h, labels) == labels \in Remember(h, labels).known_pending

RememberBackend(h, address) == [h EXCEPT !.known_backends = Retain(@, address)]

\* One more observation of a series, unless it is new and the family is full.
Count(counter, key) ==
    IF key \in Entries(counter) \/ Cardinality(Entries(counter)) < MaxRetainedLabelSets
    THEN [counter EXCEPT ![key] = @ + 1]
    ELSE counter

\* settle: one settled migration, in both cumulative families.
SettleTerminal(h, labels, success) ==
    LET key == [labels |-> labels, succeeded |-> success]
    IN  [h EXCEPT !.terminals = Count(@, key),
                  !.durations = Count(@, DurationKey(key))]

\* forget_backend: the address leaves every family, at either end.
ForgetBackend(h, address) ==
    LET Names(key) == address \in {key.from, key.to} IN
    [known_pending |-> {labels \in h.known_pending : ~Names(labels)},
     known_backends |-> h.known_backends \ {address},
     terminals |-> [key \in TerminalKeys |->
                        IF Names(key.labels) THEN 0 ELSE h.terminals[key]],
     durations |-> [key \in DurationKeys |->
                        IF Names(key) THEN 0 ELSE h.durations[key]]]
=============================================================================
