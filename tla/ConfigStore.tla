---------------------------- MODULE ConfigStore ----------------------------
(***************************************************************************)
(* The configuration owner: one published view composed from a local file, *)
(* the keys under /config in etcd and the certificate files the view names *)
(* (control-config source.rs and module.rs).                               *)
(*                                                                         *)
(* A reader task lists the keys, watches them and queues complete          *)
(* candidates; the module task applies candidates, file changes and        *)
(* changes of certificate content, and makes owner-fenced writes, which it *)
(* applies at their commit revision before the watch delivers them.  The   *)
(* store changes under one lock, so applying a candidate is one step.      *)
(***************************************************************************)
EXTENDS Naturals, Sequences, FiniteSets, SequencesExt

CONSTANTS
    Online,        \* the online sections: proxy, log
    Names,         \* namespaces
    Implicit,      \* the namespace seeded at startup
    MaxValue,
    QueueCap,      \* RAW_CANDIDATE_CAPACITY
    Instances      \* the budgets explored, each a record of Budgets

\* writes: writes of others to etcd; mutations: owner-fenced writes of this
\* process; files: edits of the file, documents sent to the administration;
\* materials: changes of the certificate files; faults: broken streams,
\* failed requests, lost elections; keys: what is written; live: whether the
\* tasks, etcd and the timers are fair.
Budgets == [writes : Nat, mutations : Nat, files : Nat, materials : Nat, faults : Nat,
            keys : SUBSET (Online \cup Names), live : BOOLEAN]

ASSUME ConfigAssumption ==
    /\ {MaxValue, QueueCap} \subseteq Nat \ {0}
    /\ IsFiniteSet(Online) /\ IsFiniteSet(Names) /\ Implicit \in Names /\ Online \cap Names = {}
    /\ Instances \subseteq Budgets

VARIABLES
    hist,       \* etcd: the changes under /config, by revision
    reader,     \* the reader task: connected or not, the revision it has reached
    queue,      \* candidates on the way to the module
    store,      \* StoreState with the current snapshot
    permits,    \* namespace authority that is valid, whoever captured it
    module,     \* the module task
    disk,       \* the configuration file
    material,   \* the content of the certificate files
    left        \* what is left of the budget

vars == <<hist, reader, queue, store, permits, module, disk, material, left>>

Keys == Online \cup Names
Values == 1 .. MaxValue
Absent == 0
Malformed == MaxValue + 1
Broken == 0            \* certificate files that do not load
Nothing == [k \in Keys |-> Absent]
NoMutation == [key |-> "none", value |-> Absent, rev |-> 0]

At(r) == IF r = 0 THEN Nothing ELSE hist[r].keys
Latest == At(Len(hist))

\* The file and the documents given to the administration name some sections; a
\* malformed one is bad TOML or asks for what needs a restart.
Patches == {p \in [Online -> Values \cup {Absent, Malformed}] :
              \A k \in Online \ left.keys : p[k] = Absent}
Merge(base, patch) == [k \in Online |-> IF patch[k] = Absent THEN base[k] ELSE patch[k]]
Compose(base, overlay) == Merge(base, overlay)

Spend(what) == left' = [left EXCEPT ![what] = @ - 1]

-----------------------------------------------------------------------------
(* The store *)

\* A namespace that is the same in both views keeps its incarnation, which is
\* named by the generation that began it.
CarriedByName(s, namespaces, n) == namespaces[n] # Absent /\ s.namespaces[n] # Absent
Carried(s, namespaces, n) == namespaces[n] # Absent /\ namespaces[n] = s.namespaces[n]

\* build_snapshot, retain_identities and the swap of publish_candidate.
Snapshot(s, effective, namespaces, rev) ==
    [s EXCEPT !.generation = @ + 1, !.rev = rev, !.effective = effective,
              !.namespaces = namespaces, !.loaded = material,
              !.born = [n \in Names |-> IF Carried(s, namespaces, n) THEN @[n] ELSE s.generation + 1]]

\* Nothing is published, and nothing of the view moves, when nothing differs.
Changes(s, effective, namespaces) == <<effective, namespaces>> # <<s.effective, s.namespaces>>
PublishCandidate(s, effective, namespaces, rev) ==
    IF Changes(s, effective, namespaces) THEN Snapshot(s, effective, namespaces, rev) ELSE s

\* Candidates are validated with the certificate files they name.
Valid == material # Broken

\* apply_toml accepts the document.
Loads(patch) == Valid /\ \A k \in Online : patch[k] # Malformed

ApplyToml(s, patch) ==
    LET base == Merge(s.base, patch)
    IN  [PublishCandidate(s, Compose(base, s.overlay), s.accepted, s.rev) EXCEPT !.base = base]

Outdated(s, rev) == rev < s.rev

ApplyPersistent(s, overlay, namespaces, rev) ==
    IF Outdated(s, rev)
    THEN s
    ELSE [PublishCandidate(s, Compose(s.base, overlay), namespaces, rev)
            EXCEPT !.overlay = overlay, !.accepted = namespaces]

NoNamespaces(s) == \A n \in Names : s.namespaces[n] = Absent
BootstrapNamespaces(s) ==
    LET seed == [n \in Names |-> IF n = Implicit THEN 1 ELSE Absent]
        tried == [s EXCEPT !.seeded = TRUE]
    IN  IF NoNamespaces(s) /\ Valid
        THEN [PublishCandidate(tried, Compose(s.base, s.overlay), seed, s.rev) EXCEPT !.accepted = seed]
        ELSE tried

\* Content changed behind unchanged paths is a generation of its own.
RefreshExternalMaterial(s) == Snapshot(s, s.effective, s.namespaces, s.rev)

\* The incarnations of a view, each with the authority to act on it.
Authorities(s) ==
    {[name |-> n, born |-> s.born[n], value |-> s.namespaces[n]] :
        n \in {n \in Names : s.namespaces[n] # Absent}}

\* An incarnation the new view does not carry loses its authority before the
\* view becomes current.
Retired(t, p) == t.namespaces[p.name] = Absent \/ t.born[p.name] # p.born
Install(t) ==
    /\ store' = t
    /\ permits' = {p \in permits : ~Retired(t, p)}
                    \cup {p \in Authorities(t) : p.born > store.generation}

-----------------------------------------------------------------------------
(* etcd and the files *)

Written(h, k, v) ==
    LET keys == IF h = <<>> THEN Nothing ELSE Last(h).keys
    IN  Append(h, [key |-> k, keys |-> [keys EXCEPT ![k] = v]])

OtherWrites(k, v) ==
    /\ left.writes > 0
    /\ v # Absent \/ Latest[k] # Absent
    /\ hist' = Written(hist, k, v)
    /\ Spend("writes")
    /\ UNCHANGED <<reader, queue, store, permits, module, disk, material>>

EditFile(patch) ==
    /\ left.files > 0
    /\ disk' = patch
    /\ Spend("files")
    /\ UNCHANGED <<hist, reader, queue, store, permits, module, material>>

\* Each new content is different from all before it, the old one can return.
EditMaterial(m) ==
    /\ left.materials > 0
    /\ m # material
    /\ material' = m
    /\ Spend("materials")
    /\ UNCHANGED <<hist, reader, queue, store, permits, module, disk>>

-----------------------------------------------------------------------------
(* The reader task *)

HasNamespace(keys) == \E n \in Names : keys[n] # Absent
Send(rev, replace) == queue' = Append(queue, [rev |-> rev, replace |-> replace])

\* (mutant) A reader that ends with its first stream.
ConnectsOnce == ~reader.up /\ reader.at = 0

\* The retry of the reader's loop.
Reconnects == ~reader.up

\* A listing without namespaces leaves the namespaces of the view alone.
Relist ==
    /\ module.pc # "failed"
    /\ Reconnects /\ Len(queue) < QueueCap
    /\ reader' = [up |-> TRUE, at |-> Len(hist)]
    /\ Send(Len(hist), HasNamespace(Latest))
    /\ UNCHANGED <<hist, store, permits, module, disk, material, left>>

\* All events of one watch response make one candidate.
WatchResponse(n) ==
    /\ module.pc # "failed"
    /\ reader.up /\ n \in reader.at + 1 .. Len(hist) /\ Len(queue) < QueueCap
    /\ reader' = [reader EXCEPT !.at = n]
    /\ Send(n, \E r \in reader.at + 1 .. n : hist[r].key \in Names)
    /\ UNCHANGED <<hist, store, permits, module, disk, material, left>>

Disconnect ==
    /\ reader.up /\ left.faults > 0
    /\ reader' = [reader EXCEPT !.up = FALSE]
    /\ Spend("faults")
    /\ UNCHANGED <<hist, queue, store, permits, module, disk, material>>

-----------------------------------------------------------------------------
(* The module task *)

Running == module.pc = "running"

\* initialize_missing creates the keys the first candidate lacked with the
\* file's values, one transaction after the other; a key that is there by now
\* is left alone.
Upsert(missing) == missing
Create(missing) == {k \in missing : Latest[k] = Absent}
InitializeMissing(missing, base, n) ==
    LET order == SetToSeq(Create(missing))
    IN  hist \o [i \in 1 .. n |->
                   [key |-> order[i],
                    keys |-> [k \in Keys |-> IF \E j \in 1 .. i : order[j] = k THEN base[k]
                                             ELSE Latest[k]]]]

\* m: the module after the step.  bootstrap_missing is taken whether or not
\* there is a session to write with.  A fence that fails ends the attempt, any
\* other failure ends the module; the keys before it are written, and its own
\* may be.
TakeMissing(m, base) ==
    LET done == [m EXCEPT !.missing = {}]
        all == Cardinality(Create(m.missing))
    IN  IF m.leading /\ m.missing # {}
        THEN \/ hist' = InitializeMissing(m.missing, base, all) /\ module' = done /\ UNCHANGED left
             \/ /\ left.faults > 0 /\ Spend("faults")
                /\ \E n \in 0 .. all : hist' = InitializeMissing(m.missing, base, n)
                /\ module' \in {done, [done EXCEPT !.pc = "failed"]}
        ELSE module' = done /\ UNCHANGED <<hist, left>>

\* apply_raw_candidate: a candidate without a namespace event is decoded
\* without the namespaces.
Decodes(c) == \A k \in Online \cup (IF c.replace THEN Names ELSE {}) : At(c.rev)[k] # Malformed
Accepts(c) == Decodes(c) /\ (Outdated(store, c.rev) \/ Valid)
Applied(c) ==
    ApplyPersistent(store, [k \in Online |-> At(c.rev)[k]],
        IF c.replace THEN [n \in Names |-> At(c.rev)[n]] ELSE store.accepted, c.rev)

MissingDefaults(c) == {k \in Online : At(c.rev)[k] = Absent}

ReceiveCandidate ==
    /\ Running /\ queue # <<>>
    /\ LET c == Head(queue)
           bootstrap == ~module.bootstrapped
           m == [module EXCEPT
                    !.bootstrapped = TRUE,
                    !.missing = IF bootstrap THEN MissingDefaults(c) ELSE @,
                    !.ready = @ \/ Accepts(c),
                    !.fingerprint = IF Accepts(c) THEN material ELSE @,
                    !.rejected = ~Accepts(c)]
       IN  IF bootstrap /\ ~Accepts(c)
           THEN /\ module' = [m EXCEPT !.pc = "failed"]
                /\ UNCHANGED <<hist, store, permits, left>>
           ELSE /\ Install(IF Accepts(c) THEN Applied(c) ELSE store)
                /\ TakeMissing(m, store.base)
    /\ queue' = Tail(queue)
    /\ UNCHANGED <<reader, disk, material>>

WinElection ==
    /\ Running /\ ~module.leading
    /\ TakeMissing([module EXCEPT !.leading = TRUE], store.base)
    /\ UNCHANGED <<reader, queue, store, permits, disk, material>>

LoseElection ==
    /\ Running /\ module.leading /\ left.faults > 0
    /\ module' = [module EXCEPT !.leading = FALSE]
    /\ Spend("faults")
    /\ UNCHANGED <<hist, reader, queue, store, permits, disk, material>>

\* The new transport stops the reader and the election; what is queued stays.
\* Settings no transport can be built from end the module.
Reconfigure(changed, m) ==
    \/ reader' = reader /\ module' = m
    \/ changed /\ reader' = reader /\ module' = [m EXCEPT !.pc = "failed"]
    \/ /\ changed
       /\ reader' = [reader EXCEPT !.up = FALSE]
       /\ module' = [m EXCEPT !.leading = FALSE]

\* The file differs from what was loaded last, and is accepted; a refused one is
\* tried again at the next tick.
Reloads == disk # module.content /\ Loads(disk)

\* reload_file, then reload_external_material.
FileTick ==
    /\ Running
    /\ LET reload == Reloads
           s == IF reload THEN ApplyToml(store, disk) ELSE store
           m == IF reload THEN [module EXCEPT !.content = disk, !.fingerprint = material] ELSE module
           refresh == m.fingerprint # material /\ Valid
           t == IF refresh THEN RefreshExternalMaterial(s) ELSE s
       IN  /\ reload \/ refresh
           /\ Install(t)
           /\ Reconfigure(t.generation # store.generation,
                          IF refresh THEN [m EXCEPT !.fingerprint = material] ELSE m)
    /\ UNCHANGED <<hist, queue, disk, material, left>>

\* apply_local_toml; a refused document changes nothing.
LocalToml(patch) ==
    /\ Running /\ Loads(patch) /\ store.seeded /\ left.files > 0
    /\ Install(ApplyToml(store, patch))
    /\ module' = [module EXCEPT !.fingerprint = material]
    /\ Spend("files")
    /\ UNCHANGED <<hist, reader, queue, disk, material>>

\* The main task, once the module is ready; the process does not start
\* without it.
SeedNamespaces ==
    /\ module.ready /\ ~store.seeded
    /\ Install(BootstrapNamespaces(store))
    /\ module' = IF NoNamespaces(store) /\ ~Valid THEN [module EXCEPT !.pc = "failed"] ELSE module
    /\ UNCHANGED <<hist, reader, queue, disk, material, left>>

\* persist_mutation up to the commit: v is Absent for a deletion.  The module
\* waits for the answer.
Mutate(k, v) ==
    /\ Running /\ module.leading /\ store.seeded /\ Valid
    /\ left.mutations > 0
    /\ v # Absent \/ k \in Names
    /\ LET committed == IF v = Absent /\ Latest[k] = Absent THEN hist ELSE Written(hist, k, v)
       IN  /\ hist' = committed
           /\ module' = [module EXCEPT !.pc = "waiting",
                                       !.mutation = [key |-> k, value |-> v, rev |-> Len(committed)]]
    /\ Spend("mutations")
    /\ UNCHANGED <<reader, queue, store, permits, disk, material>>

\* apply_committed_*_mutation: the view of this process with one key changed.
Committed(m) ==
    IF m.key \in Online
    THEN ApplyPersistent(store, [store.overlay EXCEPT ![m.key] = m.value], store.accepted, m.rev)
    ELSE ApplyPersistent(store, store.overlay, [store.accepted EXCEPT ![m.key] = m.value], m.rev)

Resumed == [module EXCEPT !.pc = "running", !.mutation = NoMutation]

Answered ==
    /\ module.pc = "waiting"
    /\ Install(IF Valid THEN Committed(module.mutation) ELSE store)
    /\ module' = Resumed
    /\ UNCHANGED <<hist, reader, queue, disk, material, left>>

\* The answer is lost: the write is in etcd, the caller is told it is not known.
AnswerLost ==
    /\ module.pc = "waiting" /\ left.faults > 0
    /\ module' = Resumed
    /\ Spend("faults")
    /\ UNCHANGED <<hist, reader, queue, store, permits, disk, material>>

-----------------------------------------------------------------------------

Base == [k \in Online |-> 1]

Init ==
    /\ hist = <<>> /\ queue = <<>>
    /\ reader = [up |-> FALSE, at |-> 0]
    /\ store = [generation |-> 1, rev |-> 0, effective |-> Base, base |-> Base,
                overlay |-> [k \in Online |-> Absent],
                namespaces |-> [n \in Names |-> Absent], accepted |-> [n \in Names |-> Absent],
                born |-> [n \in Names |-> 1], loaded |-> 1, seeded |-> FALSE]
    /\ permits = {}
    /\ module = [pc |-> "running", leading |-> FALSE, ready |-> FALSE, bootstrapped |-> FALSE,
                 missing |-> {},
                 content |-> [k \in Online |-> Absent], fingerprint |-> 1, rejected |-> FALSE,
                 mutation |-> NoMutation]
    /\ disk = [k \in Online |-> Absent] /\ material = 1
    /\ left \in Instances

Next ==
    \/ \E k \in left.keys, v \in Values \cup {Absent, Malformed} : OtherWrites(k, v)
    \/ \E p \in Patches : EditFile(p)
    \/ \E m \in {Broken, 1, 2} : EditMaterial(m)
    \/ Relist
    \/ \E n \in 1 .. Len(hist) : WatchResponse(n)
    \/ Disconnect
    \/ ReceiveCandidate
    \/ WinElection
    \/ LoseElection
    \/ FileTick
    \/ \E p \in Patches : LocalToml(p)
    \/ SeedNamespaces
    \/ \E k \in left.keys, v \in Values \cup {Absent} : Mutate(k, v)
    \/ Answered
    \/ AnswerLost

Spec == Init /\ [][Next]_vars

\* The tasks run, etcd answers, and the timer of the files keeps ticking.
Fairness ==
    /\ WF_vars(left.live /\ Relist)
    /\ WF_vars(left.live /\ \E n \in 1 .. Len(hist) : WatchResponse(n))
    /\ WF_vars(left.live /\ ReceiveCandidate) /\ WF_vars(left.live /\ Answered)
    /\ WF_vars(left.live /\ FileTick)

FairSpec == Spec /\ Fairness

-----------------------------------------------------------------------------
(* Properties *)

Namespaces == [Names -> 0 .. Malformed]

\* Every variable has its shape.
TypeOK ==
    /\ \A r \in DOMAIN hist : hist[r] \in [key : Keys, keys : [Keys -> 0 .. Malformed]]
    /\ reader \in [up : BOOLEAN, at : 0 .. Len(hist)]
    /\ queue \in BoundedSeq([rev : 0 .. Len(hist), replace : BOOLEAN], QueueCap)
    /\ store.rev \in 0 .. Len(hist) /\ store.generation \in Nat /\ store.seeded \in BOOLEAN
    /\ store.effective \in [Online -> Values] /\ store.base \in [Online -> Values]
    /\ store.overlay \in [Online -> Values \cup {Absent}]
    /\ {store.namespaces, store.accepted} \subseteq [Names -> Values \cup {Absent}]
    /\ module.pc \in {"running", "waiting", "failed"}
    /\ module.bootstrapped \in BOOLEAN /\ module.missing \subseteq Online
    /\ {module.fingerprint, store.loaded, material} \subseteq 0 .. 2

\* Everything etcd holds has reached the module.
Settled == reader.up /\ reader.at = Len(hist) /\ queue = <<>> /\ module.pc = "running"

\* When nothing is under way and the last candidate was not rejected, the
\* online sections show etcd over the file: no own write applied ahead of the
\* watch, reconnection, dropped candidate or unchanged one leaves an older
\* value behind (apply_persistent_inner, apply_toml).
OnlineConverges ==
    Settled /\ ~module.rejected =>
        store.effective = Compose(store.base, [k \in Online |-> Latest[k]])

\* The authority to act on a namespace is valid exactly while the published
\* view holds that incarnation of it with that content, through changes of
\* other parts, rotations, removals and returns (retain_identities,
\* revoke_retired_namespaces).
NamespaceAuthority == permits = Authorities(store)

\* The defaults the first listing lacked are created only where nobody wrote
\* since (initialize_missing).
DefaultsDoNotOverwrite ==
    [][~module.bootstrapped /\ module'.bootstrapped =>
        \A k \in Keys : Latest[k] # Absent => Latest'[k] = Latest[k]]_vars

\* The state invariants of the store together.
ConfigConsistent == TypeOK /\ OnlineConverges /\ NamespaceAuthority

\* The view catches up with etcd once it stops changing, unless the last
\* candidate was rejected or the certificate files do not load; and with the
\* file, unless it is one that is refused.  A file refused only for the sake of
\* the certificate files is taken up when they load again, and one that stays
\* refused does not hold up what comes from etcd (reload_file, run_inner).
ViewCatchesUp ==
    <>[](\/ ~left.live \/ module.pc = "failed" \/ module.rejected \/ ~Valid
         \/ /\ store.effective = Compose(store.base, [k \in Online |-> Latest[k]])
            /\ Loads(disk) => module.content = disk)
=============================================================================
