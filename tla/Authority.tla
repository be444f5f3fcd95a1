----------------------------- MODULE Authority -----------------------------
(***************************************************************************)
(* Ownership, lifecycle and commit permits of the control plane: an effect *)
(* runs with the locks of every permit it rests on held, and whoever ends  *)
(* an authority takes its lock first (control-plane permit.rs,             *)
(* ownership.rs, runtime.rs; the publishers of control-config source.rs    *)
(* and control-topology static_source.rs; the effects of control-router    *)
(* authority.rs).                                                          *)
(*                                                                         *)
(* A step takes one lock or does what one lock protects.  A revocation is  *)
(* one step that waits for the lock to be free.  Permits are numbers:      *)
(* their order is the order of their addresses.                            *)
(***************************************************************************)
EXTENDS Naturals, Sequences, FiniteSets, Functions

CONSTANTS
    Effects,        \* threads that commit effects
    Releasers,      \* threads that release leases
    MaxRuntimes,    \* runtimes that claim the process, one after the other
    MaxConfigs,     \* configuration snapshots published
    MaxEpochs,      \* mode epochs published
    AuthorityBudgets \* the budgets explored, each a record of Budgets

Free == "free"     \* nobody holds the lock

\* Which of the runtimes, threads, snapshots and epochs take part, how many
\* effects are attempted, and whether the threads are fair (live).
Budgets == [runtimes : Nat, effects : SUBSET Effects, releasers : SUBSET Releasers,
            configs : Nat, epochs : Nat, commits : Nat, live : BOOLEAN]

ASSUME AuthorityAssumption ==
    /\ MaxRuntimes \in Nat
    /\ {MaxConfigs, MaxEpochs} \subseteq Nat \ {0}   \* a first one is published
    /\ Free \notin Effects
    /\ AuthorityBudgets \subseteq Budgets
    /\ \A b \in AuthorityBudgets :
        b.runtimes <= MaxRuntimes /\ b.configs <= MaxConfigs /\ b.epochs <= MaxEpochs

VARIABLES
    valid,          \* permits that have been issued and not revoked
    holder,         \* the effect thread that holds the lock of a permit
    owner,          \* OwnershipRegistry: the runtime that owns the process, 0 if none
    runtime,        \* per runtime: phase, what the lifecycle watch shows, lease
    release,        \* per releasing thread
    config,         \* the configuration store: snapshot, lock, and its writer's step
    epoch,          \* the mode publisher
    effect,         \* per effect thread
    left            \* what is left of the budget

authorityVars == <<valid, holder, owner, runtime, release, config, epoch, effect, left>>

Runtimes == 1 .. MaxRuntimes
LeasePermit(i) == i
ReadyPermit(i) == MaxRuntimes + i
ConfigPermit(g) == 2 * MaxRuntimes + g
EpochPermit(e) == 2 * MaxRuntimes + MaxConfigs + e
Permits == 1 .. 2 * MaxRuntimes + MaxConfigs + MaxEpochs

RuntimePhases == {"Unclaimed", "Starting", "Ready", "Quiescing", "Draining", "Stopping", "Stopped", "Failed"}

\* CommitPermit::revoke takes the commit lock, so it waits for the effect
\* that holds it.
RevocableAnyTime(p) == TRUE
Revocable(p) == holder[p] = Free
Revoke(p) == Revocable(p) /\ valid' = valid \ {p}

-----------------------------------------------------------------------------
(* Ownership *)

NoRuntime == [phase |-> "Unclaimed", next |-> "Unclaimed", shown |-> "Unclaimed",
              dropped |-> FALSE, unregistered |-> FALSE]
Claimed == [phase |-> "Starting", next |-> "Starting", shown |-> "Starting",
            dropped |-> FALSE, unregistered |-> FALSE]

Claim(i) ==
    /\ owner = 0 /\ runtime[i].phase = "Unclaimed" /\ i <= left.runtimes
    /\ owner' = i
    /\ valid' = valid \cup {LeasePermit(i)}
    /\ runtime' = [runtime EXCEPT ![i] = Claimed]
    /\ UNCHANGED <<holder, release, config, epoch, effect, left>>

\* LeaseState::release: the order of its steps, for every caller.
ReleaseFlagFirst == <<"swap", "revoke", "remove">>
ReleaseOrder == <<"revoke", "swap", "remove">>

Release(t, i) ==
    /\ release[t].at = 0 /\ t \in left.releasers
    /\ runtime[i].phase # "Unclaimed"
    /\ release' = [release EXCEPT ![t] = [at |-> 1, lease |-> i]]
    /\ UNCHANGED <<valid, holder, owner, runtime, config, epoch, effect, left>>

InRelease(t, step) == release[t].at \in DOMAIN ReleaseOrder /\ ReleaseOrder[release[t].at] = step
Returned == Len(ReleaseOrder) + 1
Advance(t, to) == release' = [release EXCEPT ![t].at = to]

ReleaseRevokes(t) ==
    /\ InRelease(t, "revoke")
    /\ Revoke(LeasePermit(release[t].lease))
    /\ Advance(t, release[t].at + 1)
    /\ UNCHANGED <<holder, owner, runtime, config, epoch, effect, left>>

\* The one-time teardown belongs to the thread that turns the flag.
SwapUnregistered(t) ==
    /\ InRelease(t, "swap")
    /\ LET i == release[t].lease
       IN  /\ runtime' = [runtime EXCEPT ![i].unregistered = TRUE]
           /\ Advance(t, IF runtime[i].unregistered THEN Returned ELSE release[t].at + 1)
    /\ UNCHANGED <<valid, holder, owner, config, epoch, effect, left>>

RemoveOwner(t) ==
    /\ InRelease(t, "remove")
    /\ owner' = IF owner = release[t].lease THEN 0 ELSE owner
    /\ Advance(t, release[t].at + 1)
    /\ UNCHANGED <<valid, holder, runtime, config, epoch, effect, left>>

-----------------------------------------------------------------------------
(* Lifecycle: transitions hold the state lock from the check to the end *)

Transitions ==
    {<<"Starting", "Ready">>, <<"Starting", "Quiescing">>, <<"Ready", "Quiescing">>,
     <<"Quiescing", "Draining">>, <<"Failed", "Draining">>, <<"Draining", "Stopping">>,
     <<"Stopping", "Stopped">>}
\* fail: a runtime that drains or stops goes on doing so.
Failures == {<<"Starting", "Failed">>, <<"Ready", "Failed">>, <<"Quiescing", "Failed">>}

Unlocked(i) == runtime[i].next = runtime[i].phase

\* set_phase: readiness is revoked before the phase changes.
BeginTransition(i, next) ==
    /\ Unlocked(i) /\ ~runtime[i].dropped
    /\ <<runtime[i].phase, next>> \in Transitions \cup Failures
    /\ runtime' = [runtime EXCEPT ![i].next = next]
    /\ UNCHANGED <<valid, holder, owner, release, config, epoch, effect, left>>

SetPhase(i) ==
    /\ ~Unlocked(i)
    /\ CASE runtime[i].next = "Ready" -> valid' = valid \cup {ReadyPermit(i)}
         [] ReadyPermit(i) \in valid -> Revoke(ReadyPermit(i))
         [] OTHER -> UNCHANGED valid
    /\ runtime' = [runtime EXCEPT ![i].phase = runtime[i].next, ![i].shown = runtime[i].next]
    /\ UNCHANGED <<holder, owner, release, config, epoch, effect, left>>

\* Drop for ControlRuntime: the phase is left as it was.
DropRuntime(i) ==
    /\ runtime[i].phase # "Unclaimed" /\ Unlocked(i) /\ ~runtime[i].dropped
    /\ IF ReadyPermit(i) \in valid THEN Revoke(ReadyPermit(i)) ELSE UNCHANGED valid
    /\ runtime' = [runtime EXCEPT ![i].dropped = TRUE]
    /\ UNCHANGED <<holder, owner, release, config, epoch, effect, left>>

-----------------------------------------------------------------------------
(* Publishers *)

\* publish_candidate, under the store's write lock: the outgoing snapshot
\* loses its authority, then the new one becomes current.
PublishBegin ==
    /\ config.step = "idle" /\ config.current < left.configs
    /\ config' = [config EXCEPT !.step = "revoke"]
    /\ UNCHANGED <<valid, holder, owner, runtime, release, epoch, effect, left>>

PublishRevoke ==
    /\ config.step = "revoke"
    /\ Revoke(ConfigPermit(config.current))
    /\ config' = [config EXCEPT !.step = "swap"]
    /\ UNCHANGED <<holder, owner, runtime, release, epoch, effect, left>>

PublishSwap ==
    /\ config.step = "swap"
    /\ valid' = valid \cup {ConfigPermit(config.current + 1)}
    /\ config' = [step |-> "idle", current |-> config.current + 1]
    /\ UNCHANGED <<holder, owner, runtime, release, epoch, effect, left>>

\* ModePublisher::revoke, at the start of a transition
RevokeEpoch ==
    /\ EpochPermit(epoch) \in valid
    /\ Revoke(EpochPermit(epoch))
    /\ UNCHANGED <<holder, owner, runtime, release, config, epoch, effect, left>>

\* ModePublisher::publish, at its end
PublishEpoch ==
    /\ epoch < left.epochs
    /\ Revocable(EpochPermit(epoch))
    /\ valid' = (valid \ {EpochPermit(epoch)}) \cup {EpochPermit(epoch + 1)}
    /\ epoch' = epoch + 1
    /\ UNCHANGED <<holder, owner, runtime, release, config, effect, left>>

-----------------------------------------------------------------------------
(* Effects *)

NoEffect == [pc |-> "idle", of |-> 0, config |-> 0, epoch |-> 0, whole |-> FALSE, todo |-> {}]
Holding(c) == {p \in Permits : holder[p] = c}

\* capture: the candidate of commit_valid (whole), or the snapshot of
\* commit_current, which does not rest on the configuration.
Capture(c, i, whole) ==
    /\ effect[c].pc = "idle" /\ left.commits > 0 /\ c \in left.effects
    /\ LeasePermit(i) \in valid /\ runtime[i].shown = "Ready"
    /\ config.step = "idle" /\ EpochPermit(epoch) \in valid
    /\ effect' = [effect EXCEPT ![c] = [pc |-> "captured", of |-> i, config |-> config.current,
                                        epoch |-> epoch, whole |-> whole, todo |-> {}]]
    /\ left' = [left EXCEPT !.commits = @ - 1]
    /\ UNCHANGED <<valid, holder, owner, runtime, release, config, epoch>>

\* What commit_valid and commit_current pass to commit_all, in their order;
\* the overlay's owner is the owner of the process.
Authorities(e) ==
    IF e.whole
    THEN <<ReadyPermit(e.of), ConfigPermit(e.config), LeasePermit(e.of), EpochPermit(e.epoch), LeasePermit(e.of)>>
    ELSE <<EpochPermit(e.epoch), LeasePermit(e.of)>>

\* commit_all locks by address, each permit once: the next of those an effect
\* has to lock is the one with the lowest address.
NextAsPassed(e, p) ==
    LET list == Authorities(e)
    IN  \E k \in DOMAIN list :
            list[k] = p /\ \A j \in DOMAIN list : list[j] \in e.todo => k <= j
NextToLock(e, p) == \A q \in e.todo : p <= q

Refuse(c) == effect' = [effect EXCEPT ![c] = NoEffect]

\* What can be refused before anything is locked.  Reading the current
\* configuration waits for the store's writer.
StillCurrent(e) ==
    /\ e.whole => e.config = config.current /\ runtime[e.of].shown = "Ready"
    /\ e.epoch = epoch

Check(c) ==
    /\ effect[c].pc = "captured"
    /\ effect[c].whole => config.step = "idle"
    /\ IF StillCurrent(effect[c])
       THEN effect' = [effect EXCEPT ![c].pc = "acquire", ![c].todo = Range(Authorities(effect[c]))]
       ELSE Refuse(c)
    /\ UNCHANGED <<valid, holder, owner, runtime, release, config, epoch, left>>

Lock(c) ==
    /\ effect[c].pc = "acquire"
    /\ \E p \in effect[c].todo :
        /\ NextToLock(effect[c], p)
        /\ holder[p] = Free
        /\ holder' = [holder EXCEPT ![p] = c]
        /\ effect' = [effect EXCEPT ![c].todo = @ \ {p}]
    /\ UNCHANGED <<valid, owner, runtime, release, config, epoch, left>>

Unlock(c) == holder' = [p \in Permits |-> IF holder[p] = c THEN Free ELSE holder[p]]

Decide(c) ==
    /\ effect[c].pc = "acquire" /\ effect[c].todo = {}
    /\ IF Holding(c) \subseteq valid
       THEN effect' = [effect EXCEPT ![c].pc = "effect"] /\ UNCHANGED holder
       ELSE Refuse(c) /\ Unlock(c)
    /\ UNCHANGED <<valid, owner, runtime, release, config, epoch, left>>

Finish(c) ==
    /\ effect[c].pc = "effect"
    /\ Refuse(c) /\ Unlock(c)
    /\ UNCHANGED <<valid, owner, runtime, release, config, epoch, left>>

-----------------------------------------------------------------------------

AuthorityInit ==
    /\ valid = {ConfigPermit(1), EpochPermit(1)}
    /\ holder = [p \in Permits |-> Free]
    /\ owner = 0
    /\ runtime = [i \in Runtimes |-> NoRuntime]
    /\ release = [t \in Releasers |-> [at |-> 0, lease |-> 0]]
    /\ config = [step |-> "idle", current |-> 1]
    /\ epoch = 1
    /\ effect = [c \in Effects |-> NoEffect]
    /\ left \in AuthorityBudgets

ReleaseStep(t) == ReleaseRevokes(t) \/ SwapUnregistered(t) \/ RemoveOwner(t)
EffectStep(c) == Check(c) \/ Lock(c) \/ Decide(c) \/ Finish(c)

AuthorityNext ==
    \/ \E i \in Runtimes : Claim(i) \/ SetPhase(i) \/ DropRuntime(i)
    \/ \E i \in Runtimes, next \in RuntimePhases : BeginTransition(i, next)
    \/ \E t \in Releasers, i \in Runtimes : Release(t, i)
    \/ \E t \in Releasers : ReleaseStep(t)
    \/ PublishBegin \/ PublishRevoke \/ PublishSwap
    \/ RevokeEpoch \/ PublishEpoch
    \/ \E c \in Effects, i \in Runtimes, whole \in BOOLEAN : Capture(c, i, whole)
    \/ \E c \in Effects : EffectStep(c)

AuthoritySpec == AuthorityInit /\ [][AuthorityNext]_authorityVars

\* Threads run, and a lock that stays free is taken.
AuthorityFairness ==
    /\ \A c \in Effects : WF_authorityVars(left.live /\ EffectStep(c))
    /\ \A t \in Releasers : WF_authorityVars(left.live /\ ReleaseStep(t))
    /\ \A i \in Runtimes : WF_authorityVars(left.live /\ SetPhase(i))
    /\ WF_authorityVars(left.live /\ PublishRevoke) /\ WF_authorityVars(left.live /\ PublishSwap)

FairAuthoritySpec == AuthoritySpec /\ AuthorityFairness

-----------------------------------------------------------------------------
(* Properties *)

RuntimeStates == [phase : RuntimePhases, next : RuntimePhases, shown : RuntimePhases,
                  dropped : BOOLEAN, unregistered : BOOLEAN]
EffectStates == [pc : {"idle", "captured", "acquire", "effect"}, of : 0 .. MaxRuntimes,
                 config : 0 .. MaxConfigs, epoch : 0 .. MaxEpochs, whole : BOOLEAN,
                 todo : SUBSET Permits]

\* Every variable has its shape.
AuthorityTypes ==
    /\ valid \subseteq Permits
    /\ holder \in [Permits -> Effects \cup {Free}]
    /\ owner \in 0 .. MaxRuntimes
    /\ runtime \in [Runtimes -> RuntimeStates]
    /\ release \in [Releasers -> [at : 0 .. Returned, lease : 0 .. MaxRuntimes]]
    /\ config \in [step : {"idle", "revoke", "swap"}, current : 1 .. MaxConfigs]
    /\ epoch \in 1 .. MaxEpochs
    /\ effect \in [Effects -> EffectStates]
    /\ left \in Budgets

Released(i) == \E t \in Releasers : release[t].lease = i /\ release[t].at = Returned

\* While an effect runs, everything it rests on is current: no release of its
\* lease has returned and the lease is registered, the runtime is ready, and
\* the configuration and the mode are the ones it captured (commit_all,
\* revoke, set_phase, publish_candidate).
EffectsAreAuthorised ==
    \A c \in Effects : effect[c].pc = "effect" =>
        LET e == effect[c]
        IN  /\ ~Released(e.of) /\ owner = e.of
            /\ e.epoch = epoch
            /\ e.whole => /\ runtime[e.of].phase = "Ready" /\ ~runtime[e.of].dropped
                          /\ e.config = config.current

\* When a release returns, to whichever of several callers, the owner is not
\* current any more (LeaseState::release).
ReleasedIsOver == \A i \in Runtimes : Released(i) => LeasePermit(i) \notin valid

\* Two runtimes never both hold a valid lease of the process (claim, release).
OneOwner == \A i, j \in Runtimes : {LeasePermit(i), LeasePermit(j)} \subseteq valid => i = j

\* The state invariants of the ownership together.
OwnershipConsistent == AuthorityTypes /\ ReleasedIsOver /\ OneOwner

\* Nobody waits for ever: every effect that began to lock ends, whatever other
\* effects and revokers wait for, every release returns and every publication
\* is made (commit_all); attempts are bounded, so all is quiet in the end.
NobodyWaitsForever ==
    <>[](left.live => /\ \A c \in Effects : effect[c].pc = "idle"
                      /\ \A t \in Releasers : release[t].at \in {0, Returned}
                      /\ config.step = "idle")
=============================================================================
