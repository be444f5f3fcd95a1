# TiProxy: a TLA+ model of the Rust proxy

TiProxy is a proxy between MySQL clients and TiDB servers. It can move a client session
from one TiDB server to another between two transactions, without the client noticing.
This directory models the Rust implementation (`src/rust/crates`): how a connection is admitted,
routed and served, how the router moves and closes sessions, and the control plane behind it
(configuration, discovery and health, election, ownership) with the metering of traffic.

## 1. The system

| Part | State it keeps | Operations | What makes it correct |
|---|---|---|---|
| **session state machine** `session-core/fsm.rs` | one of 13 states, 8 flags | `on_event`: a pure transition with an ordered list of effects | each redirect gets one result; a backend is owned exactly while the session is live; a drain beats a migration; a close is final |
| **session loop, gate, relay** `dataplane/session.rs`, `gate.rs` | the shared core (machine, `open`, messages in flight), timers, one parked command | biased select over shutdown, control, deadline, probe, event; seal | no event is lost or rejected; nothing is admitted after the seal; a probe does not disturb a command |
| **session engine** `dataplane/session_engine.rs` (`Engine`) | both sockets, redirect target, candidate backend, held request, transaction tracker | read, forward, respond, hold a BEGIN, migrate, swap, execute effects | a backend is exchanged only when quiet; every command is answered or the session ends |
| **session owner** `session_engine.rs` (`run_bound_session_observed`) | the redirect and the close it is responsible for, the force deadline | router command to control, reports to settlements, bounded join | each accepted command is settled; the session ends when told to |
| **route ledger** `control-router/ledger.rs`, `migration_history.rs` | stage of every session, counters and arrival list of every account; bounded label sets | open, reserve, finish, redirect, close, prune ... (25 actions) | counters equal the sessions charged; accounts in use are retained; a terminal settles at most once |
| **router, balance, plane** `control-router/selector*`, `factors*`, `plane.rs`, `retry.rs` | known backends and their accounts, pacing, failover clocks, the worker | refresh, reserve and retry, balance round, timed-out closes, redirect all, replacement of a namespace | accounts in use keep their backend; failed backends are emptied; balancing comes to rest |
| **route command delivery** `control-router/scheduler.rs` | a FIFO per session, envelopes with a terminal guard | offer, receive, settle, drop | a pending command is in one envelope; whoever drops it settles it |
| **admission and registry** `dataplane/admission.rs`, `registry.rs`, `server.rs` | permits, reserved bytes, memory readings, ids | acquire, release, reload, stop accepting, force | limits are exact under concurrency; the shutdown releases everything |
| **metering** `dataplane/metering.rs`, `control-meter` | counters per source, write-ahead log, consumer and outbox files, sealed window | register, sample, finalise, deliver, acknowledge, export | a byte is billed once, across crashes |
| **topology and health** `control-topology` | client epochs, routing sources, feed generations, health overlay, shared gauges | pull, publish, pair, probe round, rotate, retire | an overlay that may be acted on is exact; late results are not shown |
| **election** `control-etcd` | lease, candidate key, phase and interval, watch | campaign, keep alive, recover, fenced write, capture and commit work | writes follow the succession; no result crosses an uncertain interval |
| **ownership and permits** `control-plane` | leases of the process, lifecycle, permits and their locks | claim, release, commit, commit all, revoke | no effect runs without its authority; nobody waits for ever |
| **configuration** `control-config` | etcd overlay, file base, namespaces, certificate material, generations | list, watch, queue, apply, own write, reload | the view follows etcd and the file; authority over a namespace ends with its content |
| control bridge, administration, wire formats, composition, tools, Go implementation | | | bytes, HTTP, wiring, tests; not modelled |

How they interact. The *listeners* admit a socket and start a session. The *engine* and the *loop*
of a session exchange events (a channel of one slot) and effects (a channel of 16); the *owner*
feeds the loop with controls (8) and the engine with redirect targets, and takes reports (8) back.
The *router* worker validates a candidate of the current configuration, routing source and health
overlay, and under its lock puts redirects and force closes into the session's FIFO; the owner
settles them on the *ledger*. *Configuration*, *topology* and *health* publish the three sources
through watch channels with permits that are revoked when a publication is superseded. The
*election* decides which process may write shared state. The *sampler* of metering reads the
engine's counters.

The hard behaviours are interleavings of tasks that share one core or one lock, answers that come
late, twice or never, state that was read before a publication replaced it, crashes between two
durable writes, deadlines that race completions, and limits that are reloaded. They are listed, at
their lines, under `hazards` in `PROJECT.json`.

## 2. Modules

| Module | Models | Run with |
|---|---|---|
| `SessionFsm` | the pure machine; an environment offers any event at any time | `SessionFsm.cfg` |
| `SessionFsmProofs` | its theorems | TLAPS |
| `SessionRuntime` | loop, engine, owner, relay, router and server of one session; instantiates `SessionFsm` as the machine in the shared core | `MCSessionRuntime` |
| `SessionRuntimeProofs` | its theorems | TLAPS |
| `MigrationHistory` | label sets and their bounded retention (operators) | extended by `RouteLedger` |
| `RouteLedger` | the ledger, one action per operation | `MCRouteLedger` |
| `RouteLedgerProofs` | its theorems | TLAPS |
| `RouteWorker` | sources, backends, routing, worker rounds and FIFOs of one router with several sessions | `MCRouteWorker` |
| `RouteWorkerProofs` | its theorem | TLAPS |
| `Admission` | listeners, admission controller, registry, server shutdown | `MCAdmission` |
| `AdmissionProofs` | its theorems | TLAPS |
| `Metering` | sessions, sampler, log, consumer, outbox, exporter | `MCMetering` |
| `TopologyHealth` | refresh task, module task, health loop | `MCTopologyHealth` |
| `HealthHistory` | the gauges the observers share | `HealthHistory.cfg` |
| `TopologyHealthProofs` | the theorems of both | TLAPS |
| `Election` | members of one election and etcd | `MCElection` |
| `Authority` | leases, lifecycle, permits, effects and revokers | `MCAuthority` |
| `ElectionProofs` | the theorems of both | TLAPS |
| `ConfigStore` | reader, module task, store, file | `MCConfigStore` |
| `ConfigStoreProofs` | its theorems | TLAPS |

**Instances.** Each component has one run. Its question is asked of several environments (which
faults, which endings, fair or not): a module declares a variable that `Init` chooses from the
constant `Instances`, defined in the MC module, and that no step changes (`bounds`), or only counts
down (`left` in `Authority` and `ConfigStore`). A field `live` selects the environments in which
fairness is assumed: a fairness condition reads `WF_vars(bounds.live /\ A)` and a liveness property
`<>[](bounds.live => ...)`, so that safety instances are not restricted and need no fairness.

**SessionFsm.** `OnEvent(m, e)` is the set of outcomes of event `e` (empty: the event is
illegal), put together from one operator per state, as `on_event` is from one method per state.
Two variables count what the runtime would have done with the effects: `owners` (attached
minus released backends) and `owed` (redirects taken minus results given).

**SessionRuntime.** A step is one access to a channel or to the core. The engine is a control
point `pc` and a list `todo` of what it still has to do before its next input, so that an
`await` in the middle of a handler is a point where others can act. Every permit of the gate
belongs to a message or to an operation the model shows, so "nothing in flight" is a predicate
(`OthersQuiet`) rather than a counter. `faults` records the arms the code treats as invariant
violations. The session starts when the client's handshake response has been read.

**RouteLedger.** Every operation runs under the router's lock, so an action is an operation.
What the code can get wrong is the order in which holders of cloned handles call it: `minted`
keeps every handle ever given out and any of them may be presented at any time. A redirect is
*offered* in one action, with the outcome of the FIFO as a choice. `settled` counts, for the
properties, how often a redirect was settled. `OtherRouterIssues` and `RetireBackend` are the other
users of the shared history.

**RouteWorker.** The complement of `RouteLedger`: the ledger is reduced to stages and tokens, and
what surrounds it is complete. The worker holds the router lock from `StartRound` to `EndRound`
(`Locked`); every other access to the ledger is one step that needs the lock free; the FIFOs have
their own locks, so a session can take or drop a command between `Send` and the admission, but the
guard of the envelope waits (`SettleDropped`). A publication of the sources is a number; a candidate
is the number it captured, and validation compares. `Refresh` is `refresh` with
`refresh_backend_metadata`, prune included. A rate is the pause it imposes (`paced`), the failover
timeout a flag that becomes `due`. A token is any number no other envelope of the session has, since
tokens are compared only among envelopes that exist.

**Admission.** Two listeners capture a snapshot and decide later; the controller's lock makes
`TryAcquire` one step. `ahead` keeps, per place, who was admitted before it, for `SeatsFitTheirLimit`. The shutdown
has the two phases of the code, with bounded waits in listeners and server.

**Metering.** A step is one durable write or one access to the registry's lock, so a crash can fall
between any two. A restart reads the three files. `sealed` is what the log took over, per source.
Both directions of a source go through the same code and tenants are independent: one of each.

**TopologyHealth.** Three tasks and an owner lease. A gate and its watch slot change together.
Identity (`Arc::ptr_eq`) is a number given once. The u64 counters keep their limits, at small values.

**HealthHistory.** Observers (the dynamic source and static namespaces) share one history. A dial
takes its sequence when it returns and arrives later.

**Election.** A step is one request to etcd, executed and answered at once, or failed before or
after execution. A lease stands for its session, its candidate key and its authority.

**Authority.** A step takes one lock or does what one lock protects. Permits are numbers in the order
of their addresses, the order in which `commit_all` locks them: `todo` is the set of permits an effect
has still to lock, and `Lock` takes the one `NextToLock` names.

**ConfigStore.** `hist` is the history of etcd, one write per revision. The reader queues complete
candidates; own writes are applied at their commit revision, ahead of the watch.

## 3. Runs

| Run | Instances | Result |
|---|---|---|
| `session_fsm` | the whole state space | holds |
| `ledger` | 2 sessions, 2 accounts, 2 reservations, 2 redirects, 1 close, history of 1 label set, 2 keyspaces, limits 1 and 2 | holds |
| `session` | 2 commands and a redirect at any time, or 2 redirects, with a force close; probes with drain, force close or shutdown and peers that answer; peers that answer; without probes, peers that fall silent with drain, force close, shutdown | holds |
| `stuck_begin` | 2 commands, 1 redirect offered in the handshake | **violated**, see section 5 |
| `router` | 1 session while backends come and go twice; failing dials and redirects with the operator's redirect; a backend that fails for good, with 2 sessions, and with a namespace that is replaced; an unhealthy backend at a high rate, and in another keyspace; 3 sessions that are balanced | holds |
| `admission` | 2 listeners, 3 connections, 4 policies, ids that run out; memory readings that fail, age and expire; a shutdown with and without grace | holds |
| `metering` | a crash, a failed write or upload and a restart; 3 incarnations of a connection and 4 batches; 2 minutes; a counter that wraps; progress over 3 processes | holds |
| `topology_health` | 2 epochs, 2 generations and a panicking probe; a retiring owner with checks on and off; 3 sources in turn | holds |
| `health_history` | 2 observers, 2 addresses, 3 dials, room for 1 series | holds |
| `election` | 2 members with a failed request or a stop; 1 member whose session comes and goes; progress of 2 members | holds |
| `authority` | 2 effects against configurations, epochs and a release; 2 releasers over 2 runtimes; progress | holds |
| `config` | 2 foreign writes and 1 own over sections, with a failure; namespaces that return; certificate files; progress with an edit of the file, which may be refused, and a failure, or with certificate files that do not load for a while | holds |

Why the bounds are enough. *Ledger*: two sessions on two accounts are what it takes for one
session's terminal to hit another's charge; a second reservation lets a session be reserved again
after a failed attempt; two redirects allow a late terminal of the first while the second is
pending; the theorems remove the bounds for the most important properties. The combination of all
these is cut by the constraint `Explored` (one session with everything, or two sessions of one
keyspace and reason without the clock and closes): what is left out needs two sessions *and* two
keyspaces, and keyspace and cooldown are checks of one session. *Session*: two commands are needed to
open a transaction and then hold a BEGIN in it; with one command, a command, a redirect and a close
still overlap in every order; two redirects let a result of the first meet the second. The channels
have the code's capacities. *Router*: two backends and two publications let a backend be pruned and
return under a new account while a session, or a redirect on its way, still holds the old one; three
sessions are the fewest that two backends can share unevenly without being told to move. *Admission*:
three connections against a limit of two. *Metering*: one crash can fall on every write; a second
process meets what the first left; three incarnations let one be finalised while another is
sampled. *Election*: two members and three leases let a member return while the other has
taken over. *Authority*: a second configuration and epoch are one revocation of each, and two
effects wait for each other. *Config*: two foreign writes and one own write give a candidate that
is older than the own write and one that is newer.

Deadlock is checked in `session_fsm`, `session` and `topology_health`. Elsewhere the bounds let the environment come to
an end, where nothing is left to do; what must not get stuck there is a liveness property.

### What the properties say

* `session_fsm`: `RedirectAnsweredOnce`, `OwnerWhileLive`, `MigrationIsQuiet`, `DrainWins`: results,
  ownership, boundary, priority of a drain.
* `ledger`: `CountsMatchSessions`, `ChargedIsRetained`; `PendingNeverStuck` (the gauge never counts a
  migration that is not in flight); `KeyspaceKept`; `LedgerConsistent` = `PhysicalIsOwned` (arrival
  lists), `ScoreNeverUnderflows`, `RedirectSettledOnce`.
* `session`: `SessionConsistent` = `NoFaults` (none of the arms the code calls impossible is
  reached), `LedgerAgrees` (what the router charges is what the session talks to),
  `RedirectInProgress` (an accepted redirect is with someone who will settle it, unless it was offered
  in the handshake); `SwapIsQuiet`; `SealedAdmitsNothing`; `ProbeSparesCommands`; `SessionProgresses`
  (commands are answered by peers that answer, and a session told to end does: without
  probes whatever its peers do, with probes if the peers answer).
* `router`: `RouterConsistent` = `PendingIsOwned` (a command the ledger waits for is in exactly one
  envelope), `OwnersAreKnown` (an account in use is the account its backend has now);
  `EvacuationCompletes` (a failed backend is emptied by moves or closes, an unhealthy one by moves,
  also after the namespace was replaced); `LoadSettles` (migrations stop, at a balance).
* `admission`: `AdmissionConsistent` = `GaugesAreExact`, `SeatsFitTheirLimit`, `RegistryIsExact`,
  `DrainIsGraceful`; `MemoryIsGuarded` = `MemoryIsBounded`, `OpenOnlyWhenBlind`;
  `ShutdownReleasesAll`.
* `metering`: `BilledOnce` (every byte the log took is in exactly one place); `MeteringConsistent` =
  `CleanStopLosesNothing`, `ClosedTotalsExact`, `ClosedLeavesNothing`, `NothingRejected`; `LogDrains`.
* `topology_health`: `OverlayConsistent` = `OverlayIsExact` (an overlay a consumer may act on is of the
  current generation, complete and of the current epoch), `RoundsAreSeparate`; `GaugesAreQualified`;
  `RoutingAdvances`; `HealthSettles`.
* `health_history`: `HistoryConsistent` = `RetentionIsBounded`, `ClocksStopOnRecovery`;
  `PingNeverGoesBack`.
* `election`: `ElectionConsistent` = `WinnerIsFirst`, `WatchMissesNothing`,
  `EndedSessionsRetainNothing`; `WritesFollowSuccession`; `NoStalePublication`; `SomebodyLeads`.
* `authority`: `EffectsAreAuthorised`; `OwnershipConsistent` = `ReleasedIsOver`, `OneOwner`;
  `NobodyWaitsForever`.
* `config`: `ConfigConsistent` = `OnlineConverges`, `NamespaceAuthority`; `DefaultsDoNotOverwrite`;
  `ViewCatchesUp`.

Each conjunction of state invariants also contains the type invariant of its module.

### Fairness

Tasks are spawned on the tokio runtime and are woken when what they wait for becomes ready: a task's
own steps are weakly fair. Nothing is assumed of clients, backends, operators, publications or
faults, except where stated.

* *Session*: the tasks weakly; the owner's join deadline weakly; the loop's deadline strongly,
  because the biased select takes an expired deadline before any event, so a stream of events cannot
  starve it although each of them moves the loop away from its select for a while. In the instances
  with `prompt`, a packet that was begun is completed and a request that was sent is answered.
* *Router*: the worker weakly (it ticks for as long as it is held); a session's own steps and the
  clock strongly: the worker takes the lock again and again but leaves it free between two
  rounds, and a ready waiter gets it then. Clients never have to leave, and failures are finite.
* *Admission*: preparation, the end of a backoff, listeners and server weakly; a session ends only
  when it is aborted.
* *Metering*: sampler, exporter, restart and the clock weakly.
* *Topology*: refresh, module and loop weakly; the module retires when the loop has ended.
* *Election*: each member's reactions weakly, and an abandoned lease expires.
* *Authority*: threads weakly, and a lock that is free is taken.
* *Config*: reader, module, file tick and the answers of etcd weakly.

## 4. Proofs

Every theorem is about its module's specification (`Spec`; `HistorySpec` and `AuthoritySpec` where two modules
share a proof module) with its constants as parameters, and rests on the named `ASSUME`s of the
module it extends and on nothing else: those say that limits are natural numbers, capacities positive,
sets of places finite and instances well formed, and TLC evaluates them on every run. An invariant is
proved through an inductive one, `IInv` (for the session runtime a second one, `AgreeInv`, rests on it),
checked with TLC before it was proved; each action of `Next` has a lemma of
its own. The table names the theorems; what follows says why the properties are not inductive as they
stand and what the invariant adds.

| Module | Theorems |
|---|---|
| `SessionFsmProofs` | `TypeCorrect`, `RedirectResults` (`RedirectAnsweredOnce`), `SoleOwner` (`OwnerWhileLive`), `QuietMigration` (`MigrationIsQuiet`), `CloseWins` (`DrainWins`) |
| `SessionRuntimeProofs` | `Types`, `SealHolds` (`SealedAdmitsNothing`), `ProbesFindIdleSessions` (`ProbeSparesCommands`), `Consistency` (`SessionConsistent`), `QuietSwaps` (`SwapIsQuiet`) |
| `RouteLedgerProofs` | `TypeCorrect`, `Accounting` (`CountsMatchSessions`), `Retention` (`ChargedIsRetained`), `PendingIsInFlight` (`PendingNeverStuck`), `Consistency` (`LedgerConsistent`), `KeyspacesHold` (`KeyspaceKept`) |
| `AdmissionProofs` | `Admitted` (`AdmissionConsistent`), `MemoryGuarded` (`MemoryIsGuarded`) |
| `TopologyHealthProofs` | `ExactOverlay` (`OverlayConsistent`), `QualifiedGauges` (`GaugesAreQualified`), `RoutingOnlyAdvances` (`RoutingAdvances`) |
| the same, of `HealthHistory` | `Retained` (`HistoryConsistent`), `PingsAdvance` (`PingNeverGoesBack`) |
| `ElectionProofs` | `Consistency` (`ElectionConsistent`), `Succession` (`WritesFollowSuccession`), `FreshWork` (`NoStalePublication`) |
| the same, of `Authority` | `Authorised` (`EffectsAreAuthorised`), `Ownership` (`OwnershipConsistent`) |
| `ConfigStoreProofs` | `Consistency` (`ConfigConsistent`), `DefaultsCreateOnly` (`DefaultsDoNotOverwrite`) |
| `RouteWorkerProofs` | `Consistency` (`RouterConsistent`) |

**SessionFsmProofs** needs no assumption. The invariant is about the
machine alone plus two equations: `owners` and `owed` are what the flags `backend_owner` and
`redirect_pending` say; the owner flag is up exactly in the live states and the redirect flag
only there; a machine in `RedirectPending` has its redirect flag up and is at a boundary; and
`draining` is up only in the states a graceful close can pass through. The last is what
`RedirectAnsweredOnce`, `MigrationIsQuiet` and `DrainWins` lack on their own: a command that finishes
picks the close before the redirect because of that flag. Each handler has a lemma which says that an
outcome keeps the machine's part and that the flags change by exactly the effects it emits
(`Accounts`); a step then only adds the effects up. A second group of lemmas, for the runtime, says which
effects one event may emit from which state and in which order (`Pairs`, `WellOrdered`).

**SessionRuntimeProofs** instantiates `SessionFsmProofs` for the machine in the shared core and cites
its handler lemmas. The invariant has the shapes of channels and records (a capacity bounds its
channel, the loop is in `effects` exactly while it has some to send, a prepared redirect has a target)
and `ProbeInv`: while the loop waits for a probe the machine is between commands. It holds because the
two writers of the machine exclude each other: a commit of the fast path needs the loop at its select
and the core open (`OutsideTheLoop`), and what the loop applies once the core is sealed is not a
command, which alone leads to `Command` (`CommandsOnly`).

`SessionConsistent` and `SwapIsQuiet` need to know what is under way between the four tasks. The second
invariant, `AgreeInv`, says it for any positive capacities, any numbers of commands and redirects and
any way to end. It speaks of views of the state: the event in the slot (`Queue`) and the one the engine
is about to put there (`Word`), the effects the engine waits for (`Awaited`), and the effects on the wire
(`Afloat`), which are those in the command channel together with those the loop has still to send, so
that sending one changes nothing. Its parts:

* *Order* (`WireOrder`, `PrepareOrder`): effects reach the engine in the order in which the machine emits
  them, and the target of a redirect before whatever the redirect causes. Within one event that is a
  fact about the machine; across events the machine's state excludes the other order.
* *One request at a time* (`TaskInv`, `GrantInv`, `StateInv`, `PhaseInv`, `QueueInv`, `AnswerInv`): where
  the engine is in a request, or the event with which it tells the end of one, determines the phase of
  the machine; an effect of a phase is on the wire only for an engine that awaits it. Hence no event is
  rejected and no effect is unexpected (`NoFaults`).
* *Quiet swaps* (`QuietInv`): an open transaction or a running request at the server is known to the
  machine, or the event that tells it is under way; while `SwapBackend` is on the wire neither can begin:
  the grant of a command comes behind it, and the fast path needs an empty wire. `MigrationInv` gives the migration its
  stages: started, under way, its outcome told, its swap on the wire.
* *One redirect* (`TokenInv`, `EarlyInv`, `TargetInv`, `LedgerInv`, `EndInv`): the redirect the owner
  waits for is in one hand (with the owner, as a control, in the machine, as a notice, with the engine,
  as a report) and never in two, and the engine has no other target; the backend in use is the account of
  the ledger, or the target once the answer "succeeded" is on its way. A redirect offered during the handshake
  (`bounds.early`) may be in no hand at all, see section 5: `EarlyInv` and the property exempt it.

A step of a task is reduced to what it does to the views, and one of a few lemmas about the views (the
`...Step` lemmas) shows that the parts survive it. The case that needs most care is an event the machine
takes while another task is anywhere in its own work.

**RouteLedgerProofs** is for any number of sessions, accounts, reservations, redirects and closes.
`TypeOK` says that the counters stay natural numbers: every `-= 1` of the code finds a counter that is
at least one. None of types, accounting and retention is inductive alone; the invariant is their
conjunction with `Exact`:
a session's reservation and pending redirect were minted for that session, the redirect leaves
the account that owns it, a session number not handed out yet is absent, an account's number is
below the next one, and a sequence number names one handle. Types need `Accounting` (a decrement
finds one to take), `Retention` needs it too (`Prune` removes an account whose counters are zero,
so no session is charged to it), and `Accounting` needs `Exact` (a handle whose sequence matches
is the pending one, so what settling it gives back is what admitting it took). Each action
replaces the stage of one session; `CountsFollowStage` turns that, through the cardinality of the
session sets, into what each counter must change by (`ChargesMove`), and one lemma per action
shows that the code's increments and decrements are exactly that. A second invariant, `JInv`, rests on
the first: arrival lists hold the owned sessions once, a redirect that is in flight is unsettled, one not
minted is too, redirects keep the keyspace, and the gauge of a label set is at most its flying
redirects.

**AdmissionProofs** is for any listeners, places, policies and reloads. `GaugesAreExact` needs to know
who has a place in hand between two locks (`PlacesHeld`), `RegistryIsExact` that ids in use were handed
out (`IdsAscend`), the drain the order of the two phases (`StopsInOrder`), and the memory bound that the
baseline of the reading in use is the reservation at the moment it was made (`ReadingTracked`): without it
the growth since the reading is unrelated to what was admitted since.

**TopologyHealthProofs** is for any backends, concurrency and limits. Three tasks change the three planes
a consumer looks at; the invariant says how each may lag. Loop and overlay know only generations the
feed has numbered, so a number the feed gives out is new to them, and a number they share with the feed
names the same generation (`Known`); while the loop holds the feed's lock, what it publishes is what
the feed holds (`Locked`); the feed serves another epoch than discovery only once routing is fenced
(`Epochs`); in a round every backend of its generation is still to be probed, in flight or probed
(`RoundInv`).

For **HealthHistory**: the highest sequence an address ever showed is what its series shows or, when it has
none, is covered by its watermark or the common floor (`WatermarksCover`); without it a returning
address could show an older dial.

**ElectionProofs** is for any members, leases and failed requests. A session that has looked for predecessors
never meets an older key again because keys only get younger; a session about to watch still has its
key or has not observed its end (`Sound`, per session and point of control); nothing is newer than the
store and no key older than the last writer (`Store`); a permit is not ahead of its authority, and a
current one has seen no lapse (`PermitsFollow`).

For **Authority**, for any runtimes, effects, releasers, configurations and epochs: a valid permit says that
what it stands for is current (`ValidIsCurrent`); a running effect holds the lock of every permit it
rests on and found each valid (`LocksAreHeld`), so none can be revoked before it ends; past its first step a
release has revoked its lease (`ReleasesRevoke`).

**ConfigStoreProofs** is for any sections, namespaces, values, queue and budgets. The view a consumer
sees is the composition of the base and the overlay the store keeps (`Fit`). Every operation of the store
numbers a new incarnation with a generation that nobody has seen (`Succeeds`), which is what keeps the
permits of a namespace exactly those of its current incarnation. That the overlay is etcd's when nothing
is on its way (`OverlayFollows`) is not inductive: an own write is applied ahead of the watch, so the
invariant adds that the reader is then behind etcd until a candidate including the write is queued
(`WriteIsAhead`), and that the last candidate queued is where the reader is (`InStep`).

**RouteWorkerProofs** is for any backends, sessions, FIFO capacity and bounds. `PendingIsOwned` counts the
envelopes with the token the ledger waits for; the invariant says instead that the envelopes of a session, in
its FIFO, in the two places of its owner and on their way out, have tokens of their own (`DistinctIn`) and that
what the ledger waits for is one of them (`Awaited`). A fresh token exists because there are fewer envelopes
than tokens (`TokenIsNew`, by counting). Between the send and the admission of a command the
router lock is held, the ledger has not changed, and the session may already have taken or dropped the
command (`SentIsCarried`). `OwnersAreKnown` needs the accounts the worker is about to charge as well
(`ChargedKnown`): a refresh prunes a backend only when nothing is charged to it, and keeps the number of
the ones it retains (`RefreshKeeps`).

Only model-checked:

* everything that needs fairness: `SessionProgresses`, `EvacuationCompletes`, `LoadSettles`,
  `ShutdownReleasesAll`, `LogDrains`, `HealthSettles`, `SomebodyLeads`, `NobodyWaitsForever`,
  `ViewCatchesUp`, and the violation of `stuck_begin`: the prover has no rules for fairness;
* `BilledOnce` and `MeteringConsistent`: sums of bytes over sets of records need induction over data.

## 5. Disagreements

`stuck_begin` is a run: the router may redirect a session from its TCP dial on. In the handshake the
machine rejects the control while the engine keeps the target. A BEGIN later sent inside a transaction
is then held, committed internally, and never resumed: the client waits for ever. (The redirect
itself also stays with the owner until the session ends.) The instances of `session` that state
progress offer redirects only to authenticated sessions.

The following were met while modelling; the properties of the runs are stated so that they hold beside
them, and each is the reason for a condition in a property or an instance.

* *Lost namespace* (`control-config/src/source.rs:718`). A namespace PUT at revision r waits in the
  queue while an own write commits at r+1 and is applied at once. The candidate is then ignored as
  older, and the one at r+1 has no namespace key and preserves the old set: the PUT is lost until the
  next namespace event or listing. `OnlineConverges` is therefore about the online sections.
* *Acknowledged value rolled back* (`source.rs:1280`). An own write of the value the view already
  shows is acknowledged without raising the accepted revision, and an older queued candidate is then
  applied, until the watch delivers the write.
* *Lost rotation* (`control-config/src/module.rs:655`). The fingerprint of the certificate files is
  renewed also when a candidate published nothing and its material was dropped; rotated files are then
  never served.
* *Missing defaults* (`module.rs:434`). The list of missing keys is taken even when there is no session
  yet, so a first listing that arrives before the campaign is won creates nothing.
* *Pending gauge* (`control-router/src/ledger.rs:489`). A migration whose label set the full history
  refuses is never counted, but the set may become known while it is in flight; the gauge is then too
  small. `PendingNeverStuck` is the other direction.
* *Probe stall* (`dataplane/src/session.rs:626`). The loop waits for a probe's answer without a
  deadline. The probe is admitted between commands; if the client then begins a packet and stops, the
  engine, which reads it to its end, does not answer, and the loop takes neither a force close nor a drain
  nor the shutdown. The owner arms its force deadline but uses it only once the loop has
  returned, so the comment that "a client stalling mid-frame is bounded by the owner's force deadline, like any
  other mid-command stall" (`session_engine.rs:2688`) does not hold where probes are on, as they are by
  default. TLC finds the behaviour for `SessionProgresses` without its condition `ProbeReturns`: a probe, the
  first half of a command, a force close, and nothing more. With the condition the property says what does
  hold: a session told to end does if it is not probed, whatever its peers do, and if it is probed, with
  peers that answer.
* *Export under a taken minute* (`control-meter/src/runtime.rs:181`). The last window of a process is
  stored under the next minute; a process started within that minute is refused its own object for
  ever. `LogDrains` is stated up to the last process.
* *Stale dial* (`control-topology/src/health_history.rs:170`). With two observers of one address, a
  dial sequenced before a retirement and written after it recreates the series. `PingNeverGoesBack`
  still holds: what it shows is newer than anything shown before.

## 6. Not modelled

*Bytes*: MySQL packets, authentication, TLS, compression, the contents of requests, HTTP, etcd and
gRPC encodings. Durations are abstracted: a deadline may fire whenever it is armed.

*Session engine*: the frontend handshake before the dial, COM_CHANGE_USER, prepared statements and
LOCAL INFILE (in the machine only), streamed requests, commands without a response and the deferred
writes they cause, the directives of the legacy bridge. `SourceExhausted` of the loop cannot happen: the
engine's sender outlives the loop.

*Router*: several groups in one router, the matching of clients to groups, labels, the metric factors
(health, memory, CPU, location), the session limit, lifecycle phases other than ready, errors of the
observer. A configured `connection.migrations_per_second` of 200 or more moves a tick's whole budget on
one decision; the high rate of the model applies to the Status factor only. Two consequences of the
code that the properties respect: a worst source in another keyspace than the best target blocks the
other sources of its group (`EvacuationCompletes` and `LoadSettles` exempt it), and the metric sums and
observations of the ledger are left out.

*Admission*: socket options, address resolution, parsing of /proc, saturation of the byte gauge; an id
is allocated and registered in one step. *Metering*: the bridge sampler, the disabled mode, cloud
providers and object encoding. *Topology*: registration children, producers of static namespaces, the
metric collector and its sources, the two stages and retries of a probe, merging of clusters; the
retirement sinks of other gauge families. *Election*: connections and their retries; the owner of a
session and its scope are one. *Authority*: supervision of module tasks and the event log; the gates of
routing and health are the permit of the mode's epoch. *Config*: parsing and validation (a document or
candidate is good or malformed, and one that needs a restart is malformed), diagnostic revisions; whether a
transport rebuild succeeds, leaves the transport alone or fails is a choice.

The remaining components (control bridge, administration, wire formats, composition, tools, the Go
implementation) are listed with their reasons in `PROJECT.json`: they are transport, rendering and
wiring whose state the modules above already contain.

## 7. Plan

1. *Prepared statements, no-response commands and LOCAL INFILE in the engine*: the ordering of their
   events before the completion of a command.
2. *`SessionService`*: an abstract specification of what a session promises to client and router, with
   `SessionFsm`, then `SessionRuntime`, shown to implement it.
3. Several groups in `RouteWorker`, and the metric factors as operators against a reference.
