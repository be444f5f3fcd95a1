--------------------------- MODULE SessionRuntime ---------------------------
(***************************************************************************)
(* One session of the data plane: the three tasks that run it and the      *)
(* router that commands it.                                                *)
(*                                                                         *)
(*   loop     owns the state machine on the slow path: takes one action of *)
(*            a biased select, applies it and sends the effects on         *)
(*            (dataplane session.rs);                                      *)
(*   engine   owns both sockets: reads commands, forwards them, answers,   *)
(*            runs the effects, holds a BEGIN and migrates the backend     *)
(*            (dataplane session_engine.rs, Engine);                       *)
(*   owner    turns the router's commands into controls and reports their  *)
(*            outcome (session_engine.rs, run_bound_session_observed);     *)
(*   relay    seals the shared core on a server shutdown.                  *)
(*                                                                         *)
(* They share the core of gate.rs (the machine, the flag open, the count   *)
(* of messages in flight) and four bounded channels.  A step is one access *)
(* to one of them.  The state machine itself is SessionFsm.                *)
(*                                                                         *)
(* The session starts once the client has sent its handshake response.     *)
(* What is left out: prepared statements, LOCAL INFILE, COM_CHANGE_USER,   *)
(* commands without a response, and payloads.                              *)
(***************************************************************************)
EXTENDS Integers, Sequences

CONSTANTS
    CmdCapacity,      \* ENGINE_CMD_CAPACITY
    ControlCapacity,  \* capacity of the control channel
    ReportCapacity,   \* ENGINE_REPORT_CAPACITY
    Instances         \* the bounds a behaviour may run under

Bounds == [
    commands : Nat,       \* commands the client sends
    redirects : Nat,      \* redirects the router offers
    endings : SUBSET {"drain", "close", "shutdown"},  \* what may be ordered
    fast : BOOLEAN,       \* fast_path_enabled
    probing : BOOLEAN,    \* backend_check_interval is not zero
    early : BOOLEAN,      \* the router may redirect a session in handshake
    prompt : BOOLEAN,     \* a client that begins a packet ends it, a backend
                          \* that gets a request answers it
    live : BOOLEAN]       \* the tasks are scheduled fairly

ASSUME CapacityAssumption ==
    {CmdCapacity, ControlCapacity, ReportCapacity} \subseteq Nat \ {0}
ASSUME InstancesAssumption == Instances # {} /\ Instances \subseteq Bounds

VARIABLES
    fsm,       \* core: the session state machine
    open,      \* core: FALSE once sealed
    shutdown,  \* the server-wide shutdown signal
    events,    \* engine to loop, one slot
    cmds,      \* loop and owner to engine
    control,   \* owner to loop
    reports,   \* engine to owner
    loop,      \* the session loop
    engine,    \* the engine
    owner,     \* the owner
    route,     \* the session's entry in the router's ledger
    inbox,     \* the router's command FIFO of the session
    server,    \* the backend connection in use: its transaction, its request
    sent,      \* commands the client has sent
    faults,    \* arms the code calls invariants or protocol errors
    bounds     \* the bounds of this behaviour

vars == <<fsm, open, shutdown, events, cmds, control, reports, loop, engine,
          owner, route, inbox, server, sent, faults, bounds>>

Machine == INSTANCE SessionFsm WITH effects <- <<>>, owners <- 0, owed <- 0

\* Backends are numbered by the redirect that leads to them; the first one is
\* the one the session dialled, and 0 is none.
None == 0
FirstBackend == 1
Redirects == 2 .. bounds.redirects + 1

Effect(x) == [cmd |-> "effect", arg |-> x, to |-> None]
Prepare(r) == [cmd |-> "prepare", arg |-> "", to |-> r]
Probe == [cmd |-> "probe", arg |-> "", to |-> None]

\* What an engine that is not waiting for input still has to do, in order:
\* send an event (and give up if nobody listens), tell one (and go on), await
\* an effect, establish a migration candidate, report a redirect's result.
Send(e) == [op |-> "send", arg |-> e]
Tell(e) == [op |-> "tell", arg |-> e]
Await(x) == [op |-> "await", arg |-> x]
Migrate == [op |-> "migrate", arg |-> ""]
Report(x) == [op |-> "report", arg |-> x]

-----------------------------------------------------------------------------
(* gate.rs *)

OwnerHoldsPermit == owner.pc \in {"prepare", "control"}

\* (mutant) The permit of a probe is dropped before its answer comes.
OthersQuietChannels ==
    /\ events = <<>> /\ cmds = <<>> /\ control = <<>>
    /\ loop.pc \in {"select", "probe"} /\ loop.parked = ""
    /\ ~OwnerHoldsPermit

\* pending without the engine's own permits: a permit is held for every
\* message from its send until it has been dealt with.
OthersQuiet ==
    /\ events = <<>> /\ cmds = <<>> /\ control = <<>>
    /\ loop.pc = "select" /\ loop.parked = ""
    /\ ~OwnerHoldsPermit

\* (mutant) A fast path that asks neither the seal nor the shutdown signal.
CanCommitInlineSealed(e, effect) ==
    /\ bounds.fast
    /\ OthersQuiet
    /\ \E o \in Machine!OnEvent(fsm, e) : o.effects = <<effect>>

\* The transition e by the engine itself, under the core's lock and only if it
\* has the one expected effect: try_commit_steady, try_inline_commit_excluding.
CanCommitInline(e, effect) ==
    /\ bounds.fast
    /\ open /\ ~shutdown
    /\ OthersQuiet
    /\ \E o \in Machine!OnEvent(fsm, e) : o.effects = <<effect>>
CommitInline(e) == \E o \in Machine!OnEvent(fsm, e) : fsm' = o.fsm

\* try_quiescent_operation: nothing in flight, the engine between commands.
Quiescent ==
    /\ OthersQuiet
    /\ engine.pc \in {"idle", "reading"} /\ engine.todo = <<>>
    /\ open

-----------------------------------------------------------------------------
(* The session loop *)

AuthenticatedPhase(state) == state \in Machine!LiveStates

\* (mutant) A drain that never arms its timer.
RearmedNever(deadline, o) ==
    IF deadline = "handshake" /\ AuthenticatedPhase(o.fsm.state) THEN "none" ELSE deadline

\* The armed deadline after a transition: BeginDrainTimer arms the drain, the
\* first authenticated state disarms the handshake.
Rearmed(deadline, o) ==
    IF Machine!Emits(o.effects, "BeginDrainTimer") THEN "drain"
    ELSE IF deadline = "handshake" /\ AuthenticatedPhase(o.fsm.state) THEN "none"
    ELSE deadline

\* apply: one transition, then its effects; l is the loop that took e.
Apply(e, l) ==
    LET outcomes == Machine!OnEvent(fsm, e) IN
    \/ /\ outcomes = {}
       /\ loop' = [l EXCEPT !.pc = "select"]
       /\ UNCHANGED fsm
    \/ \E o \in outcomes :
       /\ fsm' = o.fsm
       /\ loop' = [l EXCEPT !.pc = IF o.effects = <<>> THEN "select" ELSE "effects",
                            !.out = o.effects,
                            !.deadline = Rearmed(@, o)]

Unparks == loop.parked # "" /\ fsm.state = "Ready"

\* The loop is at its select, the core open.
Selecting ==
    /\ loop.pc = "select" /\ open
    /\ fsm.state \notin {"Closing", "Closed"}
    /\ ~Unparks

LoopControl ==
    /\ Selecting
    /\ control # <<>>
    /\ control' = Tail(control)
    /\ Apply(Head(control), loop)
    /\ UNCHANGED <<open, shutdown, events, cmds, reports, engine, owner, route,
                   inbox, server, sent, faults, bounds>>

LoopDeadline ==
    /\ Selecting
    /\ control = <<>>
    /\ loop.deadline # "none"
    /\ Apply(IF loop.deadline = "drain" THEN "DrainTimerExpired"
             ELSE "HandshakeTimerExpired", [loop EXCEPT !.deadline = "none"])
    /\ UNCHANGED <<open, shutdown, events, cmds, control, reports, engine, owner,
                   route, inbox, server, sent, faults, bounds>>

\* The probe is sent and its reply awaited, with an operation permit held.
LoopProbe ==
    /\ bounds.probing
    /\ Selecting
    /\ fsm.state \in {"Ready", "Draining"}
    /\ Quiescent
    /\ cmds' = <<Probe>>
    /\ loop' = [loop EXCEPT !.pc = "probe", !.reply = "none"]
    /\ UNCHANGED <<fsm, open, shutdown, events, control, reports, engine, owner,
                   route, inbox, server, sent, faults, bounds>>

LoopProbed ==
    /\ loop.pc = "probe"
    /\ loop.reply # "none"
    /\ IF loop.reply = "dead"
       THEN Apply("BackendIoError", loop)
       ELSE loop' = [loop EXCEPT !.pc = "select"] /\ UNCHANGED fsm
    /\ UNCHANGED <<open, shutdown, events, cmds, control, reports, engine, owner,
                   route, inbox, server, sent, faults, bounds>>

\* (mutant) A loop that hands every command to the machine at once.
ParksNever(e) == FALSE

Parks(e) ==
    /\ fsm.state = "RedirectPending"
    /\ e \in {"ClientCommand", "ClientCommandQuit"}
    /\ loop.parked = ""

LoopEvent ==
    /\ Selecting
    /\ control = <<>>
    /\ events # <<>>
    /\ LET e == Head(events) IN
       /\ events' = Tail(events)
       /\ IF Parks(e)
          THEN loop' = [loop EXCEPT !.parked = e] /\ UNCHANGED <<fsm, faults>>
          ELSE /\ Apply(e, loop)
               /\ faults' = faults \union
                      (IF Machine!OnEvent(fsm, e) = {} THEN {"event rejected"} ELSE {})
    /\ UNCHANGED <<open, shutdown, cmds, control, reports, engine, owner, route,
                   inbox, server, sent, bounds>>

\* A parked command goes first once the redirect's effects are all sent.
LoopUnpark ==
    /\ loop.pc = "select" /\ open
    /\ Unparks
    /\ Apply(loop.parked, [loop EXCEPT !.parked = ""])
    /\ UNCHANGED <<open, shutdown, events, cmds, control, reports, engine, owner,
                   route, inbox, server, sent, faults, bounds>>

\* EffectHandler::execute
LoopEffect ==
    /\ loop.pc = "effects"
    /\ Len(cmds) < CmdCapacity
    /\ cmds' = cmds \o <<Effect(Head(loop.out))>>
    /\ loop' = [loop EXCEPT !.out = Tail(@),
                            !.pc = IF Len(loop.out) = 1 THEN "select" ELSE "effects"]
    /\ UNCHANGED <<fsm, open, shutdown, events, control, reports, engine, owner,
                   route, inbox, server, sent, faults, bounds>>

\* The shutdown fence: the action taken is dropped, the events receiver too,
\* and the machine is closed from outside (close_via_fsm).
LoopShutdown ==
    /\ loop.pc = "select" /\ ~open
    /\ fsm.state \notin {"Closing", "Closed"}
    /\ events' = <<>>
    /\ Apply("ControlCloseImmediate",
             [loop EXCEPT !.terminal = TRUE, !.parked = "", !.deadline = "none"])
    /\ UNCHANGED <<open, shutdown, cmds, control, reports, engine, owner, route,
                   inbox, server, sent, faults, bounds>>

\* The teardown effects are sent: TeardownComplete, the seal and the end.
LoopTeardown ==
    /\ loop.pc = "select"
    /\ fsm.state = "Closing"
    /\ \E o \in Machine!OnEvent(fsm, "TeardownComplete") : fsm' = o.fsm
    /\ open' = FALSE
    /\ events' = <<>> /\ control' = <<>>
    /\ loop' = [loop EXCEPT !.pc = "ended", !.terminal = TRUE, !.parked = "",
                            !.deadline = "none"]
    /\ UNCHANGED <<shutdown, cmds, reports, engine, owner, route, inbox, server,
                   sent, faults, bounds>>

\* shutdown_relay: the seal is what the loop and the engine obey.
RelaySeals ==
    /\ shutdown /\ open
    /\ open' = FALSE
    /\ UNCHANGED <<fsm, shutdown, events, cmds, control, reports, loop, engine,
                   owner, route, inbox, server, sent, faults, bounds>>

-----------------------------------------------------------------------------
(* The engine: channels and effects *)

Draining == "drain"

\* The engine has nothing to do before it takes its next input.
At(pc) == engine.pc = pc /\ engine.todo = <<>>

\* The lifecycle is over: what is left is to tell the loop why, and to drain
\* the commands that still come.
GivesUp(e) == [engine EXCEPT !.pc = Draining, !.todo = <<Tell(e)>>]
Closes == [engine EXCEPT !.pc = Draining, !.todo = <<>>]

Done == [engine EXCEPT !.todo = Tail(@)]
Push(op) == [engine EXCEPT !.todo = <<op>> \o @]

EngineUnchanged == UNCHANGED <<engine, server, faults>>

\* An event goes to the loop, or nobody listens any more.
EngineSends ==
    /\ engine.todo # <<>>
    /\ LET step == Head(engine.todo) IN
       /\ step.op \in {"send", "tell"}
       /\ \/ /\ ~loop.terminal
             /\ events = <<>>
             /\ events' = <<step.arg>>
             /\ engine' = Done
          \/ /\ loop.terminal
             /\ engine' = IF step.op = "send" THEN Closes ELSE Done
             /\ UNCHANGED events
    /\ UNCHANGED <<fsm, open, shutdown, cmds, control, reports, loop, owner, route,
                   inbox, server, sent, faults, bounds>>

EngineReports ==
    /\ engine.todo # <<>>
    /\ Head(engine.todo).op = "report"
    /\ Len(reports) < ReportCapacity
    /\ reports' = reports \o <<Head(engine.todo).arg>>
    /\ engine' = Done
    /\ UNCHANGED <<fsm, open, shutdown, events, cmds, control, loop, owner, route,
                   inbox, server, sent, faults, bounds>>

\* handle_redirect_snapshot: read the session's state from the backend, then
\* dial, authenticate and restore the target, within the redirect's budget.
EngineMigrates ==
    /\ engine.todo # <<>>
    /\ Head(engine.todo) = Migrate
    /\ \/ /\ engine.target # None
          /\ engine' = [engine EXCEPT !.candidate = engine.target,
                                      !.todo = <<Tell("RedirectBackendReady")>> \o Tail(@)]
       \/ engine' = [engine EXCEPT !.todo = <<Tell("RedirectBackendFailed")>> \o Tail(@)]
       \/ engine' = [engine EXCEPT !.todo = <<Tell("BackendIoError")>> \o Tail(@)]
    /\ UNCHANGED <<fsm, open, shutdown, events, cmds, control, reports, loop, owner,
                   route, inbox, server, sent, faults, bounds>>

TeardownClass ==
    {"ReleaseBackend", "CloseBackend", "CloseClient", "ClassifySessionEnd"}

\* swap_backend: the candidate becomes the session's backend.
SwapBackend ==
    IF engine.candidate = None
    THEN engine' = Closes /\ faults' = faults \union {"no candidate"} /\ UNCHANGED server
    ELSE /\ engine' = [engine EXCEPT !.backend = engine.candidate,
                                     !.candidate = None, !.target = None]
         /\ server' = [txn |-> FALSE, busy |-> FALSE]
         /\ UNCHANGED faults

\* ResumeHeldRequest: the held BEGIN is taken for its one replay, which enters
\* the state machine again as a command.
ResumeHeld ==
    IF engine.pc = "held"
    THEN [engine EXCEPT !.pc = "forward", !.request = "replay",
                        !.todo = <<Send("ClientCommand"), Await("ForwardCommandToBackend")>>]
    ELSE engine

\* handle_effect.  An effect of a command phase that nobody awaits is the
\* code's invariant violation, except while the engine drains.
HandleEffect(x) ==
    \/ /\ x = "SwapBackend"
       /\ SwapBackend
    \/ /\ x # "SwapBackend"
       /\ UNCHANGED server
       /\ \/ x = "BeginDrainTimer" /\ UNCHANGED <<engine, faults>>
          \/ x = "StartRedirectHandshake" /\ engine' = Push(Migrate) /\ UNCHANGED faults
          \/ x = "NotifyRedirectSucceeded" /\ engine' = Push(Report("succeeded"))
                                           /\ UNCHANGED faults
          \/ /\ x = "NotifyRedirectFailed"
             /\ engine' = [Push(Report("failed")) EXCEPT !.candidate = None, !.target = None]
             /\ UNCHANGED faults
          \/ x = "ResumeHeldRequest" /\ engine' = ResumeHeld /\ UNCHANGED faults
          \/ x \in TeardownClass /\ engine' = Closes /\ UNCHANGED faults
          \/ /\ x \in {"ForwardHandshakeToBackend", "ForwardAuthResultToClient",
                       "AttachBackend", "ForwardCommandToBackend",
                       "ForwardResponseToClient"}
             /\ engine' = Closes
             /\ faults' = faults \union
                    (IF engine.pc = Draining THEN {} ELSE {"stray effect"})

\* handle_cmd
HandleCmd(c) ==
    \/ /\ c.cmd = "probe"
       /\ \E reply \in {"alive", "dead"} : loop' = [loop EXCEPT !.reply = reply]
       /\ EngineUnchanged
    \/ /\ c.cmd = "prepare"
       /\ engine' = IF engine.target = None /\ engine.candidate = None
                    THEN [engine EXCEPT !.target = c.to] ELSE engine
       /\ UNCHANGED <<loop, server, faults>>
    \/ /\ c.cmd = "effect"
       /\ HandleEffect(c.arg)
       /\ UNCHANGED loop

\* The engine reads its command channel: awaiting an effect, between commands,
\* while a BEGIN is held, while it drains, and between the packets of a
\* response that has begun (drain_control_pending).
Receives ==
    \/ engine.todo # <<>> /\ Head(engine.todo).op = "await"
    \/ At("idle") \/ At("held") \/ At(Draining)
    \/ At("respond") /\ engine.begun

EngineReceives ==
    /\ cmds # <<>>
    /\ Receives
    /\ cmds' = Tail(cmds)
    /\ LET c == Head(cmds)
           awaited == engine.todo # <<>> /\ c = Effect(Head(engine.todo).arg)
       IN  \/ awaited /\ engine' = Done /\ UNCHANGED <<loop, server, faults>>
           \/ ~awaited /\ HandleCmd(c)
    /\ UNCHANGED <<fsm, open, shutdown, events, control, reports, owner, route,
                   inbox, sent, bounds>>

\* Everybody who could send a command is gone: the lease is released.
ReleaseLease ==
    /\ route' = [route EXCEPT !.stage = "closed", !.pending = None]
    /\ inbox' = <<>>

EngineExits ==
    /\ At(Draining)
    /\ cmds = <<>>
    /\ owner.pc = "join"
    /\ engine' = [engine EXCEPT !.pc = "done"]
    /\ ReleaseLease
    /\ UNCHANGED <<fsm, open, shutdown, events, cmds, control, reports, loop, owner,
                   server, sent, faults, bounds>>

-----------------------------------------------------------------------------
(* The engine: the connection phase *)

CoreUnchanged == UNCHANGED <<open, shutdown, events, cmds, control, reports, loop,
                             owner, route, inbox, faults, bounds>>

\* The first backend answers the dial, and the ledger is told: from here on the
\* session may be redirected.  Its greeting, or TLS with it, may still fail.
EngineConnects ==
    /\ At("dial")
    /\ \/ engine' = GivesUp("BackendIoError") /\ UNCHANGED route
       \/ /\ route' = [route EXCEPT !.stage = "active", !.account = FirstBackend]
          /\ \/ engine' = [engine EXCEPT !.pc = "auth", !.backend = FirstBackend,
                                !.todo = <<Send("BackendGreetingReceived"),
                                           Await("ForwardHandshakeToBackend")>>]
             \/ engine' = [GivesUp("BackendIoError") EXCEPT !.backend = FirstBackend]
    /\ UNCHANGED <<fsm, open, shutdown, events, cmds, control, reports, loop, owner,
                   inbox, server, sent, faults, bounds>>

EngineAuthenticates ==
    /\ At("auth")
    /\ \/ engine' = [engine EXCEPT !.pc = "idle",
                         !.todo = <<Send("BackendAuthOk"), Await("AttachBackend"),
                                    Await("ForwardAuthResultToClient")>>]
       \/ engine' = GivesUp("BackendAuthFailed")
       \/ engine' = GivesUp("ClientEof")
    /\ CoreUnchanged
    /\ UNCHANGED <<fsm, server, sent>>

-----------------------------------------------------------------------------
(* The engine: the command phase *)

\* The header of a command is visible: the read of its body is not raced with
\* anything.
ClientBegins ==
    /\ At("idle")
    /\ sent < bounds.commands
    /\ sent' = sent + 1
    /\ engine' = [engine EXCEPT !.pc = "reading"]
    /\ CoreUnchanged
    /\ UNCHANGED <<fsm, server>>

ClientEnds(request) ==
    /\ At("reading")
    /\ \/ /\ request = "quit"
          /\ engine' = [engine EXCEPT !.pc = Draining, !.todo = <<Send("ClientCommandQuit")>>]
          /\ UNCHANGED fsm
       \/ /\ request # "quit"
          /\ fsm.state = "Ready" /\ CanCommitInline("ClientCommand", "ForwardCommandToBackend")
          /\ CommitInline("ClientCommand")
          /\ engine' = [engine EXCEPT !.pc = "forward", !.request = request]
       \/ /\ request # "quit"
          /\ ~(fsm.state = "Ready"
               /\ CanCommitInline("ClientCommand", "ForwardCommandToBackend"))
          /\ engine' = [engine EXCEPT !.pc = "forward", !.request = request,
                            !.todo = <<Send("ClientCommand"),
                                       Await("ForwardCommandToBackend")>>]
          /\ UNCHANGED fsm
    /\ CoreUnchanged
    /\ UNCHANGED <<server, sent>>

ClientLeaves ==
    /\ At("idle") \/ At("reading")
    /\ engine' = GivesUp("ClientEof")
    /\ CoreUnchanged
    /\ UNCHANGED <<fsm, server, sent>>

\* need_hold_request, of a redirect that is armed; a replay is not held again.
Holds ==
    /\ engine.target # None
    /\ engine.request = "begin"
    /\ engine.in_txn

EngineForwards ==
    /\ At("forward")
    /\ \/ /\ Holds
          /\ engine' = [engine EXCEPT !.pc = "commit"]
       \/ /\ ~Holds
          /\ engine' = [engine EXCEPT !.pc = "respond", !.begun = FALSE]
    /\ server' = [server EXCEPT !.busy = TRUE]
    /\ CoreUnchanged
    /\ UNCHANGED <<fsm, sent>>

\* run_internal_commit: the backend's OK, its error, or its end.  The OK is
\* not forwarded, the error answers the held BEGIN.
BackendCommits ==
    /\ At("commit")
    /\ \/ \E txn \in BOOLEAN :
             /\ server' = [txn |-> txn, busy |-> FALSE]
             /\ engine' = [engine EXCEPT !.pc = "held", !.in_txn = txn,
                    !.todo = <<Send(IF txn THEN "InternalResponseTxnOpen"
                                    ELSE "InternalResponseTxnDone")>>]
       \/ \E txn \in {FALSE, server.txn} :
             /\ server' = [txn |-> txn, busy |-> FALSE]
             /\ engine' = [engine EXCEPT !.pc = "idle",
                                         !.todo = <<Send("InternalResponseError")>>]
       \/ engine' = GivesUp("BackendIoError") /\ UNCHANGED server
    /\ CoreUnchanged
    /\ UNCHANGED <<fsm, sent>>

\* A packet of the response has gone to the client; e is what it says.  The
\* transition is committed inline or takes the round trip through the loop.
Responds(e, next) ==
    \/ /\ CanCommitInline(e, "ForwardResponseToClient")
       /\ CommitInline(e)
       /\ engine' = next
    \/ /\ ~CanCommitInline(e, "ForwardResponseToClient")
       /\ engine' = [next EXCEPT !.todo = <<Send(e), Await("ForwardResponseToClient")>>]
       /\ UNCHANGED fsm

Answered == [engine EXCEPT !.pc = "idle", !.request = ""]

\* The first packet of a longer response; the later ones bypass the machine.
BackendBegins ==
    /\ At("respond") /\ ~engine.begun
    /\ Responds("BackendResponsePart", [engine EXCEPT !.begun = TRUE])
    /\ CoreUnchanged
    /\ UNCHANGED <<server, sent>>

\* The end of a response: with a status, or an ERR, which has none and may have
\* rolled the transaction back.
BackendAnswers ==
    /\ At("respond")
    /\ \/ \E txn \in IF engine.request = "query" THEN BOOLEAN ELSE {TRUE} :
             /\ server' = [txn |-> txn, busy |-> FALSE]
             /\ Responds(IF txn THEN "BackendResponseTxnOpen" ELSE "BackendResponseTxnDone",
                         [Answered EXCEPT !.in_txn = txn])
       \/ \E txn \in {FALSE, server.txn} :
             /\ server' = [txn |-> txn, busy |-> FALSE]
             /\ Responds("BackendResponseErrorComplete", Answered)
    /\ CoreUnchanged
    /\ UNCHANGED sent

BackendBreaks ==
    /\ At("respond")
    /\ engine' = GivesUp("BackendIoError")
    /\ CoreUnchanged
    /\ UNCHANGED <<fsm, server, sent>>

-----------------------------------------------------------------------------
(* The owner *)

OwnerUnchanged == UNCHANGED <<fsm, open, shutdown, events, loop, engine, server,
                              sent, faults, bounds>>

\* finish_redirect on the ledger: only the pending redirect is settled.
Settled(r, success) ==
    IF route.stage = "active" /\ route.pending = r
    THEN [route EXCEPT !.pending = None, !.account = IF success THEN r ELSE @]
    ELSE route

\* consume_report
OwnerReads ==
    /\ owner.pc = "select"
    /\ reports # <<>>
    /\ reports' = Tail(reports)
    /\ LET report == Head(reports) IN
       \/ /\ report = "commands"
          /\ owner' = [owner EXCEPT !.commands = TRUE]
          /\ UNCHANGED route
       \/ /\ report # "commands"
          /\ owner' = [owner EXCEPT !.redirect = None]
          /\ route' = IF owner.redirect = None THEN route
                      ELSE Settled(owner.redirect, report = "succeeded")
    /\ UNCHANGED <<cmds, control, inbox>>
    /\ OwnerUnchanged

\* A redirect is refused (a close came first, one is pending, its time is up) or
\* becomes the pair of a prepared target and a control.
OwnerTakesRedirect ==
    /\ owner.pc = "select" /\ owner.commands
    /\ inbox # <<>> /\ Head(inbox) # None
    /\ inbox' = Tail(inbox)
    /\ \/ /\ route' = Settled(Head(inbox), FALSE)
          /\ UNCHANGED owner
       \/ /\ ~owner.closing /\ owner.redirect = None
          /\ owner' = [owner EXCEPT !.pc = "prepare", !.redirect = Head(inbox)]
          /\ UNCHANGED route
    /\ UNCHANGED <<cmds, control, reports>>
    /\ OwnerUnchanged

OwnerPrepares ==
    /\ owner.pc = "prepare"
    /\ Len(cmds) < CmdCapacity
    /\ cmds' = cmds \o <<Prepare(owner.redirect)>>
    /\ owner' = [owner EXCEPT !.pc = "control"]
    /\ UNCHANGED <<control, reports, route, inbox>>
    /\ OwnerUnchanged

\* A control message, if the loop still listens.
SendControl(m) ==
    \/ /\ loop.pc # "ended"
       /\ Len(control) < ControlCapacity
       /\ control' = control \o <<m>>
    \/ loop.pc = "ended" /\ UNCHANGED control

OwnerRedirects ==
    /\ owner.pc = "control"
    /\ SendControl("ControlRedirect")
    /\ IF loop.pc = "ended"
       THEN /\ owner' = [owner EXCEPT !.pc = "select", !.redirect = None]
            /\ route' = Settled(owner.redirect, FALSE)
       ELSE owner' = [owner EXCEPT !.pc = "select"] /\ UNCHANGED route
    /\ UNCHANGED <<cmds, reports, inbox>>
    /\ OwnerUnchanged

\* A force close settles the redirect it interrupts.
OwnerTakesClose ==
    /\ owner.pc = "select" /\ owner.commands
    /\ inbox # <<>> /\ Head(inbox) = None
    /\ inbox' = Tail(inbox)
    /\ owner' = [owner EXCEPT !.closing = TRUE, !.redirect = None]
    /\ route' = IF owner.redirect = None THEN route ELSE Settled(owner.redirect, FALSE)
    /\ SendControl("ControlCloseImmediate")
    /\ UNCHANGED <<cmds, reports>>
    /\ OwnerUnchanged

\* The server stops accepting: every session is to close at a boundary.
OwnerDrains ==
    /\ "drain" \in bounds.endings
    /\ owner.pc = "select"
    /\ ~owner.drained
    /\ owner' = [owner EXCEPT !.drained = TRUE]
    /\ SendControl("ControlGracefulClose")
    /\ UNCHANGED <<cmds, reports, route, inbox>>
    /\ OwnerUnchanged

\* The loop has ended: what is still pending is settled, the command sender is
\* dropped, and the engine is given the time to drain.
OwnerJoins ==
    /\ owner.pc = "select"
    /\ loop.pc = "ended"
    /\ owner' = [owner EXCEPT !.pc = "join", !.redirect = None]
    /\ LET settled == IF owner.redirect = None THEN route ELSE Settled(owner.redirect, FALSE)
       IN  route' = IF owner.closing
                    THEN [settled EXCEPT !.stage = "closed", !.pending = None]
                    ELSE settled
    /\ UNCHANGED <<cmds, control, reports, inbox>>
    /\ OwnerUnchanged

\* (mutant) The join is bounded for a force close only.
OwnerAbortsForced ==
    /\ owner.pc = "join" /\ engine.pc # "done" /\ owner.closing
    /\ engine' = [engine EXCEPT !.pc = "done", !.todo = <<>>]
    /\ cmds' = <<>>
    /\ ReleaseLease
    /\ UNCHANGED <<fsm, open, shutdown, events, control, reports, loop, owner, server,
                   sent, faults, bounds>>

\* The absolute deadline of the join: the engine is aborted where it is.
OwnerAborts ==
    /\ owner.pc = "join" /\ engine.pc # "done"
    /\ engine' = [engine EXCEPT !.pc = "done", !.todo = <<>>]
    /\ cmds' = <<>>
    /\ ReleaseLease
    /\ UNCHANGED <<fsm, open, shutdown, events, control, reports, loop, owner, server,
                   sent, faults, bounds>>

OwnerFinishes ==
    /\ owner.pc = "join" /\ engine.pc = "done"
    /\ owner' = [owner EXCEPT !.pc = "done"]
    /\ reports' = <<>>
    /\ UNCHANGED <<cmds, control, route, inbox>>
    /\ OwnerUnchanged

-----------------------------------------------------------------------------
(* The router and the server *)

EnvironmentUnchanged ==
    UNCHANGED <<fsm, open, events, cmds, control, reports, loop, engine, owner,
                server, sent, faults, bounds>>

\* A redirect is offered to an active session that has none and is not closing.
RouterRedirects ==
    /\ route.stage = "active"
    /\ route.pending = None /\ ~route.closing
    /\ route.offered < bounds.redirects
    /\ bounds.early \/ fsm.flags.authenticated
    /\ LET r == route.offered + 2 IN
       /\ route' = [route EXCEPT !.pending = r, !.offered = @ + 1]
       /\ inbox' = inbox \o <<r>>
    /\ UNCHANGED shutdown
    /\ EnvironmentUnchanged

\* A force close is told apart from a redirect by naming no target.
RouterCloses ==
    /\ "close" \in bounds.endings
    /\ route.stage = "active"
    /\ ~route.closing
    /\ route' = [route EXCEPT !.closing = TRUE]
    /\ inbox' = inbox \o <<None>>
    /\ UNCHANGED shutdown
    /\ EnvironmentUnchanged

ServerShutsDown ==
    /\ "shutdown" \in bounds.endings
    /\ ~shutdown
    /\ shutdown' = TRUE
    /\ UNCHANGED <<route, inbox>>
    /\ EnvironmentUnchanged

-----------------------------------------------------------------------------
(* The specification *)

Init ==
    /\ fsm = [Machine!NewFsm EXCEPT !.state = "FrontendHandshake"]
    /\ open = TRUE /\ shutdown = FALSE
    /\ events = <<>> /\ cmds = <<>> /\ control = <<>>
    /\ reports = <<"commands">>
    /\ loop = [pc |-> "select", out |-> <<>>, parked |-> "", deadline |-> "handshake",
               reply |-> "none", terminal |-> FALSE]
    /\ engine = [pc |-> "dial", todo |-> <<>>, in_txn |-> FALSE, target |-> None,
                 candidate |-> None, backend |-> None, request |-> "", begun |-> FALSE]
    /\ owner = [pc |-> "select", commands |-> FALSE, redirect |-> None,
                closing |-> FALSE, drained |-> FALSE]
    /\ route = [stage |-> "dialing", account |-> None, pending |-> None,
                closing |-> FALSE, offered |-> 0]
    /\ inbox = <<>>
    /\ server = [txn |-> FALSE, busy |-> FALSE]
    /\ sent = 0
    /\ faults = {}
    /\ bounds \in Instances

LoopStep ==
    \/ LoopControl \/ LoopEvent \/ LoopUnpark \/ LoopEffect \/ LoopProbed
    \/ LoopShutdown \/ LoopTeardown

EngineStep ==
    \/ EngineSends \/ EngineReports \/ EngineReceives \/ EngineForwards \/ EngineExits

OwnerStep ==
    \/ OwnerReads \/ OwnerTakesRedirect \/ OwnerPrepares \/ OwnerRedirects
    \/ OwnerTakesClose \/ OwnerJoins \/ OwnerFinishes

ClientStep == \E request \in {"query", "begin", "quit"} : ClientEnds(request)

BackendStep == EngineMigrates \/ BackendCommits \/ BackendAnswers

Terminated == owner.pc = "done" /\ UNCHANGED vars

Next ==
    \/ LoopStep \/ LoopDeadline \/ LoopProbe \/ RelaySeals
    \/ EngineStep \/ EngineConnects \/ EngineAuthenticates
    \/ ClientBegins \/ ClientStep \/ ClientLeaves
    \/ BackendStep \/ BackendBegins \/ BackendBreaks
    \/ OwnerStep \/ OwnerDrains \/ OwnerAborts
    \/ RouterRedirects \/ RouterCloses \/ ServerShutsDown
    \/ Terminated

\* The tasks run and timers fire.  An expired deadline is chosen before any
\* event at the next select, hence the strong fairness.  Nothing is assumed of
\* the client and the backend unless the bounds say that they are prompt.
Fairness ==
    /\ WF_vars(bounds.live /\ LoopStep) /\ SF_vars(bounds.live /\ LoopDeadline)
    /\ WF_vars(bounds.live /\ RelaySeals) /\ WF_vars(bounds.live /\ EngineStep)
    /\ WF_vars(bounds.live /\ OwnerStep) /\ WF_vars(bounds.live /\ OwnerAborts)
    /\ WF_vars(bounds.prompt /\ ClientStep)
    /\ WF_vars(bounds.prompt /\ BackendStep)

Spec == Init /\ [][Next]_vars /\ Fairness

-----------------------------------------------------------------------------
(* Properties *)

Ops ==
    [op : {"send", "tell"}, arg : Machine!Events]
    \union [op : {"await"}, arg : Machine!SessionEffects]
    \union {Migrate, Report("succeeded"), Report("failed")}

\* Every variable stays in its domain and every channel within its capacity.
TypeOK ==
    /\ fsm \in Machine!Machines
    /\ open \in BOOLEAN /\ shutdown \in BOOLEAN
    /\ events \in Seq(Machine!Events) /\ Len(events) <= 1
    /\ cmds \in Seq({Effect(x) : x \in Machine!SessionEffects}
                    \union {Prepare(r) : r \in Redirects} \union {Probe})
    /\ Len(cmds) <= CmdCapacity
    /\ control \in Seq({"ControlRedirect", "ControlCloseImmediate", "ControlGracefulClose"})
    /\ Len(control) <= ControlCapacity
    /\ reports \in Seq({"commands", "succeeded", "failed"})
    /\ Len(reports) <= ReportCapacity
    /\ loop \in [pc : {"select", "effects", "probe", "ended"},
                 out : Seq(Machine!SessionEffects),
                 parked : {"", "ClientCommand", "ClientCommandQuit"},
                 deadline : {"none", "handshake", "drain"},
                 reply : {"none", "alive", "dead"}, terminal : BOOLEAN]
    /\ engine \in [pc : {"dial", "auth", "idle", "reading", "forward", "commit", "held",
                         "respond", Draining, "done"},
                   todo : Seq(Ops), in_txn : BOOLEAN,
                   target : Redirects \union {None}, candidate : Redirects \union {None},
                   backend : Redirects \union {None, FirstBackend},
                   request : {"", "query", "begin", "replay"}, begun : BOOLEAN]
    /\ owner \in [pc : {"select", "prepare", "control", "join", "done"},
                  commands : BOOLEAN, redirect : Redirects \union {None},
                  closing : BOOLEAN, drained : BOOLEAN]
    /\ route \in [stage : {"dialing", "active", "closed"},
                  account : Redirects \union {None, FirstBackend},
                  pending : Redirects \union {None}, closing : BOOLEAN,
                  offered : 0 .. bounds.redirects]
    /\ inbox \in Seq(Redirects \union {None})
    /\ server \in [txn : BOOLEAN, busy : BOOLEAN]
    /\ sent \in 0 .. bounds.commands

\* Whatever the two writers of the machine and the control commands do in
\* between, the arms the code calls invariant violations are not reached: no
\* event of the engine is rejected (its acknowledgement would be lost forever),
\* no effect reaches an engine that does not await it, and no swap is ordered
\* without a candidate (event_loop, handle_effect, swap_backend).
NoFaults == faults = {}

\* The backend is exchanged only between requests, and only when the old one
\* has no transaction open: what the machine knows by events that are behind
\* is never more permissive than the connection itself (at_migration_boundary,
\* swap_backend, the internal COMMIT).
SwapIsQuiet ==
    [][engine.backend # None /\ engine'.backend # engine.backend =>
            ~server.txn /\ ~server.busy]_vars

\* While no redirect is pending and no close has been ordered, the account the
\* ledger charges is the backend the session talks to (consume_report,
\* finish_redirect).
LedgerAgrees ==
    /\ route.stage = "active" /\ route.pending = None
    /\ owner.pc = "select" /\ ~owner.closing
    /\ engine.pc # "done"
    => engine.backend = route.account

\* Once the core is sealed no command is admitted any more, neither by the loop
\* nor by the engine's fast path, nor one that was parked before the seal.
SealedAdmitsNothing ==
    [][~open /\ fsm.state # "Command" => fsm'.state # "Command"]_vars

\* The answer of a probe finds the session as idle as the probe was sent: a
\* backend found dead never tears down a command that the engine's fast path
\* admitted while the loop waited (BackendProbe in event_loop, probe_safe).
ProbeSparesCommands ==
    [][loop.pc = "probe" /\ loop'.pc # "probe" => fsm.state \in {"Ready", "Draining"}]_vars

\* A redirect the ledger waits for is in somebody's hands: it is in the FIFO or
\* with the owner, and with the owner of a live session it is under way, as a
\* control, in the machine, or as a result on its way back.
RedirectInProgress ==
    /\ route.stage = "active" /\ route.pending # None =>
          \/ owner.redirect = route.pending
          \/ \E i \in DOMAIN inbox : inbox[i] = route.pending
    /\ owner.redirect # None /\ owner.pc = "select" /\ loop.pc # "ended" =>
          \/ \E i \in DOMAIN control : control[i] = "ControlRedirect"
          \/ fsm.flags.redirect_pending
          \/ \E x \in {"NotifyRedirectSucceeded", "NotifyRedirectFailed"} :
                \/ Machine!Emits(loop.out, x)
                \/ Machine!Emits(cmds, Effect(x))
          \/ \E x \in {"succeeded", "failed"} :
                Machine!Emits(engine.todo, Report(x)) \/ Machine!Emits(reports, x)

InRequest == engine.pc \in {"forward", "commit", "held", "respond"}

\* The parts of the session agree at every instant: NoFaults, LedgerAgrees and
\* RedirectInProgress hold, in states of the right type.  A redirect offered
\* before the session is authenticated is the exception to the last: the loop
\* drops its control message (event_loop), and nobody answers it.
SessionConsistent ==
    /\ TypeOK /\ NoFaults /\ LedgerAgrees
    /\ ~bounds.early => RedirectInProgress

\* A command that was read is answered, or the session ends: no order of
\* redirects, closes, probes and parked or held requests leaves the client
\* waiting for good when its backend does answer (command_phase,
\* hold_pending_begin).
CommandsAnswered == <>[](bounds.prompt => ~InRequest)

\* A session told to end: by a force close, a graceful close or the shutdown.
ToldToEnd == route.closing \/ owner.drained \/ shutdown

\* Once the loop has asked for a probe it waits for the answer without a
\* deadline, and an engine that is in the middle of a client's packet does not
\* answer (BackendProbe in event_loop, command_phase): only a client that ends
\* what it begins bounds that wait.
ProbeReturns == ~bounds.probing \/ bounds.prompt

\* The session makes progress.  What CommandsAnswered says, with and without
\* probes.  And a session told to end does, where probes return: without probes
\* even if client and backend have stopped talking, a force close by the
\* owner's force_deadline, a graceful close at a boundary or by the drain
\* deadline, a shutdown wherever the session is, in the handshake or in a
\* request nobody answers; with probes, which are on by default, if client and
\* backend answer (shutdown_relay, close_via_fsm, run_bound_session_observed).
SessionProgresses ==
    <>[](/\ bounds.prompt => ~InRequest
         /\ bounds.live /\ ProbeReturns /\ ToldToEnd => owner.pc = "done")
=============================================================================
