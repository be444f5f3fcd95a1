------------------------ MODULE SessionRuntimeProofs ------------------------
(***************************************************************************)
(* Proofs about SessionRuntime.  What one event does to the machine is     *)
(* taken from SessionFsmProofs.  The machine has two writers, the loop and *)
(* the engine's fast path; the first induction, IInv, carries what each    *)
(* may do while the other one is in the middle of something.               *)
(*                                                                         *)
(* The second one, AgreeInv, follows what is under way between the tasks:  *)
(* the event on its way to the machine, the effects on their way to the    *)
(* engine and in which order, and the one redirect, from the router's FIFO *)
(* through the owner, the machine and the engine back to the ledger.  Its  *)
(* parts speak of views of the state (Queue, Word, Awaited, Afloat, ...);  *)
(* a step of a task is reduced to what it does to the views, and a lemma   *)
(* about the views (the ...Step lemmas) concludes.                         *)
(***************************************************************************)
EXTENDS SessionRuntime, TLAPS

Fsm == INSTANCE SessionFsmProofs WITH effects <- <<>>, owners <- 0, owed <- 0

Cmds == {Effect(x) : x \in Machine!SessionEffects}
        \union {Prepare(r) : r \in Redirects} \union {Probe}
Controls == {"ControlRedirect", "ControlCloseImmediate", "ControlGracefulClose"}
ReportSet == {"commands", "succeeded", "failed"}
Targets == Redirects \union {None}
Accounts == Redirects \union {None, FirstBackend}
EffectSeqs == Seq(Machine!SessionEffects)
OpSeqs == Seq(Ops)

Loops == [pc : {"select", "effects", "probe", "ended"}, out : EffectSeqs,
          parked : {"", "ClientCommand", "ClientCommandQuit"},
          deadline : {"none", "handshake", "drain"},
          reply : {"none", "alive", "dead"}, terminal : BOOLEAN]
EnginePcs == {"dial", "auth", "idle", "reading", "forward", "commit", "held",
              "respond", Draining, "done"}
Engines == [pc : EnginePcs, todo : OpSeqs, in_txn : BOOLEAN,
            target : Targets, candidate : Targets, backend : Accounts,
            request : {"", "query", "begin", "replay"}, begun : BOOLEAN]
Owners == [pc : {"select", "prepare", "control", "join", "done"},
           commands : BOOLEAN, redirect : Targets, closing : BOOLEAN,
           drained : BOOLEAN]
Offers == 0 .. bounds.redirects
Routes == [stage : {"dialing", "active", "closed"}, account : Accounts,
           pending : Targets, closing : BOOLEAN, offered : Offers]
Servers == [txn : BOOLEAN, busy : BOOLEAN]

\* A channel holds at most what its capacity allows.
Channel(c, S, n) == c \in Seq(S) /\ Len(c) <= n

Shapes ==
    /\ bounds \in Bounds
    /\ fsm \in Machine!Machines /\ Fsm!MachineInv(fsm)
    /\ open \in BOOLEAN /\ shutdown \in BOOLEAN
    /\ Channel(events, Machine!Events, 1)
    /\ Channel(cmds, Cmds, CmdCapacity)
    /\ Channel(control, Controls, ControlCapacity)
    /\ Channel(reports, ReportSet, ReportCapacity)
    /\ loop \in Loops /\ (loop.pc = "effects" <=> loop.out # <<>>)
    /\ engine \in Engines /\ owner \in Owners
    /\ owner.pc = "prepare" => owner.redirect # None
    /\ route \in Routes /\ inbox \in Seq(Targets) /\ server \in Servers
    /\ sent \in 0 .. bounds.commands

\* Nobody moves the machine while the loop waits for the answer of a probe.
ProbeInv == loop.pc = "probe" => fsm.state \in {"Ready", "Draining"}

IInv == Shapes /\ ProbeInv

-----------------------------------------------------------------------------
(* The machine *)

\* The machine of the runtime is the machine of SessionFsmProofs.
LEMMA SameMachine ==
    /\ Machine!Machines = Fsm!Machines /\ Machine!Events = Fsm!Events
    /\ Machine!SessionEffects = Fsm!SessionEffects
    /\ \A m, e : Machine!OnEvent(m, e) = Fsm!OnEvent(m, e)
<1>1. Machine!Machines = Fsm!Machines
  BY DEF Machine!Machines, Fsm!Machines, Machine!States, Fsm!States,
         Machine!Flags, Fsm!Flags
<1>2. Machine!Events = Fsm!Events
  BY DEF Machine!Events, Fsm!Events, Machine!HandshakeEvents, Fsm!HandshakeEvents,
         Machine!CommandEvents, Fsm!CommandEvents, Machine!KnowledgeEvents,
         Fsm!KnowledgeEvents, Machine!ClientGone, Fsm!ClientGone,
         Machine!BackendGone, Fsm!BackendGone
<1>3. Machine!SessionEffects = Fsm!SessionEffects
  BY DEF Machine!SessionEffects, Fsm!SessionEffects
<1>4. ASSUME NEW m, NEW e
      PROVE  Machine!OnEvent(m, e) = Fsm!OnEvent(m, e)
  BY DEF Machine!OnEvent, Fsm!OnEvent, Machine!When, Fsm!When, Machine!Go, Fsm!Go,
     Machine!TakesKnowledge, Fsm!TakesKnowledge, Machine!OnKnowledge, Fsm!OnKnowledge,
     Machine!OnAccept, Fsm!OnAccept, Machine!OnGreeting, Fsm!OnGreeting,
     Machine!OnSslRequest, Fsm!OnSslRequest,
     Machine!OnFrontendHandshake, Fsm!OnFrontendHandshake,
     Machine!OnBackendHandshake, Fsm!OnBackendHandshake, Machine!OnReady, Fsm!OnReady,
     Machine!OnCommand, Fsm!OnCommand, Machine!OnResponse, Fsm!OnResponse,
     Machine!OnLocalInfile, Fsm!OnLocalInfile,
     Machine!OnRedirectPending, Fsm!OnRedirectPending, Machine!OnDraining, Fsm!OnDraining,
     Machine!OnClosing, Fsm!OnClosing, Machine!OnBusy, Fsm!OnBusy,
     Machine!OnAnswer, Fsm!OnAnswer, Machine!Teardown, Fsm!Teardown,
     Machine!TeardownEffects, Fsm!TeardownEffects, Machine!FinishCommand, Fsm!FinishCommand,
     Machine!AtBoundary, Fsm!AtBoundary, Machine!WithStatus, Fsm!WithStatus,
     Machine!ResponseComplete, Fsm!ResponseComplete,
     Machine!InternalResponseComplete, Fsm!InternalResponseComplete,
     Machine!ErrorResponseComplete, Fsm!ErrorResponseComplete,
     Machine!InternalErrorComplete, Fsm!InternalErrorComplete,
     Machine!PartStatus, Fsm!PartStatus, Machine!QueueRedirect, Fsm!QueueRedirect,
     Machine!QueueDrain, Fsm!QueueDrain, Machine!DrainDeadline, Fsm!DrainDeadline,
     Machine!CloseDuringHandshake, Fsm!CloseDuringHandshake,
     Machine!CloseNow, Fsm!CloseNow, Machine!ToleratedInClosing, Fsm!ToleratedInClosing,
     Machine!ClientGone, Fsm!ClientGone, Machine!BackendGone, Fsm!BackendGone,
     Machine!CommandEvents, Fsm!CommandEvents, Machine!KnowledgeEvents, Fsm!KnowledgeEvents
<1> QED BY <1>1, <1>2, <1>3, <1>4

\* One event leaves the machine in its states, with effects the engine knows.
LEMMA OnEventShape ==
    ASSUME fsm \in Machine!Machines, Fsm!MachineInv(fsm), NEW e \in Machine!Events,
           NEW o \in Machine!OnEvent(fsm, e)
    PROVE  /\ o.fsm \in Machine!Machines /\ Fsm!MachineInv(o.fsm)
           /\ o.effects \in EffectSeqs
<1>1. Fsm!Sound(fsm.flags, e, o)
  BY SameMachine, Fsm!OnEventSound
<1> QED BY <1>1, SameMachine DEF Fsm!Sound, Fsm!EffectSeqs, EffectSeqs

-----------------------------------------------------------------------------
(* The shapes are inductive *)

LEMMA DomainsKept ==
    ASSUME bounds' = bounds
    PROVE  /\ Redirects' = Redirects /\ Cmds' = Cmds /\ Targets' = Targets
           /\ Accounts' = Accounts /\ Engines' = Engines /\ Owners' = Owners
           /\ Offers' = Offers /\ Routes' = Routes
<1>1. Redirects' = Redirects /\ Offers' = Offers
  BY DEF Redirects, Offers
<1>2. Cmds' = Cmds /\ Targets' = Targets /\ Accounts' = Accounts
  BY <1>1 DEF Cmds, Targets, Accounts
<1> QED BY <1>1, <1>2 DEF Engines, Owners, Routes

LEMMA Members ==
    ASSUME bounds \in Bounds
    PROVE  /\ bounds.redirects \in Nat /\ bounds.commands \in Nat
           /\ None \in Targets /\ None \in Accounts /\ FirstBackend \in Accounts
           /\ Redirects \subseteq Targets /\ Targets \subseteq Accounts
           /\ \A r \in Targets : r # None => r \in Redirects
           /\ None \notin Redirects
           /\ Probe \in Cmds /\ Probe.cmd = "probe"
           /\ \A x \in Machine!SessionEffects : Effect(x) \in Cmds /\ Effect(x).arg = x
           /\ \A r \in Redirects : Prepare(r) \in Cmds /\ Prepare(r).to = r
           /\ \A c \in Cmds : c.cmd = "effect" =>
                c.arg \in Machine!SessionEffects /\ c = Effect(c.arg)
           /\ \A c \in Cmds : c.cmd = "prepare" => c.to \in Redirects
<1>1. /\ bounds.redirects \in Nat /\ bounds.commands \in Nat
      /\ None \in Targets /\ None \in Accounts /\ FirstBackend \in Accounts
      /\ Redirects \subseteq Targets /\ Targets \subseteq Accounts
      /\ \A r \in Targets : r # None => r \in Redirects
      /\ None \notin Redirects
  BY DEF Bounds, Targets, Accounts, None, FirstBackend, Redirects
<1>2. Probe \in Cmds /\ Probe.cmd = "probe"
  BY DEF Cmds, Probe
<1>3. \A x \in Machine!SessionEffects : Effect(x) \in Cmds /\ Effect(x).arg = x
  BY DEF Cmds, Effect
<1>4. \A r \in Redirects : Prepare(r) \in Cmds /\ Prepare(r).to = r
  BY DEF Cmds, Prepare
<1>5. ASSUME NEW c \in Cmds
      PROVE  /\ c.cmd = "effect" => c.arg \in Machine!SessionEffects /\ c = Effect(c.arg)
             /\ c.cmd = "prepare" => c.to \in Redirects
  <2>1. CASE \E x \in Machine!SessionEffects : c = Effect(x)
    BY <2>1 DEF Effect
  <2>2. CASE \E r \in Redirects : c = Prepare(r)
    <3>1. PICK r \in Redirects : c = Prepare(r)
      BY <2>2
    <3>2. c.cmd = "prepare" /\ c.to = r
      BY <3>1 DEF Prepare
    <3> QED BY <3>2
  <2>3. CASE c = Probe
    BY <2>3 DEF Probe
  <2> QED BY <2>1, <2>2, <2>3 DEF Cmds
<1> QED BY <1>1, <1>2, <1>3, <1>4, <1>5

\* What an engine may still have to do.
LEMMA OpMembers ==
    /\ \A e \in Machine!Events : Send(e) \in Ops /\ Tell(e) \in Ops
    /\ \A x \in Machine!SessionEffects : Await(x) \in Ops
    /\ Migrate \in Ops /\ Report("succeeded") \in Ops /\ Report("failed") \in Ops
    /\ \A op \in Ops :
         /\ op.op \in {"send", "tell"} => op.arg \in Machine!Events
         /\ op.op = "report" => op.arg \in {"succeeded", "failed"}
<1>1. \A e \in Machine!Events : Send(e) \in Ops /\ Tell(e) \in Ops
  BY DEF Ops, Send, Tell
<1>2. \A x \in Machine!SessionEffects : Await(x) \in Ops
  BY DEF Ops, Await
<1>3. Migrate \in Ops /\ Report("succeeded") \in Ops /\ Report("failed") \in Ops
  BY DEF Ops
<1>4. ASSUME NEW op \in Ops
      PROVE  /\ op.op \in {"send", "tell"} => op.arg \in Machine!Events
             /\ op.op = "report" => op.arg \in {"succeeded", "failed"}
  <2>1. CASE op \in [op : {"send", "tell"}, arg : Machine!Events]
    BY <2>1
  <2>2. CASE op \in [op : {"await"}, arg : Machine!SessionEffects]
    BY <2>2
  <2>3. CASE op \in {Migrate, Report("succeeded"), Report("failed")}
    <3>1. Migrate.op = "migrate" /\ \A x : Report(x).op = "report" /\ Report(x).arg = x
      BY DEF Migrate, Report
    <3> QED BY <2>3, <3>1
  <2> QED BY <2>1, <2>2, <2>3 DEF Ops
<1> QED BY <1>1, <1>2, <1>3, <1>4

LEMMA SomeEvents ==
    /\ {"BackendGreetingReceived", "BackendAuthOk", "BackendAuthFailed", "ClientEof",
        "BackendIoError", "ClientCommand", "ClientCommandQuit", "RedirectBackendReady",
        "RedirectBackendFailed", "InternalResponseTxnOpen", "InternalResponseTxnDone",
        "InternalResponseError", "BackendResponsePart", "BackendResponseTxnOpen",
        "BackendResponseTxnDone", "BackendResponseErrorComplete", "DrainTimerExpired",
        "HandshakeTimerExpired", "TeardownComplete"} \subseteq Machine!Events
    /\ Controls \subseteq Machine!Events
    /\ {"ForwardHandshakeToBackend", "AttachBackend", "ForwardAuthResultToClient",
        "ForwardCommandToBackend", "ForwardResponseToClient"} \subseteq Machine!SessionEffects
BY DEF Controls, Machine!Events, Machine!HandshakeEvents, Machine!CommandEvents,
       Machine!ClientGone, Machine!BackendGone, Machine!SessionEffects

LEMMA ChannelTail ==
    ASSUME NEW S, NEW n \in Nat, NEW c, Channel(c, S, n), c # <<>>
    PROVE  Channel(Tail(c), S, n) /\ Head(c) \in S
BY DEF Channel

LEMMA ChannelAppend ==
    ASSUME NEW S, NEW n \in Nat, NEW c, Channel(c, S, n), Len(c) < n, NEW x \in S
    PROVE  Channel(c \o <<x>>, S, n)
BY DEF Channel

LEMMA ChannelEmpty ==
    ASSUME NEW S, NEW n \in Nat
    PROVE  Channel(<<>>, S, n)
BY DEF Channel

\* Short lists of what the engine has to do.
LEMMA OpLists ==
    ASSUME NEW a \in Ops, NEW b \in Ops, NEW c \in Ops, NEW t \in OpSeqs
    PROVE  /\ <<>> \in OpSeqs /\ <<a>> \in OpSeqs /\ <<a, b>> \in OpSeqs
           /\ <<a, b, c>> \in OpSeqs /\ <<a>> \o t \in OpSeqs
           /\ t # <<>> => Tail(t) \in OpSeqs /\ Head(t) \in Ops
           /\ t # <<>> => <<a>> \o Tail(t) \in OpSeqs
BY DEF OpSeqs

-----------------------------------------------------------------------------
(* The loop *)

\* What a transition applied by the loop may leave behind.
LEMMA ApplyShape ==
    ASSUME fsm \in Machine!Machines, Fsm!MachineInv(fsm), NEW e \in Machine!Events,
           NEW l \in Loops, l.out = <<>>, Apply(e, l)
    PROVE  /\ fsm' \in Machine!Machines /\ Fsm!MachineInv(fsm')
           /\ loop' \in Loops /\ loop'.pc \in {"select", "effects"}
           /\ loop'.pc = "effects" <=> loop'.out # <<>>
           /\ loop'.parked = l.parked /\ loop'.terminal = l.terminal
<1>1. CASE Machine!OnEvent(fsm, e) = {} /\ fsm' = fsm
           /\ loop' = [l EXCEPT !.pc = "select"]
  BY <1>1 DEF Loops
<1>2. ASSUME NEW o \in Machine!OnEvent(fsm, e), fsm' = o.fsm,
             loop' = [l EXCEPT !.pc = IF o.effects = <<>> THEN "select" ELSE "effects",
                               !.out = o.effects, !.deadline = Rearmed(@, o)]
      PROVE  /\ fsm' \in Machine!Machines /\ Fsm!MachineInv(fsm')
             /\ loop' \in Loops /\ loop'.pc \in {"select", "effects"}
             /\ loop'.pc = "effects" <=> loop'.out # <<>>
             /\ loop'.parked = l.parked /\ loop'.terminal = l.terminal
  <2> DEFINE pc == IF o.effects = <<>> THEN "select" ELSE "effects"
             out == o.effects
             deadline == Rearmed(l.deadline, o)
  <2>1. pc \in {"select", "effects"} /\ out \in EffectSeqs
        /\ (pc = "effects" <=> out # <<>>)
    BY OnEventShape
  <2>2. deadline \in {"none", "handshake", "drain"}
    BY DEF Loops, Rearmed
  <2>3. loop' = [l EXCEPT !.pc = pc, !.out = out, !.deadline = deadline]
    BY <1>2
  <2> HIDE DEF pc, out, deadline
  <2>4. loop' \in Loops /\ loop'.pc = pc /\ loop'.out = out /\ loop'.parked = l.parked
        /\ loop'.terminal = l.terminal
    BY <2>1, <2>2, <2>3 DEF Loops
  <2> QED BY <1>2, <2>1, <2>4, OnEventShape
<1> QED BY <1>1, <1>2 DEF Apply

LEMMA LoopControlShape == ASSUME Shapes, LoopControl PROVE Shapes'
<1> USE DEF Shapes
<1>1. Head(control) \in Controls /\ Channel(control', Controls, ControlCapacity)
      /\ loop.out = <<>>
  BY ChannelTail, CapacityAssumption DEF LoopControl, Selecting
<1>2. Head(control) \in Machine!Events
  BY <1>1, SomeEvents
<1>3. fsm' \in Machine!Machines /\ Fsm!MachineInv(fsm') /\ loop' \in Loops
      /\ (loop'.pc = "effects" <=> loop'.out # <<>>)
  BY <1>1, <1>2, ApplyShape DEF LoopControl
<1> QED BY <1>1, <1>3, DomainsKept DEF LoopControl

LEMMA LoopDeadlineShape == ASSUME Shapes, LoopDeadline PROVE Shapes'
<1> USE DEF Shapes
<1> DEFINE e == IF loop.deadline = "drain" THEN "DrainTimerExpired"
                ELSE "HandshakeTimerExpired"
           l == [loop EXCEPT !.deadline = "none"]
<1>1. e \in Machine!Events /\ l \in Loops /\ l.out = <<>>
  BY SomeEvents DEF Loops, LoopDeadline, Selecting
<1>2. Apply(e, l)
  BY DEF LoopDeadline
<1> HIDE DEF e, l
<1>3. fsm' \in Machine!Machines /\ Fsm!MachineInv(fsm') /\ loop' \in Loops
      /\ (loop'.pc = "effects" <=> loop'.out # <<>>)
  BY <1>1, <1>2, ApplyShape
<1> QED BY <1>3, DomainsKept DEF LoopDeadline

LEMMA LoopProbeShape == ASSUME Shapes, LoopProbe PROVE Shapes'
<1> USE DEF Shapes
<1>1. loop' \in Loops /\ (loop'.pc = "effects" <=> loop'.out # <<>>)
  BY DEF LoopProbe, Loops, Selecting
<1>2. Channel(cmds', Cmds, CmdCapacity)
  <2>1. Probe \in Cmds /\ CmdCapacity \in Nat \ {0}
    BY Members, CapacityAssumption
  <2> QED BY <2>1 DEF LoopProbe, Channel
<1> QED BY <1>1, <1>2, DomainsKept DEF LoopProbe

LEMMA LoopProbedShape == ASSUME Shapes, LoopProbed PROVE Shapes'
<1> USE DEF Shapes
<1>1. CASE loop.reply = "dead"
  <2>1. Apply("BackendIoError", loop)
    BY <1>1 DEF LoopProbed
  <2>2. fsm' \in Machine!Machines /\ Fsm!MachineInv(fsm') /\ loop' \in Loops
        /\ (loop'.pc = "effects" <=> loop'.out # <<>>)
    BY <2>1, ApplyShape, SomeEvents DEF LoopProbed
  <2> QED BY <2>2, DomainsKept DEF LoopProbed
<1>2. CASE loop.reply # "dead"
  <2>1. loop' \in Loops /\ fsm' = fsm /\ (loop'.pc = "effects" <=> loop'.out # <<>>)
    BY <1>2 DEF LoopProbed, Loops
  <2> QED BY <2>1, DomainsKept DEF LoopProbed
<1> QED BY <1>1, <1>2

LEMMA LoopEventShape == ASSUME Shapes, LoopEvent PROVE Shapes'
<1> USE DEF Shapes
<1> DEFINE e == Head(events)
<1>1. e \in Machine!Events /\ Channel(events', Machine!Events, 1)
  BY ChannelTail DEF LoopEvent
<1>2. CASE Parks(e)
  <2>1. loop' \in Loops /\ fsm' = fsm /\ (loop'.pc = "effects" <=> loop'.out # <<>>)
    BY <1>2 DEF LoopEvent, Loops, Parks
  <2> QED BY <1>1, <2>1, DomainsKept DEF LoopEvent
<1>3. CASE ~Parks(e)
  <2>1. Apply(e, loop) /\ loop.out = <<>>
    BY <1>3 DEF LoopEvent, Selecting
  <2> HIDE DEF e
  <2>2. fsm' \in Machine!Machines /\ Fsm!MachineInv(fsm') /\ loop' \in Loops
        /\ (loop'.pc = "effects" <=> loop'.out # <<>>)
    BY <1>1, <2>1, ApplyShape
  <2> QED BY <1>1, <2>2, DomainsKept DEF LoopEvent
<1> QED BY <1>2, <1>3

LEMMA LoopUnparkShape == ASSUME Shapes, LoopUnpark PROVE Shapes'
<1> USE DEF Shapes
<1> DEFINE l == [loop EXCEPT !.parked = ""]
<1>1. loop.parked \in Machine!Events /\ l \in Loops /\ l.out = <<>>
  BY SomeEvents DEF Loops, LoopUnpark, Unparks
<1>2. Apply(loop.parked, l)
  BY DEF LoopUnpark
<1> HIDE DEF l
<1>3. fsm' \in Machine!Machines /\ Fsm!MachineInv(fsm') /\ loop' \in Loops
      /\ (loop'.pc = "effects" <=> loop'.out # <<>>)
  BY <1>1, <1>2, ApplyShape
<1> QED BY <1>3, DomainsKept DEF LoopUnpark

LEMMA LoopEffectShape ==
    ASSUME Shapes, LoopEffect
    PROVE  Shapes'
<1> USE DEF Shapes
<1>0. loop.out \in EffectSeqs /\ loop.out # <<>>
  BY DEF Loops, LoopEffect
<1>1. /\ Head(loop.out) \in Machine!SessionEffects /\ Tail(loop.out) \in EffectSeqs
      /\ Len(loop.out) = 1 <=> Tail(loop.out) = <<>>
  <2>1. ASSUME NEW q \in Seq(Machine!SessionEffects), q # <<>>
        PROVE  /\ Head(q) \in Machine!SessionEffects
               /\ Tail(q) \in Seq(Machine!SessionEffects)
               /\ Len(q) = 1 <=> Tail(q) = <<>>
    <3>1. Head(q) \in Machine!SessionEffects /\ Tail(q) \in Seq(Machine!SessionEffects)
      BY <2>1
    <3>2. Len(q) \in Nat /\ Len(q) # 0 /\ Len(Tail(q)) = Len(q) - 1
      BY <2>1
    <3>3. ASSUME NEW r \in Seq(Machine!SessionEffects) PROVE r = <<>> <=> Len(r) = 0
      OBVIOUS
    <3> QED BY <3>1, <3>2, <3>3, SMTT(20)
  <2> QED BY <1>0, <2>1 DEF EffectSeqs
<1>2. Channel(cmds', Cmds, CmdCapacity)
  <2>1. Effect(Head(loop.out)) \in Cmds
    BY <1>1, Members
  <2> QED BY <2>1, ChannelAppend, CapacityAssumption DEF LoopEffect
<1>3. loop' \in Loops /\ (loop'.pc = "effects" <=> loop'.out # <<>>)
  <2> DEFINE pc == IF Len(loop.out) = 1 THEN "select" ELSE "effects"
             out == Tail(loop.out)
  <2>1. /\ loop' = [loop EXCEPT !.out = out, !.pc = pc] /\ pc \in {"select", "effects"}
        /\ (pc = "effects" <=> out # <<>>) /\ out \in EffectSeqs
    BY <1>1 DEF LoopEffect
  <2> HIDE DEF pc, out
  <2> QED BY <2>1 DEF Loops
<1> QED BY <1>2, <1>3, DomainsKept DEF LoopEffect

LEMMA LoopShutdownShape == ASSUME Shapes, LoopShutdown PROVE Shapes'
<1> USE DEF Shapes
<1> DEFINE l == [loop EXCEPT !.terminal = TRUE, !.parked = "", !.deadline = "none"]
<1>1. "ControlCloseImmediate" \in Machine!Events /\ l \in Loops /\ l.out = <<>>
  BY SomeEvents DEF Loops, Controls, LoopShutdown
<1>2. Apply("ControlCloseImmediate", l)
  BY DEF LoopShutdown
<1> HIDE DEF l
<1>3. fsm' \in Machine!Machines /\ Fsm!MachineInv(fsm') /\ loop' \in Loops
      /\ (loop'.pc = "effects" <=> loop'.out # <<>>)
  BY <1>1, <1>2, ApplyShape
<1> QED BY <1>3, ChannelEmpty, DomainsKept DEF LoopShutdown

LEMMA LoopTeardownShape == ASSUME Shapes, LoopTeardown PROVE Shapes'
<1> USE DEF Shapes
<1>1. loop' \in Loops /\ (loop'.pc = "effects" <=> loop'.out # <<>>)
  BY DEF LoopTeardown, Loops
<1>2. fsm' \in Machine!Machines /\ Fsm!MachineInv(fsm')
  BY SomeEvents, OnEventShape DEF LoopTeardown
<1> QED BY <1>1, <1>2, ChannelEmpty, CapacityAssumption, DomainsKept DEF LoopTeardown

LEMMA RelayShape ==
    ASSUME Shapes, RelaySeals \/ ServerShutsDown
    PROVE  Shapes'
BY DomainsKept DEF Shapes, RelaySeals, ServerShutsDown, EnvironmentUnchanged

-----------------------------------------------------------------------------
(* The engine *)

\* A request to the loop and the effects awaited for it.
LEMMA Requests ==
    ASSUME NEW e \in Machine!Events, NEW x \in Machine!SessionEffects,
           NEW y \in Machine!SessionEffects
    PROVE  /\ <<Send(e)>> \in OpSeqs /\ <<Send(e), Await(x)>> \in OpSeqs
           /\ <<Send(e), Await(x), Await(y)>> \in OpSeqs
<1> DEFINE a == Send(e) b == Await(x) c == Await(y)
<1>1. a \in Ops /\ b \in Ops /\ c \in Ops /\ <<>> \in OpSeqs
  BY OpMembers DEF OpSeqs
<1> HIDE DEF a, b, c
<1>2. <<a>> \in OpSeqs /\ <<a, b>> \in OpSeqs /\ <<a, b, c>> \in OpSeqs
  BY <1>1 DEF OpSeqs
<1> QED BY <1>2 DEF a, b, c

\* What the actions of the engine leave in place.
LEMMA EngineStepShape ==
    ASSUME Shapes, engine' \in Engines,
           UNCHANGED <<fsm, open, shutdown, control, owner, bounds>>,
           Channel(events', Machine!Events, 1), Channel(cmds', Cmds, CmdCapacity),
           Channel(reports', ReportSet, ReportCapacity),
           loop' \in Loops, loop'.pc = loop.pc, loop'.out = loop.out,
           route' \in Routes, inbox' \in Seq(Targets), server' \in Servers,
           sent' \in 0 .. bounds.commands
    PROVE  Shapes'
BY DomainsKept DEF Shapes

\* The engine gives up, or goes on with something else.
LEMMA EngineForms ==
    ASSUME engine \in Engines
    PROVE  /\ Closes \in Engines
           /\ \A e \in Machine!Events : GivesUp(e) \in Engines
           /\ engine.todo # <<>> => Done \in Engines
           /\ \A op \in Ops : Push(op) \in Engines
           /\ \A t \in OpSeqs : [engine EXCEPT !.todo = t] \in Engines
           /\ \A t \in OpSeqs, pc \in EnginePcs :
                [engine EXCEPT !.pc = pc, !.todo = t] \in Engines
<1>0. engine.todo \in OpSeqs
  BY DEF Engines
<1>1. \A t \in OpSeqs : [engine EXCEPT !.todo = t] \in Engines
  BY DEF Engines
<1>2. \A t \in OpSeqs, pc \in EnginePcs : [engine EXCEPT !.pc = pc, !.todo = t] \in Engines
  BY DEF Engines
<1>3. /\ <<>> \in OpSeqs
      /\ \A op \in Ops : <<op>> \in OpSeqs /\ <<op>> \o engine.todo \in OpSeqs
      /\ engine.todo # <<>> => Tail(engine.todo) \in OpSeqs
  BY <1>0, OpMembers, OpLists, ZenonT(40)
<1>4. Closes \in Engines
  BY <1>2, <1>3 DEF Closes, EnginePcs
<1>5. ASSUME NEW e \in Machine!Events PROVE GivesUp(e) \in Engines
  BY <1>2, <1>3, OpMembers DEF GivesUp, EnginePcs
<1>6. engine.todo # <<>> => Done \in Engines
  BY <1>1, <1>3 DEF Done
<1>7. ASSUME NEW op \in Ops PROVE Push(op) \in Engines
  BY <1>1, <1>3 DEF Push
<1> QED BY <1>1, <1>2, <1>4, <1>5, <1>6, <1>7

LEMMA EngineSendsShape == ASSUME Shapes, EngineSends PROVE Shapes'
<1> USE DEF Shapes
<1>0. engine.todo \in OpSeqs /\ engine.todo # <<>>
  BY DEF Engines, EngineSends
<1>1. Head(engine.todo) \in Ops
  BY <1>0, OpMembers, OpLists
<1>2. Head(engine.todo).arg \in Machine!Events
  BY <1>1, OpMembers DEF EngineSends
<1>3. engine' \in Engines
  BY <1>0, EngineForms DEF EngineSends
<1>4. Channel(events', Machine!Events, 1)
  <2>1. ASSUME NEW a \in Machine!Events PROVE Channel(<<a>>, Machine!Events, 1)
    BY DEF Channel
  <2>2. events' = events \/ events' = <<Head(engine.todo).arg>>
    BY DEF EngineSends
  <2> QED BY <1>2, <2>1, <2>2
<1> QED BY <1>3, <1>4, EngineStepShape DEF EngineSends

LEMMA EngineReportsShape == ASSUME Shapes, EngineReports PROVE Shapes'
<1> USE DEF Shapes
<1>0. engine.todo \in OpSeqs /\ engine.todo # <<>>
  BY DEF Engines, EngineReports
<1>1. Head(engine.todo) \in Ops
  BY <1>0, OpMembers, OpLists
<1>2. Head(engine.todo).arg \in ReportSet
  BY <1>1, OpMembers DEF EngineReports, ReportSet
<1>3. engine' \in Engines
  BY <1>0, EngineForms DEF EngineReports
<1>4. Channel(reports', ReportSet, ReportCapacity)
  BY <1>2, ChannelAppend, CapacityAssumption DEF EngineReports
<1> QED BY <1>3, <1>4, EngineStepShape DEF EngineReports

LEMMA EngineMigratesShape == ASSUME Shapes, EngineMigrates PROVE Shapes'
<1> USE DEF Shapes
<1>0. engine.todo \in OpSeqs /\ engine.todo # <<>>
  BY DEF Engines, EngineMigrates
<1>1. \A e \in {"RedirectBackendReady", "RedirectBackendFailed", "BackendIoError"} :
        <<Tell(e)>> \o Tail(engine.todo) \in OpSeqs
  BY <1>0, SomeEvents, OpMembers, OpLists
<1>2. engine' \in Engines
  <2>1. ASSUME NEW t \in OpSeqs PROVE [engine EXCEPT !.candidate = engine.target, !.todo = t] \in Engines
    BY DEF Engines
  <2> QED BY <1>1, <2>1, EngineForms DEF EngineMigrates
<1> QED BY <1>2, EngineStepShape DEF EngineMigrates

\* The effects change the engine and the connection within their sets.
LEMMA HandleEffectShape ==
    ASSUME Shapes, NEW x \in Machine!SessionEffects, HandleEffect(x)
    PROVE  engine' \in Engines /\ server' \in Servers
<1> USE DEF Shapes
<1>1. CASE x = "SwapBackend"
  <2>1. CASE engine.candidate = None
    BY <1>1, <2>1, EngineForms DEF HandleEffect, SwapBackend
  <2>2. CASE engine.candidate # None
    <3>1. engine' = [engine EXCEPT !.backend = engine.candidate, !.candidate = None,
                                   !.target = None]
      BY <1>1, <2>2 DEF HandleEffect, SwapBackend
    <3>2. engine.candidate \in Accounts /\ None \in Targets
      BY Members DEF Engines
    <3>3. engine' \in Engines
      BY <3>1, <3>2 DEF Engines
    <3>4. server' = [txn |-> FALSE, busy |-> FALSE]
      BY <1>1, <2>2 DEF HandleEffect, SwapBackend
    <3> QED BY <3>3, <3>4 DEF Servers
  <2> QED BY <2>1, <2>2
<1>2. CASE x # "SwapBackend"
  <2>1. server' \in Servers
    BY <1>2 DEF HandleEffect
  <2>2. Push(Migrate) \in Engines /\ Push(Report("succeeded")) \in Engines
        /\ Push(Report("failed")) \in Engines /\ Closes \in Engines
    BY EngineForms, OpMembers
  <2>3. [Push(Report("failed")) EXCEPT !.candidate = None, !.target = None] \in Engines
    <3>1. ASSUME NEW e \in Engines
          PROVE  [e EXCEPT !.candidate = None, !.target = None] \in Engines
      BY Members DEF Engines
    <3> QED BY <2>2, <3>1
  <2>4. ResumeHeld \in Engines
    <3> DEFINE t == <<Send("ClientCommand"), Await("ForwardCommandToBackend")>>
    <3>1. t \in OpSeqs
      BY Requests, SomeEvents
    <3> HIDE DEF t
    <3>2. [engine EXCEPT !.pc = "forward", !.request = "replay", !.todo = t] \in Engines
      BY <3>1 DEF Engines, EnginePcs
    <3> QED BY <3>2 DEF ResumeHeld, t
  <2> QED BY <1>2, <2>1, <2>2, <2>3, <2>4 DEF HandleEffect
<1> QED BY <1>1, <1>2

LEMMA EngineReceivesShape == ASSUME Shapes, EngineReceives PROVE Shapes'
<1> USE DEF Shapes
<1> DEFINE c == Head(cmds)
           awaited == engine.todo # <<>> /\ c = Effect(Head(engine.todo).arg)
<1>1. c \in Cmds /\ Channel(cmds', Cmds, CmdCapacity)
  BY ChannelTail, CapacityAssumption DEF EngineReceives
<1>2. /\ engine' \in Engines /\ server' \in Servers
      /\ loop' \in Loops /\ loop'.pc = loop.pc /\ loop'.out = loop.out
  <2>1. CASE awaited
    BY <2>1, EngineForms DEF EngineReceives
  <2>2. CASE ~awaited
    <3>0. HandleCmd(c)
      BY <2>2 DEF EngineReceives
    <3>1. CASE c.cmd = "probe"
      BY <3>0, <3>1 DEF HandleCmd, EngineUnchanged, Loops
    <3>2. CASE c.cmd = "prepare"
      <4>1. c.to \in Targets
        BY <1>1, <3>2, Members
      <4>2. [engine EXCEPT !.target = c.to] \in Engines
        BY <4>1 DEF Engines
      <4> QED BY <3>0, <3>2, <4>2 DEF HandleCmd
    <3>3. CASE c.cmd = "effect"
      <4>1. c.arg \in Machine!SessionEffects
        BY <1>1, <3>3, Members
      <4> QED BY <3>0, <3>3, <4>1, HandleEffectShape DEF HandleCmd
    <3> QED BY <3>0, <3>1, <3>2, <3>3 DEF HandleCmd
  <2> QED BY <2>1, <2>2
<1> QED BY <1>1, <1>2, EngineStepShape DEF EngineReceives

LEMMA ReleaseLeaseShape ==
    ASSUME Shapes, ReleaseLease
    PROVE  route' \in Routes /\ inbox' \in Seq(Targets)
<1>1. route \in Routes /\ None \in Targets /\ route' = [route EXCEPT !.stage = "closed", !.pending = None]
  BY Members DEF Shapes, ReleaseLease
<1>2. route' \in Routes
  BY <1>1 DEF Routes
<1> QED BY <1>2 DEF ReleaseLease

LEMMA EngineExitsShape == ASSUME Shapes, EngineExits PROVE Shapes'
<1>1. engine' \in Engines
  BY DEF Shapes, EngineExits, Engines, EnginePcs
<1> QED BY <1>1, ReleaseLeaseShape, EngineStepShape DEF Shapes, EngineExits

LEMMA EngineConnectsShape == ASSUME Shapes, EngineConnects PROVE Shapes'
<1> USE DEF Shapes
<1> DEFINE t == <<Send("BackendGreetingReceived"), Await("ForwardHandshakeToBackend")>>
<1>1. t \in OpSeqs /\ GivesUp("BackendIoError") \in Engines
  BY Requests, SomeEvents, EngineForms
<1>2. \/ engine' = [engine EXCEPT !.pc = "auth", !.backend = FirstBackend, !.todo = t]
      \/ engine' = GivesUp("BackendIoError")
      \/ engine' = [GivesUp("BackendIoError") EXCEPT !.backend = FirstBackend]
  BY DEF EngineConnects
<1> HIDE DEF t
<1>3. engine' \in Engines
  <2>1. [engine EXCEPT !.pc = "auth", !.backend = FirstBackend, !.todo = t] \in Engines
    BY <1>1, Members DEF Engines, EnginePcs
  <2>2. [GivesUp("BackendIoError") EXCEPT !.backend = FirstBackend] \in Engines
    BY <1>1, Members DEF Engines
  <2> QED BY <1>1, <1>2, <2>1, <2>2
<1>4. route' \in Routes
  BY Members DEF EngineConnects, Routes
<1> QED BY <1>3, <1>4, EngineStepShape DEF EngineConnects

LEMMA EngineAuthenticatesShape == ASSUME Shapes, EngineAuthenticates PROVE Shapes'
<1> USE DEF Shapes
<1> DEFINE t == <<Send("BackendAuthOk"), Await("AttachBackend"),
                  Await("ForwardAuthResultToClient")>>
<1>1. t \in OpSeqs /\ GivesUp("BackendAuthFailed") \in Engines /\ GivesUp("ClientEof") \in Engines
  BY Requests, SomeEvents, EngineForms
<1>2. engine' \in Engines
  BY <1>1, EngineForms DEF EngineAuthenticates, EnginePcs
<1> QED BY <1>2, EngineStepShape DEF EngineAuthenticates, CoreUnchanged

LEMMA ClientBeginsShape == ASSUME Shapes, ClientBegins PROVE Shapes'
<1> USE DEF Shapes
<1>1. engine' \in Engines
  BY DEF ClientBegins, Engines, EnginePcs
<1>2. sent' \in 0 .. bounds.commands
  BY Members DEF ClientBegins
<1> QED BY <1>1, <1>2, EngineStepShape DEF ClientBegins, CoreUnchanged

LEMMA ClientLeavesShape == ASSUME Shapes, ClientLeaves PROVE Shapes'
<1> USE DEF Shapes
<1>1. engine' \in Engines
  BY EngineForms, SomeEvents DEF ClientLeaves
<1> QED BY <1>1, EngineStepShape DEF ClientLeaves, CoreUnchanged

LEMMA BackendBreaksShape == ASSUME Shapes, BackendBreaks PROVE Shapes'
<1> USE DEF Shapes
<1>1. engine' \in Engines
  BY EngineForms, SomeEvents DEF BackendBreaks
<1> QED BY <1>1, EngineStepShape DEF BackendBreaks, CoreUnchanged

LEMMA EngineForwardsShape == ASSUME Shapes, EngineForwards PROVE Shapes'
<1> USE DEF Shapes
<1>1. engine' \in Engines
  BY DEF EngineForwards, Engines, EnginePcs
<1>2. server' \in Servers
  BY DEF EngineForwards, Servers
<1> QED BY <1>1, <1>2, EngineStepShape DEF EngineForwards, CoreUnchanged

\* What the two writers do to the machine when the engine is the writer.
LEMMA CommitInlineShape ==
    ASSUME Shapes, NEW e \in Machine!Events, CommitInline(e)
    PROVE  fsm' \in Machine!Machines /\ Fsm!MachineInv(fsm')
BY OnEventShape DEF Shapes, CommitInline

LEMMA RespondsShape ==
    ASSUME Shapes, NEW e \in Machine!Events, NEW next \in Engines, Responds(e, next)
    PROVE  engine' \in Engines /\ fsm' \in Machine!Machines /\ Fsm!MachineInv(fsm')
<1> DEFINE t == <<Send(e), Await("ForwardResponseToClient")>>
<1>1. t \in OpSeqs
  BY Requests, SomeEvents
<1>2. [next EXCEPT !.todo = t] \in Engines
  <2> HIDE DEF t
  <2> QED BY <1>1 DEF Engines
<1> QED BY <1>2, CommitInlineShape DEF Responds, Shapes

LEMMA ClientEndsShape ==
    ASSUME Shapes, NEW request \in {"query", "begin", "quit"}, ClientEnds(request)
    PROVE  Shapes'
<1> USE DEF Shapes
<1> DEFINE t == <<Send("ClientCommand"), Await("ForwardCommandToBackend")>>
           q == <<Send("ClientCommandQuit")>>
<1>1. t \in OpSeqs /\ q \in OpSeqs
  BY Requests, SomeEvents
<1>2. \/ engine' = [engine EXCEPT !.pc = Draining, !.todo = q]
      \/ request # "quit" /\ engine' = [engine EXCEPT !.pc = "forward", !.request = request]
      \/ /\ request # "quit"
         /\ engine' = [engine EXCEPT !.pc = "forward", !.request = request, !.todo = t]
  BY DEF ClientEnds
<1>3. engine' \in Engines
  <2> HIDE DEF t, q
  <2>1. [engine EXCEPT !.pc = Draining, !.todo = q] \in Engines
    BY <1>1, EngineForms DEF EnginePcs
  <2>2. request # "quit" =>
          /\ [engine EXCEPT !.pc = "forward", !.request = request] \in Engines
          /\ [engine EXCEPT !.pc = "forward", !.request = request, !.todo = t] \in Engines
    BY <1>1 DEF Engines, EnginePcs
  <2> QED BY <1>2, <2>1, <2>2
<1>4. fsm' \in Machine!Machines /\ Fsm!MachineInv(fsm')
  BY CommitInlineShape, SomeEvents DEF ClientEnds
<1> QED BY <1>3, <1>4, DomainsKept DEF ClientEnds, CoreUnchanged

LEMMA BackendCommitsShape == ASSUME Shapes, BackendCommits PROVE Shapes'
<1> USE DEF Shapes
<1>1. engine' \in Engines
  <2>1. ASSUME NEW txn \in BOOLEAN,
               engine' = [engine EXCEPT !.pc = "held", !.in_txn = txn,
                    !.todo = <<Send(IF txn THEN "InternalResponseTxnOpen"
                                    ELSE "InternalResponseTxnDone")>>]
        PROVE  engine' \in Engines
    <3> DEFINE t == <<Send(IF txn THEN "InternalResponseTxnOpen"
                           ELSE "InternalResponseTxnDone")>>
    <3>1. t \in OpSeqs
      BY Requests, SomeEvents
    <3>2. engine' = [engine EXCEPT !.pc = "held", !.in_txn = txn, !.todo = t]
      BY <2>1
    <3> HIDE DEF t
    <3> QED BY <3>1, <3>2 DEF Engines, EnginePcs
  <2>2. <<Send("InternalResponseError")>> \in OpSeqs
    BY Requests, SomeEvents
  <2> QED BY <2>1, <2>2, EngineForms, SomeEvents DEF BackendCommits, EnginePcs
<1>2. server' \in Servers
  <2>1. server.txn \in BOOLEAN
    BY DEF Servers
  <2>2. server' = server \/ \E txn \in BOOLEAN : server' = [txn |-> txn, busy |-> FALSE]
    BY <2>1 DEF BackendCommits
  <2>3. ASSUME NEW txn \in BOOLEAN PROVE [txn |-> txn, busy |-> FALSE] \in Servers
    BY DEF Servers
  <2> QED BY <2>2, <2>3
<1> QED BY <1>1, <1>2, EngineStepShape DEF BackendCommits, CoreUnchanged

LEMMA BackendBeginsShape == ASSUME Shapes, BackendBegins PROVE Shapes'
<1> USE DEF Shapes
<1>1. [engine EXCEPT !.begun = TRUE] \in Engines
  BY DEF Engines
<1>2. engine' \in Engines /\ fsm' \in Machine!Machines /\ Fsm!MachineInv(fsm')
  BY <1>1, RespondsShape, SomeEvents DEF BackendBegins
<1> QED BY <1>2, DomainsKept DEF BackendBegins, CoreUnchanged

LEMMA BackendAnswersShape == ASSUME Shapes, BackendAnswers PROVE Shapes'
<1> USE DEF Shapes
<1>1. Answered \in Engines /\ \A txn \in BOOLEAN : [Answered EXCEPT !.in_txn = txn] \in Engines
  <2>1. Answered \in Engines
    BY DEF Engines, Answered, EnginePcs
  <2>2. ASSUME NEW e \in Engines, NEW txn \in BOOLEAN
        PROVE  [e EXCEPT !.in_txn = txn] \in Engines
    BY DEF Engines
  <2> QED BY <2>1, <2>2
<1>2. PICK txn \in BOOLEAN :
        /\ server' = [txn |-> txn, busy |-> FALSE]
        /\ \/ Responds(IF txn THEN "BackendResponseTxnOpen" ELSE "BackendResponseTxnDone",
                       [Answered EXCEPT !.in_txn = txn])
           \/ Responds("BackendResponseErrorComplete", Answered)
  <2>1. server.txn \in BOOLEAN
    BY DEF Servers
  <2> QED BY <2>1 DEF BackendAnswers
<1>3. engine' \in Engines /\ fsm' \in Machine!Machines /\ Fsm!MachineInv(fsm')
  <2> DEFINE e == IF txn THEN "BackendResponseTxnOpen" ELSE "BackendResponseTxnDone"
  <2>1. e \in Machine!Events /\ "BackendResponseErrorComplete" \in Machine!Events
    BY SomeEvents
  <2> HIDE DEF e
  <2>2. Responds(e, [Answered EXCEPT !.in_txn = txn])
        \/ Responds("BackendResponseErrorComplete", Answered)
    BY <1>2 DEF e
  <2>3. Shapes
    OBVIOUS
  <2> QED BY <1>1, <2>1, <2>2, <2>3, RespondsShape
<1>4. server' \in Servers
  BY <1>2 DEF Servers
<1> QED BY <1>3, <1>4, DomainsKept DEF BackendAnswers, CoreUnchanged

-----------------------------------------------------------------------------
(* The owner and the router *)

\* The owner and the router change neither the machine nor the two writers.
LEMMA OwnerStepShape ==
    ASSUME Shapes, UNCHANGED <<fsm, open, events, loop, engine, server, sent, bounds>>,
           shutdown' \in BOOLEAN,
           Channel(cmds', Cmds, CmdCapacity), Channel(control', Controls, ControlCapacity),
           Channel(reports', ReportSet, ReportCapacity),
           owner' \in Owners, owner'.pc = "prepare" => owner'.redirect # None,
           route' \in Routes, inbox' \in Seq(Targets)
    PROVE  Shapes'
BY DomainsKept DEF Shapes

LEMMA SettledShape ==
    ASSUME Shapes, NEW r \in Targets, NEW success \in BOOLEAN
    PROVE  Settled(r, success) \in Routes
<1> DEFINE account == IF success THEN r ELSE route.account
<1>1. account \in Accounts /\ route \in Routes /\ None \in Targets
  BY Members DEF Shapes, Routes
<1>2. Settled(r, success) \in {route, [route EXCEPT !.pending = None, !.account = account]}
  BY DEF Settled
<1> HIDE DEF account
<1> QED BY <1>1, <1>2 DEF Routes

LEMMA OwnerSettles ==
    ASSUME Shapes
    PROVE  (IF owner.redirect = None THEN route ELSE Settled(owner.redirect, FALSE)) \in Routes
<1>1. owner.redirect \in Targets /\ route \in Routes
  BY DEF Shapes, Owners
<1> QED BY <1>1, SettledShape

LEMMA InboxShape ==
    ASSUME Shapes, inbox # <<>>
    PROVE  Head(inbox) \in Targets /\ Tail(inbox) \in Seq(Targets)
BY DEF Shapes

LEMMA OwnerReadsShape == ASSUME Shapes, OwnerReads PROVE Shapes'
<1> USE DEF Shapes
<1>1. Channel(reports', ReportSet, ReportCapacity)
  BY ChannelTail, CapacityAssumption DEF OwnerReads
<1>2. owner' \in Owners /\ owner'.pc = "select"
  BY Members, ZenonT(40) DEF OwnerReads, Owners
<1>3. route' \in Routes
  <2> DEFINE ok == Head(reports) = "succeeded"
  <2>1. route' = route \/ route' = Settled(owner.redirect, ok)
    BY DEF OwnerReads
  <2>2. ok \in BOOLEAN /\ owner.redirect \in Targets
    BY DEF Owners
  <2> HIDE DEF ok
  <2>3. Shapes
    OBVIOUS
  <2> QED BY <2>1, <2>2, <2>3, SettledShape
<1> QED BY <1>1, <1>2, <1>3, OwnerStepShape DEF OwnerReads, OwnerUnchanged

LEMMA OwnerTakesRedirectShape == ASSUME Shapes, OwnerTakesRedirect PROVE Shapes'
<1> USE DEF Shapes
<1>1. Head(inbox) \in Targets /\ inbox' \in Seq(Targets) /\ Head(inbox) # None
  BY InboxShape DEF OwnerTakesRedirect
<1>2. owner' \in Owners /\ (owner'.pc = "prepare" => owner'.redirect # None)
  BY <1>1 DEF OwnerTakesRedirect, Owners
<1>3. route' \in Routes
  BY <1>1, SettledShape DEF OwnerTakesRedirect
<1> QED BY <1>1, <1>2, <1>3, OwnerStepShape DEF OwnerTakesRedirect, OwnerUnchanged

LEMMA OwnerPreparesShape == ASSUME Shapes, OwnerPrepares PROVE Shapes'
<1> USE DEF Shapes
<1>1. Prepare(owner.redirect) \in Cmds
  BY Members DEF OwnerPrepares, Owners
<1>2. Channel(cmds', Cmds, CmdCapacity)
  BY <1>1, ChannelAppend, CapacityAssumption DEF OwnerPrepares
<1>3. owner' \in Owners /\ owner'.pc = "control"
  BY DEF OwnerPrepares, Owners
<1> QED BY <1>2, <1>3, OwnerStepShape DEF OwnerPrepares, OwnerUnchanged

LEMMA SendControlShape ==
    ASSUME Shapes, NEW m \in Controls, SendControl(m)
    PROVE  Channel(control', Controls, ControlCapacity)
BY ChannelAppend, CapacityAssumption DEF Shapes, SendControl

LEMMA OwnerRedirectsShape == ASSUME Shapes, OwnerRedirects PROVE Shapes'
<1> USE DEF Shapes
<1>1. Channel(control', Controls, ControlCapacity)
  BY SendControlShape DEF OwnerRedirects, Controls
<1>2. owner' \in Owners /\ owner'.pc = "select"
  <2>1. None \in Targets
    BY Members
  <2>2. \/ owner' = [owner EXCEPT !.pc = "select", !.redirect = None]
        \/ owner' = [owner EXCEPT !.pc = "select"]
    BY DEF OwnerRedirects
  <2> QED BY <2>1, <2>2 DEF Owners
<1>3. route' \in Routes
  BY SettledShape DEF OwnerRedirects, Owners
<1> QED BY <1>1, <1>2, <1>3, OwnerStepShape DEF OwnerRedirects, OwnerUnchanged

LEMMA OwnerTakesCloseShape == ASSUME Shapes, OwnerTakesClose PROVE Shapes'
<1> USE DEF Shapes
<1>1. Channel(control', Controls, ControlCapacity)
  BY SendControlShape DEF OwnerTakesClose, Controls
<1>2. owner' \in Owners /\ owner'.pc = "select"
  BY Members DEF OwnerTakesClose, Owners
<1>3. route' \in Routes /\ inbox' \in Seq(Targets)
  BY OwnerSettles, InboxShape DEF OwnerTakesClose
<1> QED BY <1>1, <1>2, <1>3, OwnerStepShape DEF OwnerTakesClose, OwnerUnchanged

LEMMA OwnerDrainsShape == ASSUME Shapes, OwnerDrains PROVE Shapes'
<1> USE DEF Shapes
<1>1. Channel(control', Controls, ControlCapacity)
  BY SendControlShape DEF OwnerDrains, Controls
<1>2. owner' \in Owners /\ owner'.pc = "select"
  BY DEF OwnerDrains, Owners
<1> QED BY <1>1, <1>2, OwnerStepShape DEF OwnerDrains, OwnerUnchanged

LEMMA OwnerJoinsShape == ASSUME Shapes, OwnerJoins PROVE Shapes'
<1> USE DEF Shapes
<1>1. owner' \in Owners /\ owner'.pc = "join"
  BY Members DEF OwnerJoins, Owners
<1>2. route' \in Routes
  <2> DEFINE settled == IF owner.redirect = None THEN route ELSE Settled(owner.redirect, FALSE)
  <2>1. settled \in Routes /\ None \in Targets
    BY OwnerSettles, Members
  <2>2. route' \in {settled, [settled EXCEPT !.stage = "closed", !.pending = None]}
    BY DEF OwnerJoins
  <2> HIDE DEF settled
  <2> QED BY <2>1, <2>2 DEF Routes
<1> QED BY <1>1, <1>2, OwnerStepShape DEF OwnerJoins, OwnerUnchanged

LEMMA OwnerFinishesShape == ASSUME Shapes, OwnerFinishes PROVE Shapes'
<1> USE DEF Shapes
<1>1. owner' \in Owners /\ owner'.pc = "done"
  BY DEF OwnerFinishes, Owners
<1>2. Channel(reports', ReportSet, ReportCapacity)
  BY ChannelEmpty, CapacityAssumption DEF OwnerFinishes
<1> QED BY <1>1, <1>2, OwnerStepShape DEF OwnerFinishes, OwnerUnchanged

LEMMA OwnerAbortsShape == ASSUME Shapes, OwnerAborts PROVE Shapes'
<1>1. engine' \in Engines
  <2>1. <<>> \in OpSeqs
    BY DEF OpSeqs
  <2> QED BY <2>1, EngineForms DEF Shapes, OwnerAborts, EnginePcs
<1>2. Channel(cmds', Cmds, CmdCapacity)
  BY ChannelEmpty, CapacityAssumption DEF OwnerAborts
<1> QED BY <1>1, <1>2, ReleaseLeaseShape, EngineStepShape, SMTT(30) DEF Shapes, OwnerAborts

LEMMA RouterRedirectsShape == ASSUME Shapes, RouterRedirects PROVE Shapes'
<1> USE DEF Shapes
<1> DEFINE r == route.offered + 2
           n == route.offered + 1
<1>1. r \in Redirects /\ n \in Offers
  BY Members DEF RouterRedirects, Redirects, Routes, Offers
<1>2. route' = [route EXCEPT !.pending = r, !.offered = n] /\ inbox' = inbox \o <<r>>
  BY DEF RouterRedirects
<1>3. r \in Targets
  BY <1>1, Members
<1> HIDE DEF r, n
<1>4. route' \in Routes
  BY <1>1, <1>2, <1>3 DEF Routes
<1>5. inbox' \in Seq(Targets)
  BY <1>2, <1>3
<1> QED BY <1>4, <1>5, OwnerStepShape DEF RouterRedirects, EnvironmentUnchanged

LEMMA RouterClosesShape == ASSUME Shapes, RouterCloses PROVE Shapes'
<1> USE DEF Shapes
<1>1. route' \in Routes
  BY DEF RouterCloses, Routes
<1>2. inbox' \in Seq(Targets)
  BY Members DEF RouterCloses
<1> QED BY <1>1, <1>2, OwnerStepShape DEF RouterCloses, EnvironmentUnchanged

-----------------------------------------------------------------------------
(* The invariant *)

LEMMA InitShape == ASSUME Init PROVE Shapes
<1>1. bounds \in Bounds
  BY InstancesAssumption DEF Init
<1>2. fsm \in Machine!Machines
  BY DEF Init, Machine!NewFsm, Machine!Machines, Machine!States, Machine!Flags
<1>3. Fsm!MachineInv(fsm)
  BY DEF Init, Machine!NewFsm, Fsm!MachineInv, Fsm!LiveStates
<1>4. /\ Channel(events, Machine!Events, 1) /\ Channel(cmds, Cmds, CmdCapacity)
      /\ Channel(control, Controls, ControlCapacity)
  BY ChannelEmpty, CapacityAssumption DEF Init
<1>5. Channel(reports, ReportSet, ReportCapacity)
  <2>1. ASSUME NEW r \in ReportSet, NEW n \in Nat \ {0} PROVE Channel(<<r>>, ReportSet, n)
    BY DEF Channel
  <2> QED BY <2>1, CapacityAssumption DEF Init, ReportSet
<1>6. <<>> \in EffectSeqs /\ <<>> \in OpSeqs /\ <<>> \in Seq(Targets)
  BY DEF EffectSeqs, OpSeqs
<1>7. loop \in Loops /\ (loop.pc = "effects" <=> loop.out # <<>>)
  BY <1>6 DEF Init, Loops
<1>8. engine \in Engines
  BY <1>1, <1>6, Members DEF Init, Engines, EnginePcs
<1>9. owner \in Owners /\ owner.pc = "select"
  BY <1>1, Members DEF Init, Owners
<1>10. 0 \in Offers /\ 0 \in 0 .. bounds.commands
  BY <1>1, Members DEF Offers
<1>11. route \in Routes
  BY <1>1, <1>10, Members DEF Init, Routes
<1>12. server \in Servers
  BY DEF Init, Servers
<1> QED BY <1>1, <1>2, <1>3, <1>4, <1>5, <1>6, <1>7, <1>8, <1>9, <1>10, <1>11, <1>12
        DEF Shapes, Init

LEMMA StutterShape == ASSUME Shapes, UNCHANGED vars PROVE Shapes'
BY DomainsKept DEF Shapes, vars

LEMMA NextShape == ASSUME Shapes, [Next]_vars PROVE Shapes'
<1>1. CASE LoopStep
  BY <1>1, LoopControlShape, LoopEventShape, LoopUnparkShape, LoopEffectShape,
     LoopProbedShape, LoopShutdownShape, LoopTeardownShape DEF LoopStep
<1>2. CASE LoopDeadline \/ LoopProbe \/ RelaySeals \/ ServerShutsDown
  BY <1>2, LoopDeadlineShape, LoopProbeShape, RelayShape
<1>3. CASE EngineStep
  BY <1>3, EngineSendsShape, EngineReportsShape, EngineReceivesShape,
     EngineForwardsShape, EngineExitsShape DEF EngineStep
<1>4. CASE EngineConnects \/ EngineAuthenticates
  BY <1>4, EngineConnectsShape, EngineAuthenticatesShape
<1>5. CASE ClientBegins \/ ClientStep \/ ClientLeaves
  BY <1>5, ClientBeginsShape, ClientEndsShape, ClientLeavesShape DEF ClientStep
<1>6. CASE BackendStep \/ BackendBegins \/ BackendBreaks
  BY <1>6, EngineMigratesShape, BackendCommitsShape, BackendAnswersShape,
     BackendBeginsShape, BackendBreaksShape DEF BackendStep
<1>7. CASE OwnerStep \/ OwnerDrains \/ OwnerAborts
  BY <1>7, OwnerReadsShape, OwnerTakesRedirectShape, OwnerPreparesShape,
     OwnerRedirectsShape, OwnerTakesCloseShape, OwnerJoinsShape, OwnerFinishesShape,
     OwnerDrainsShape, OwnerAbortsShape DEF OwnerStep
<1>8. CASE RouterRedirects \/ RouterCloses
  BY <1>8, RouterRedirectsShape, RouterClosesShape
<1>9. CASE Terminated \/ UNCHANGED vars
  BY <1>9, StutterShape DEF Terminated
<1> QED BY <1>1, <1>2, <1>3, <1>4, <1>5, <1>6, <1>7, <1>8, <1>9 DEF Next

-----------------------------------------------------------------------------
(* What the two writers may do to the machine *)

\* No event but a command leads to Command; in Command, any other event may stay.
LEMMA CommandsOnly ==
    ASSUME NEW m \in Machine!Machines, NEW e \in Machine!Events,
           NEW o \in Machine!OnEvent(m, e), o.fsm.state = "Command"
    PROVE  m.state = "Command" \/ e = "ClientCommand"
<1> USE DEF Machine!When, Machine!Go, Machine!Teardown
<1>0. m.state \in Machine!States
  BY DEF Machine!Machines
<1>1. \A f, eff : \A x \in Machine!FinishCommand(f, eff) : x.fsm.state # "Command"
  BY DEF Machine!FinishCommand
<1>2. \A f, s, ev : s # "Command" =>
        \A x \in Machine!OnBusy(s, f, ev) : x.fsm.state # "Command"
  BY DEF Machine!OnBusy, Machine!QueueRedirect, Machine!QueueDrain, Machine!DrainDeadline
<1>3. \A f, ev : \A x \in Machine!OnAnswer(f, ev) : x.fsm.state # "Command"
  <2> SUFFICES ASSUME NEW f, NEW ev, NEW x \in Machine!OnAnswer(f, ev)
               PROVE  x.fsm.state # "Command"
    OBVIOUS
  <2> DEFINE completed == Machine!ResponseComplete(f, TRUE)
                          \union Machine!ResponseComplete(f, FALSE)
             parts == Machine!PartStatus(f, TRUE) \union Machine!PartStatus(f, FALSE)
             failed == Machine!ErrorResponseComplete(f)
             single == {[fsm |-> [state |-> "Response", flags |-> f],
                         effects |-> <<"ForwardResponseToClient">>],
                        [fsm |-> [state |-> "LocalInfile", flags |-> f],
                         effects |-> <<"RequestLocalInfileFromClient">>]}
  <2>1. \A y \in completed : y.fsm.state # "Command"
    BY <1>1 DEF Machine!ResponseComplete
  <2>2. \A y \in parts : y.fsm.state # "Command"
    <3> DEFINE done == Machine!WithStatus(f, TRUE)
               goesOn == Machine!WithStatus(f, FALSE)
               Part(g) == [fsm |-> [state |-> "Response", flags |-> g],
                           effects |-> <<"ForwardResponseToClient">>]
    <3>1. parts = {Part(done), Part(goesOn)}
      BY DEF Machine!PartStatus
    <3> HIDE DEF done, goesOn, parts
    <3> QED BY <3>1
  <2>3. \A y \in failed : y.fsm.state # "Command"
    BY <1>1 DEF Machine!ErrorResponseComplete
  <2>4. \A y \in single : y.fsm.state # "Command"
    OBVIOUS
  <2>5. x \in completed \union parts \union failed \union single
    BY DEF Machine!OnAnswer
  <2> HIDE DEF completed, parts, failed, single
  <2> QED BY <2>1, <2>2, <2>3, <2>4, <2>5
<1> QED BY <1>0, <1>1, <1>2, <1>3
     DEF Machine!OnEvent, Machine!TakesKnowledge, Machine!OnKnowledge, Machine!OnAccept,
         Machine!OnGreeting, Machine!OnSslRequest, Machine!OnFrontendHandshake,
         Machine!OnBackendHandshake, Machine!OnReady, Machine!OnResponse,
         Machine!OnLocalInfile, Machine!OnRedirectPending, Machine!OnDraining,
         Machine!OnClosing, Machine!QueueRedirect, Machine!QueueDrain, Machine!States

\* Steps of the engine, the owner and the router leave the loop where it is, and
\* the only ones among them that write the machine are commits of the fast path.
LEMMA OutsideTheLoop ==
    ASSUME \/ EngineStep \/ EngineConnects \/ EngineAuthenticates
           \/ ClientBegins \/ ClientStep \/ ClientLeaves
           \/ BackendStep \/ BackendBegins \/ BackendBreaks
           \/ OwnerStep \/ OwnerDrains \/ OwnerAborts
           \/ RouterRedirects \/ RouterCloses \/ ServerShutsDown
           \/ RelaySeals \/ Terminated,
           loop \in Loops
    PROVE  /\ loop'.pc = loop.pc
           /\ fsm' # fsm => open /\ loop.pc = "select"
<1>1. CASE EngineReceives
  BY <1>1 DEF EngineReceives, HandleCmd, EngineUnchanged, Loops
<1>2. CASE EngineSends \/ EngineReports \/ EngineForwards \/ EngineExits
           \/ EngineConnects \/ EngineAuthenticates \/ EngineMigrates
  BY <1>2 DEF EngineSends, EngineReports, EngineForwards, EngineExits, EngineConnects,
              EngineAuthenticates, EngineMigrates, CoreUnchanged
<1>3. CASE ClientBegins \/ ClientLeaves \/ BackendBreaks \/ BackendCommits
  BY <1>3 DEF ClientBegins, ClientLeaves, BackendBreaks, BackendCommits, CoreUnchanged
<1>4. CASE ClientStep
  BY <1>4 DEF ClientStep, ClientEnds, CanCommitInline, OthersQuiet, CoreUnchanged
<1>5. CASE BackendBegins
  BY <1>5 DEF BackendBegins, Responds, CanCommitInline, OthersQuiet, CoreUnchanged
<1>6. CASE BackendAnswers
  <2>1. \A e, next : Responds(e, next) => fsm' = fsm \/ (open /\ loop.pc = "select")
    BY DEF Responds, CanCommitInline, OthersQuiet
  <2>2. fsm' = fsm \/ (open /\ loop.pc = "select")
    BY <1>6, <2>1 DEF BackendAnswers
  <2> QED BY <1>6, <2>2 DEF BackendAnswers, CoreUnchanged
<1>7. CASE OwnerStep
  BY <1>7 DEF OwnerStep, OwnerReads, OwnerTakesRedirect, OwnerPrepares, OwnerRedirects,
              OwnerTakesClose, OwnerJoins, OwnerFinishes, OwnerUnchanged
<1>8. CASE OwnerDrains \/ OwnerAborts \/ RouterRedirects \/ RouterCloses
           \/ ServerShutsDown \/ RelaySeals \/ Terminated
  BY <1>8 DEF OwnerDrains, OwnerAborts, RouterRedirects, RouterCloses, ServerShutsDown,
              RelaySeals, Terminated, OwnerUnchanged, EnvironmentUnchanged, vars
<1> QED BY <1>1, <1>2, <1>3, <1>4, <1>5, <1>6, <1>7, <1>8 DEF EngineStep, BackendStep

\* A transition applied by the loop ends where the loop is not probing.
LEMMA LoopLeavesProbe ==
    ASSUME Shapes, LoopStep \/ LoopDeadline
    PROVE  loop'.pc # "probe"
<1> USE DEF Shapes
<1>1. ASSUME NEW e, NEW l \in Loops, Apply(e, l) PROVE loop'.pc # "probe"
  <2>1. CASE loop' = [l EXCEPT !.pc = "select"]
    BY <2>1 DEF Loops
  <2>2. ASSUME NEW o, loop' = [l EXCEPT !.pc = IF o.effects = <<>> THEN "select" ELSE "effects",
                               !.out = o.effects, !.deadline = Rearmed(@, o)]
        PROVE  loop'.pc # "probe"
    BY <2>2 DEF Loops
  <2> QED BY <1>1, <2>1, <2>2 DEF Apply
<1>2. CASE LoopControl \/ LoopEvent
  BY <1>1, <1>2 DEF LoopControl, LoopEvent, Selecting, Loops
<1>3. CASE LoopDeadline
  <2>1. [loop EXCEPT !.deadline = "none"] \in Loops
    BY DEF Loops
  <2> QED BY <1>1, <1>3, <2>1 DEF LoopDeadline
<1>4. CASE LoopUnpark
  <2>1. [loop EXCEPT !.parked = ""] \in Loops
    BY DEF Loops
  <2> QED BY <1>1, <1>4, <2>1 DEF LoopUnpark
<1>5. CASE LoopShutdown
  <2>1. [loop EXCEPT !.terminal = TRUE, !.parked = "", !.deadline = "none"] \in Loops
    BY DEF Loops
  <2> QED BY <1>1, <1>5, <2>1 DEF LoopShutdown
<1>6. CASE LoopProbed
  BY <1>1, <1>6 DEF LoopProbed, Loops
<1>7. CASE LoopEffect
  <2> DEFINE pc == IF Len(loop.out) = 1 THEN "select" ELSE "effects"
             out == Tail(loop.out)
  <2>1. loop' = [loop EXCEPT !.out = out, !.pc = pc] /\ pc # "probe"
    BY <1>7 DEF LoopEffect
  <2> HIDE DEF pc, out
  <2> QED BY <2>1 DEF Loops
<1>8. CASE LoopTeardown
  BY <1>8 DEF LoopTeardown, Loops
<1> QED BY <1>2, <1>3, <1>4, <1>5, <1>6, <1>7, <1>8 DEF LoopStep

LEMMA InitHolds == ASSUME Init PROVE IInv
BY InitShape DEF IInv, ProbeInv, Init

LEMMA NextKeeps == ASSUME IInv, [Next]_vars PROVE IInv'
<1>1. Shapes /\ Shapes'
  BY NextShape DEF IInv
<1>2. ProbeInv'
  <2>1. CASE LoopStep \/ LoopDeadline
    BY <1>1, <2>1, LoopLeavesProbe DEF ProbeInv
  <2>2. CASE LoopProbe
    BY <2>2 DEF LoopProbe, ProbeInv
  <2>3. CASE UNCHANGED vars
    BY <2>3 DEF ProbeInv, IInv, vars
  <2>4. CASE Next /\ ~(LoopStep \/ LoopDeadline \/ LoopProbe)
    <3>1. loop \in Loops /\ ProbeInv
      BY DEF IInv, Shapes
    <3>2. loop'.pc = loop.pc /\ (fsm' # fsm => loop.pc = "select")
      BY <2>4, <3>1, OutsideTheLoop DEF Next
    <3> QED BY <3>1, <3>2 DEF ProbeInv
  <2> QED BY <2>1, <2>2, <2>3, <2>4
<1> QED BY <1>1, <1>2 DEF IInv

\* IInv is an invariant of the session runtime.
THEOREM Invariance == Spec => []IInv
<1>1. Init => IInv
  BY InitHolds
<1>2. IInv /\ [Next]_vars => IInv'
  BY NextKeeps
<1> QED BY <1>1, <1>2, PTL DEF Spec

-----------------------------------------------------------------------------
(* The theorems *)

\* Every variable stays in its domain and every channel within its capacity,
\* whatever the capacities and the bounds are (the bounded channels of
\* session.rs and session_engine.rs).
THEOREM Types == Spec => []TypeOK
<1>1. IInv => TypeOK
  BY DEF IInv, Shapes, TypeOK, Channel, Cmds, Controls, ReportSet, Loops, EffectSeqs,
         Engines, EnginePcs, OpSeqs, Targets, Accounts, Owners, Routes, Offers, Servers
<1> QED BY <1>1, Invariance, PTL

\* The answer of a probe finds the session as idle as the probe was sent: the
\* fast path commits nothing while the loop waits (BackendProbe in event_loop,
\* probe_safe).
THEOREM ProbesFindIdleSessions == Spec => ProbeSparesCommands
<1>1. IInv => [loop.pc = "probe" /\ loop'.pc # "probe" =>
                  fsm.state \in {"Ready", "Draining"}]_vars
  BY DEF IInv, ProbeInv
<1> QED BY <1>1, Invariance, PTL DEF ProbeSparesCommands

\* A sealed core admits no command, neither through the loop nor through the
\* fast path: what the loop still applies is a teardown (seal, close_via_fsm).
THEOREM SealHolds == Spec => SealedAdmitsNothing
<1>1. ASSUME IInv, [Next]_vars, ~open, fsm.state # "Command"
      PROVE  fsm'.state # "Command"
  <2> USE <1>1
  <2>0. fsm \in Machine!Machines /\ loop \in Loops
    BY DEF IInv, Shapes
  <2>1. CASE LoopProbed
    <3>1. fsm' = fsm \/ \E o \in Machine!OnEvent(fsm, "BackendIoError") : fsm' = o.fsm
      BY <2>1 DEF LoopProbed, Apply
    <3> QED BY <2>0, <3>1, CommandsOnly, SomeEvents
  <2>2. CASE LoopShutdown
    <3>1. fsm' = fsm \/ \E o \in Machine!OnEvent(fsm, "ControlCloseImmediate") : fsm' = o.fsm
      BY <2>2 DEF LoopShutdown, Apply
    <3> QED BY <2>0, <3>1, CommandsOnly, SomeEvents DEF Controls
  <2>3. CASE LoopTeardown
    BY <2>0, <2>3, CommandsOnly, SomeEvents DEF LoopTeardown
  <2>4. CASE LoopControl \/ LoopEvent \/ LoopUnpark \/ LoopDeadline \/ LoopProbe
    BY <2>4 DEF LoopControl, LoopEvent, LoopUnpark, LoopDeadline, LoopProbe, Selecting
  <2>5. CASE LoopEffect \/ UNCHANGED vars
    BY <2>5 DEF LoopEffect, vars
  <2>6. CASE Next /\ ~(LoopStep \/ LoopDeadline \/ LoopProbe)
    BY <2>0, <2>6, OutsideTheLoop DEF Next
  <2> QED BY <2>1, <2>2, <2>3, <2>4, <2>5, <2>6 DEF LoopStep
<1>2. IInv /\ [Next]_vars =>
        [~open /\ fsm.state # "Command" => fsm'.state # "Command"]_vars
  BY <1>1
<1> QED BY <1>2, Invariance, PTL DEF Spec, SealedAdmitsNothing

-----------------------------------------------------------------------------
(* What is under way between the tasks *)

\* The event in the slot of the loop, if any.
Queue == IF events = <<>> THEN "" ELSE Head(events)

\* What the engine has to do first; the event it is about to send or tell, the
\* result it is about to report; the effects it awaits after that.
TaskOp == IF engine.todo = <<>> THEN "none" ELSE Head(engine.todo).op
Word == IF TaskOp \in {"send", "tell"} THEN Head(engine.todo).arg ELSE ""
Result == IF TaskOp = "report" THEN Head(engine.todo).arg ELSE ""
AwaitedIn(t) == {x \in Machine!SessionEffects : \E i \in DOMAIN t : t[i] = Await(x)}
Awaited == AwaitedIn(engine.todo)

\* An event is on its way to the machine.
Told(e) == Queue = e \/ Word = e

\* The wire: the command channel, then the effects the loop has still to send.
InCmds(c) == \E i \in DOMAIN cmds : cmds[i] = c
InOut(c) == \E i \in DOMAIN loop.out : Effect(loop.out[i]) = c
Afloat == {x \in Machine!SessionEffects : InCmds(Effect(x)) \/ InOut(Effect(x))}
Prepared == {r \in Redirects : InCmds(Prepare(r))}

\* Every c on the wire is in front of every d, and there is one c if it is d.
Before(c, d) ==
    /\ ~(InCmds(d) /\ InOut(c))
    /\ \A i, j \in DOMAIN cmds : cmds[i] = d /\ cmds[j] = c => j <= i
    /\ \A i, j \in DOMAIN loop.out :
         Effect(loop.out[i]) = d /\ Effect(loop.out[j]) = c => j <= i

Redirecting == \E i \in DOMAIN control : control[i] = "ControlRedirect"
Reported == {x \in {"succeeded", "failed"} : \E i \in DOMAIN reports : reports[i] = x}
Offered == {r \in Redirects : \E i \in DOMAIN inbox : inbox[i] = r}

Live == fsm.state \notin {"Closing", "Closed"}
Over == engine.pc \in {Draining, "done"}
Resting == {"Ready", "Draining", "RedirectPending"}
Serving == {"Command", "Response"}
Granted == {"ForwardHandshakeToBackend", "AttachBackend", "ForwardAuthResultToClient",
            "ForwardCommandToBackend", "ForwardResponseToClient"}
Notices == {"NotifyRedirectSucceeded", "NotifyRedirectFailed"}
Completions == {"BackendResponseTxnOpen", "BackendResponseTxnDone",
                "BackendResponseErrorComplete"}
Committed == {"InternalResponseTxnOpen", "InternalResponseTxnDone"}
Commands == {"ClientCommand", "ClientCommandQuit"}
Migrated == {"RedirectBackendReady", "RedirectBackendFailed"}
RequestEvents ==
    {"BackendGreetingReceived", "BackendAuthOk", "BackendAuthFailed",
     "BackendResponsePart", "InternalResponseError"}
    \union Commands \union Completions \union Committed

-----------------------------------------------------------------------------
(* The invariant *)

\* Effects come in the order in which the machine sends them.
WireOrder == \A p \in Fsm!Pairs : Before(Effect(p[1]), Effect(p[2]))
Followers == Notices \union {"StartRedirectHandshake", "SwapBackend"}
PrepareOrder == \A r \in Redirects, x \in Followers : Before(Prepare(r), Effect(x))

Waits == {<<>>, <<Await("ForwardHandshakeToBackend")>>,
          <<Await("AttachBackend"), Await("ForwardAuthResultToClient")>>,
          <<Await("ForwardAuthResultToClient")>>,
          <<Await("ForwardCommandToBackend")>>, <<Await("ForwardResponseToClient")>>}
IsList(t) == \/ t \in Waits
             \/ \E op \in Ops, w \in Waits : op.op # "await" /\ t = <<op>> \o w
Listed == IsList(engine.todo)

\* What the engine has to do fits the place it is at.
TaskInv ==
    /\ "ForwardHandshakeToBackend" \in Awaited => engine.pc = "auth"
    /\ "ForwardAuthResultToClient" \in Awaited => engine.pc = "idle"
    /\ "ForwardCommandToBackend" \in Awaited => engine.pc = "forward"
    /\ "ForwardResponseToClient" \in Awaited =>
          engine.pc = "idle" \/ (engine.pc = "respond" /\ engine.begun)
    /\ TaskOp = "send" =>
          \/ Word = "BackendGreetingReceived" /\ "ForwardHandshakeToBackend" \in Awaited
          \/ Word = "BackendAuthOk" /\ "AttachBackend" \in Awaited
          \/ Word = "ClientCommand" /\ "ForwardCommandToBackend" \in Awaited
          \/ Word \in Completions /\ "ForwardResponseToClient" \in Awaited
                                  /\ engine.pc = "idle"
          \/ Word = "BackendResponsePart" /\ "ForwardResponseToClient" \in Awaited
                                          /\ engine.pc = "respond"
          \/ Word \in Committed /\ engine.pc = "held"
          \/ Word = "InternalResponseError" /\ engine.pc = "idle"
          \/ Word = "ClientCommandQuit" /\ engine.pc = Draining
    /\ TaskOp = "tell" =>
          \/ Word \in Migrated \union {"BackendIoError"}
          \/ Word \in {"ClientEof", "BackendAuthFailed"} /\ engine.pc = Draining
    /\ engine.pc = "dial" => engine.backend = None /\ route.stage # "active"
    /\ Queue \in {"", "ClientEof", "BackendIoError"} \union Migrated \union RequestEvents

\* An effect of a command phase is on the wire only for an engine that awaits
\* it, the teardown only once the machine closes.
GrantInv ==
    /\ \A x \in Granted : x \in Afloat =>
          (Over /\ ~Live) \/ (x \in Awaited /\ TaskOp # "send")
    /\ "AttachBackend" \in Awaited /\ "ForwardAuthResultToClient" \in Afloat =>
          "AttachBackend" \in Afloat
    /\ \A x \in TeardownClass : x \in Afloat => ~Live

Working == \/ engine.pc = "forward" /\ "ForwardCommandToBackend" \notin Awaited
           \/ engine.pc \in {"commit", "respond"}
Ending == Completions \union Committed \union {"InternalResponseError"}
Serves == \/ Working \/ "ForwardCommandToBackend" \in Afloat
          \/ Queue \in Ending \/ Word \in Ending

\* The state in which the machine takes an event of the engine.
Fits(e) ==
    /\ e \in {"BackendAuthOk", "BackendAuthFailed"} => fsm.state = "BackendHandshake"
    /\ e \in Committed \union {"InternalResponseError"} => fsm.state = "Command"

StateInv ==
    /\ Live => fsm.state \in {"FrontendHandshake", "BackendHandshake"}
                            \union Resting \union Serving
    /\ Live => Fits(Queue) /\ Fits(Word)
    /\ Live /\ Queue \in Commands => fsm.state \in Resting
    /\ Live /\ Word \in Commands => fsm.state \in Resting \/ Queue = "InternalResponseError"
    /\ Live /\ "ForwardCommandToBackend" \in Afloat => fsm.state = "Command"

PhaseInv == Live /\ ~Over =>
    /\ engine.pc = "dial" \/ Told("BackendGreetingReceived")
         <=> fsm.state = "FrontendHandshake"
    /\ (engine.pc = "auth" /\ ~Told("BackendGreetingReceived")) \/ Told("BackendAuthOk")
         <=> fsm.state = "BackendHandshake"
    /\ Serves <=> fsm.state \in Serving
    /\ Working /\ engine.pc # "respond" => fsm.state = "Command"

\* A session has one request at a time, parked, told or in the machine.
QueueInv == Live =>
    /\ Queue \in RequestEvents /\ Word \in RequestEvents =>
          Queue = "InternalResponseError" /\ Word \in Commands
    /\ loop.parked # "" => Queue \notin RequestEvents /\ Word \notin RequestEvents
    /\ Queue = "BackendGreetingReceived" => "ForwardHandshakeToBackend" \in Awaited
    /\ Queue = "BackendAuthOk" => "AttachBackend" \in Awaited
    /\ Queue = "ClientCommand" => "ForwardCommandToBackend" \in Awaited
    /\ Queue \in Completions =>
          "ForwardResponseToClient" \in Awaited /\ engine.pc = "idle"
    /\ Queue = "BackendResponsePart" =>
          "ForwardResponseToClient" \in Awaited /\ engine.pc = "respond"
    /\ Queue \in Committed => engine.pc = "held"
    /\ Queue = "InternalResponseError" =>
          \/ engine.pc \in {"idle", "reading"} \/ Over
          \/ engine.pc = "forward" /\ Word = "ClientCommand"
    /\ Queue \in {"ClientCommandQuit", "BackendAuthFailed"} => Over
    /\ loop.parked = "ClientCommand" => "ForwardCommandToBackend" \in Awaited
    /\ loop.parked = "ClientCommandQuit" => Over

AnswerInv == Live =>
    /\ "ForwardHandshakeToBackend" \in Afloat => ~Told("BackendGreetingReceived")
    /\ "AttachBackend" \in Afloat \/ "ForwardAuthResultToClient" \in Afloat =>
          ~Told("BackendAuthOk")
    /\ "ForwardResponseToClient" \in Afloat =>
          Queue \notin Completions \union {"BackendResponsePart"}
    /\ "ForwardCommandToBackend" \in Afloat => loop.parked = "" /\ Queue # "ClientCommand"

\* The backend is exchanged between requests and outside transactions.
QuietInv ==
    /\ Working \/ Queue \in Committed \/ Word \in Committed =>
          "SwapBackend" \notin Afloat /\ "ResumeHeldRequest" \notin Afloat
    /\ server.busy /\ Live => fsm.state \in Serving /\ Queue \notin Ending /\ Word \notin Ending
    /\ server.busy => "SwapBackend" \notin Afloat
    /\ "SwapBackend" \in Afloat => ~server.txn
    /\ Live /\ server.txn =>
          \/ fsm.flags.in_txn
          \/ Told("BackendResponseTxnOpen") \/ Told("InternalResponseTxnOpen")
    /\ Live /\ (Told("BackendResponseTxnDone") \/ Told("InternalResponseTxnDone")) =>
          ~server.txn

\* A migration: started, under way, and its outcome on its way to the machine.
Started == "StartRedirectHandshake" \in Afloat
Migrating == TaskOp = "migrate"
MigrationInv ==
    /\ Started => /\ fsm.flags.redirect_pending \/ "NotifyRedirectFailed" \in Afloat
                  /\ ~Migrating /\ Word \notin Migrated /\ Queue \notin Migrated
    /\ Migrating \/ Word \in Migrated => Queue \notin Migrated
    /\ Started \/ Migrating \/ Word \in Migrated \/ Queue \in Migrated =>
          /\ fsm.state \in {"RedirectPending", "Closing", "Closed"}
          /\ "SwapBackend" \notin Afloat
    /\ "SwapBackend" \in Afloat =>
          "NotifyRedirectSucceeded" \in Afloat /\ engine.candidate # None
    /\ Live /\ Told("RedirectBackendReady") => engine.candidate # None

\* The redirect the owner waits for: with the owner, as a control, in the
\* machine, as a notice, with the engine, as a report.
Ordered == owner.pc \in {"prepare", "control"}
Noticed == "NotifyRedirectSucceeded" \in Afloat \/ "NotifyRedirectFailed" \in Afloat
Announced == TaskOp = "report"
Answering == Noticed \/ Announced \/ Reported # {}
Owning == owner.pc \notin {"join", "done"} /\ ~owner.closing
OneControl == \A i, j \in DOMAIN control :
    control[i] = "ControlRedirect" /\ control[j] = "ControlRedirect" => i = j
OneReport == \A i, j \in DOMAIN reports :
    reports[i] # "commands" /\ reports[j] # "commands" => i = j
OneOffer == Owning => \A i, j \in DOMAIN inbox :
    inbox[i] # None /\ inbox[i] = inbox[j] => i = j
TokenInv ==
    /\ Ordered => ~Redirecting /\ ~fsm.flags.redirect_pending /\ ~Answering
    /\ Redirecting => ~fsm.flags.redirect_pending /\ ~Answering
    /\ fsm.flags.redirect_pending => ~Answering
    /\ Noticed => ~Announced /\ Reported = {}
    /\ Announced => Reported = {}
    /\ Owning /\ owner.redirect = None =>
          ~Redirecting /\ ~fsm.flags.redirect_pending /\ ~Answering
    /\ Ordered => owner.redirect # None
EarlyInv ==
    /\ ~bounds.early =>
          /\ owner.redirect # None /\ owner.pc = "select" /\ loop.pc # "ended" =>
                Redirecting \/ fsm.flags.redirect_pending \/ Answering
          /\ Ordered \/ Redirecting \/ route.pending # None => fsm.flags.authenticated
    /\ fsm.flags.authenticated /\ Live => fsm.state \in Resting \union Serving

Swapped == \/ "NotifyRedirectSucceeded" \in Afloat /\ "SwapBackend" \notin Afloat
           \/ Result = "succeeded"
           \/ "succeeded" \in Reported
Steering == Owning /\ loop.pc # "ended"
Aimless == engine.target = None /\ engine.candidate = None /\ Prepared = {}
TargetInv ==
    /\ Steering =>
          /\ engine.target \in {None, owner.redirect}
          /\ engine.candidate \in {None, owner.redirect}
          /\ Prepared \subseteq {owner.redirect}
    /\ Steering /\ (\/ owner.redirect = None \/ owner.pc = "prepare"
                    \/ Announced \/ Reported # {} \/ Swapped) => Aimless
    /\ Owning /\ "SwapBackend" \in Afloat => engine.candidate = owner.redirect

LedgerInv ==
    /\ Owning => Offered \subseteq {route.pending}
    /\ Owning /\ owner.redirect # None =>
          Offered = {} /\ route.stage = "active" /\ route.pending = owner.redirect
    /\ route.stage = "active" /\ route.pending # None =>
          owner.redirect = route.pending \/ route.pending \in Offered
    /\ route.stage # "active" => route.pending = None
    /\ Owning /\ engine.pc # "done" /\ route.stage = "active" =>
          engine.backend = IF Swapped THEN owner.redirect ELSE route.account
EndInv ==
    /\ loop.terminal => ~Live
    /\ loop.pc = "ended" => ~Live
    /\ owner.pc \in {"join", "done"} => loop.pc = "ended"

Requesting == /\ TaskInv /\ GrantInv /\ StateInv /\ PhaseInv /\ QueueInv /\ AnswerInv
              /\ QuietInv /\ MigrationInv
Redirection == TokenInv /\ EarlyInv /\ TargetInv /\ LedgerInv /\ EndInv
Ordering == WireOrder /\ PrepareOrder /\ Listed /\ OneControl /\ OneReport /\ OneOffer
AgreeInv == Ordering /\ Requesting /\ Redirection /\ faults = {}
-----------------------------------------------------------------------------
(* The wire *)

LEMMA WireKept ==
    ASSUME cmds' = cmds, loop'.out = loop.out, bounds' = bounds
    PROVE  /\ Afloat' = Afloat /\ Prepared' = Prepared
           /\ (WireOrder => WireOrder') /\ (PrepareOrder => PrepareOrder')
<1>1. Redirects' = Redirects
  BY DomainsKept
<1>2. \A c : (InCmds(c)' <=> InCmds(c)) /\ (InOut(c)' <=> InOut(c))
  BY DEF InCmds, InOut
<1>3. \A c, d : Before(c, d)' <=> Before(c, d)
  BY <1>2 DEF Before
<1> QED BY <1>1, <1>2, <1>3 DEF Afloat, Prepared, WireOrder, PrepareOrder

\* The first effect of the loop goes to the end of the channel.
LEMMA WireMoves ==
    ASSUME Shapes, LoopEffect
    PROVE  /\ Afloat' = Afloat /\ Prepared' = Prepared
           /\ (WireOrder => WireOrder') /\ (PrepareOrder => PrepareOrder')
<1> DEFINE c0 == Effect(Head(loop.out))
           out == loop.out
<1>0. /\ cmds \in Seq(Cmds) /\ out \in Seq(Machine!SessionEffects) /\ out # <<>>
      /\ cmds' = cmds \o <<c0>> /\ loop'.out = Tail(out) /\ bounds' = bounds
  BY DEF Shapes, Channel, LoopEffect, Loops, EffectSeqs
<1>1. Redirects' = Redirects
  BY <1>0, DomainsKept
<1>c. c0 \in Cmds
  BY <1>0, Members DEF Shapes
<1>2. /\ Len(cmds) \in Nat /\ DOMAIN cmds = 1 .. Len(cmds)
      /\ DOMAIN cmds' = 1 .. Len(cmds) + 1
      /\ \A i \in 1 .. Len(cmds) : cmds'[i] = cmds[i]
      /\ cmds'[Len(cmds) + 1] = c0
  <2> HIDE DEF c0
  <2>1. Len(cmds) \in Nat /\ DOMAIN cmds = 1 .. Len(cmds)
    BY <1>0
  <2>2. Len(cmds') = Len(cmds) + 1 /\ cmds' \in Seq(Cmds)
    BY <1>0, <1>c
  <2> QED BY <1>0, <1>c, <2>1, <2>2
<1>3. /\ Len(out) \in Nat \ {0} /\ DOMAIN out = 1 .. Len(out)
      /\ DOMAIN loop'.out = 1 .. Len(out) - 1
      /\ \A i \in 1 .. Len(out) - 1 : loop'.out[i] = out[i + 1]
      /\ Head(out) = out[1]
  <2>1. ASSUME NEW S, NEW q \in Seq(S), q # <<>>
        PROVE  /\ Len(q) \in Nat \ {0} /\ DOMAIN q = 1 .. Len(q)
               /\ DOMAIN Tail(q) = 1 .. Len(q) - 1
               /\ \A i \in 1 .. Len(q) - 1 : Tail(q)[i] = q[i + 1]
               /\ Head(q) = q[1]
    BY <2>1
  <2> QED BY <1>0, <2>1
<1> HIDE DEF c0
<1>4. \A c : InCmds(c)' <=> InCmds(c) \/ c = c0
  BY <1>2 DEF InCmds
<1>5. \A c : InOut(c) <=> InOut(c)' \/ c = c0
  <2> SUFFICES ASSUME NEW c PROVE InOut(c) <=> InOut(c)' \/ c = c0
    OBVIOUS
  <2>1. InOut(c) => InOut(c)' \/ c = c0
    <3> SUFFICES ASSUME NEW i \in DOMAIN out, Effect(out[i]) = c
                 PROVE  InOut(c)' \/ c = c0
      BY DEF InOut
    <3>1. CASE i = 1
      BY <1>3, <3>1 DEF c0
    <3>2. CASE i # 1
      <4>1. i - 1 \in DOMAIN loop'.out /\ loop'.out[i - 1] = out[i]
        BY <1>3, <3>2
      <4> QED BY <4>1 DEF InOut
    <3> QED BY <3>1, <3>2
  <2>2. InOut(c)' => InOut(c)
    <3> SUFFICES ASSUME NEW i \in DOMAIN loop'.out, Effect(loop'.out[i]) = c
                 PROVE  InOut(c)
      BY DEF InOut
    <3>1. i + 1 \in DOMAIN out /\ loop'.out[i] = out[i + 1]
      BY <1>3
    <3> QED BY <3>1 DEF InOut
  <2>3. InOut(c0)
    <3>1. 1 \in DOMAIN out /\ Effect(out[1]) = c0
      BY <1>3 DEF c0
    <3> QED BY <3>1 DEF InOut
  <2> QED BY <2>1, <2>2, <2>3
<1>6. ASSUME NEW c, NEW d, Before(c, d)
      PROVE  Before(c, d)'
  <2>1. ~(InCmds(d)' /\ InOut(c)')
    <3> SUFFICES ASSUME InOut(c)', d = c0 PROVE FALSE
      BY <1>4, <1>5, <1>6 DEF Before
    <3>1. PICK i \in DOMAIN loop'.out : Effect(loop'.out[i]) = c
      BY DEF InOut
    <3>2. i + 1 \in DOMAIN out /\ Effect(out[i + 1]) = c /\ 1 \in DOMAIN out
      BY <1>3, <3>1
    <3>3. i + 1 <= 1
      BY <1>3, <1>6, <3>2 DEF Before, c0
    <3> QED BY <1>3, <3>3
  <2>2. ASSUME NEW i \in DOMAIN cmds', NEW j \in DOMAIN cmds', cmds'[i] = d, cmds'[j] = c
        PROVE  j <= i
    <3>1. CASE j = Len(cmds) + 1 /\ i # Len(cmds) + 1
      <4>1. InCmds(d) /\ c = c0
        BY <1>2, <2>2, <3>1 DEF InCmds
      <4> QED BY <1>5, <1>6, <4>1 DEF Before
    <3>2. CASE j # Len(cmds) + 1 /\ i # Len(cmds) + 1
      <4>1. i \in DOMAIN cmds /\ j \in DOMAIN cmds /\ cmds[i] = d /\ cmds[j] = c
        BY <1>2, <2>2, <3>2
      <4> QED BY <1>6, <4>1 DEF Before
    <3>3. CASE i = Len(cmds) + 1
      BY <1>2, <3>3
    <3> QED BY <3>1, <3>2, <3>3
  <2>3. ASSUME NEW i \in DOMAIN loop'.out, NEW j \in DOMAIN loop'.out,
               Effect(loop'.out[i]) = d, Effect(loop'.out[j]) = c
        PROVE  j <= i
    <3>1. i + 1 \in DOMAIN out /\ j + 1 \in DOMAIN out
          /\ Effect(out[i + 1]) = d /\ Effect(out[j + 1]) = c
      BY <1>3, <2>3
    <3>2. j + 1 <= i + 1
      BY <1>6, <3>1 DEF Before
    <3> QED BY <1>3, <3>2
  <2> QED BY <2>1, <2>2, <2>3 DEF Before
<1>7. Afloat' = Afloat
  BY <1>4, <1>5 DEF Afloat
<1>8. Prepared' = Prepared
  <2>1. \A r : Prepare(r) # c0
    BY DEF Prepare, Effect, c0
  <2> QED BY <1>1, <1>4, <2>1 DEF Prepared
<1> QED BY <1>1, <1>6, <1>7, <1>8 DEF WireOrder, PrepareOrder

LEMMA EffectsDiffer ==
    /\ \A x, y : Effect(x) = Effect(y) => x = y
    /\ \A x, r : Effect(x) # Prepare(r) /\ Effect(x) # Probe /\ Prepare(r) # Probe
    /\ \A r, s : Prepare(r) = Prepare(s) => r = s
<1>1. \A x : Effect(x).arg = x /\ Effect(x).cmd = "effect"
  BY DEF Effect
<1>2. \A r : Prepare(r).to = r /\ Prepare(r).cmd = "prepare"
  BY DEF Prepare
<1>3. Probe.cmd = "probe"
  BY DEF Probe
<1>4. \A x, r : Effect(x) # Prepare(r)
  BY <1>1, <1>2
<1> QED BY <1>1, <1>2, <1>3, <1>4

\* The effects eff of a transition join the wire behind everything else.
LEMMA WireApplied ==
    ASSUME cmds' = cmds, loop.out = <<>>, bounds' = bounds,
           loop'.out \in Seq(Machine!SessionEffects)
    PROVE  /\ \A x : x \in Afloat' <=> x \in Afloat \/ Fsm!Emits(loop'.out, x)
           /\ Prepared' = Prepared
           /\ PrepareOrder => PrepareOrder'
           /\ (/\ WireOrder
               /\ Fsm!WellOrdered(loop'.out)
               /\ \A p \in Fsm!Pairs : Fsm!Emits(loop'.out, p[1]) => p[2] \notin Afloat)
              => WireOrder'
<1>1. Redirects' = Redirects
  BY DomainsKept
<1>2. \A c : (InCmds(c)' <=> InCmds(c)) /\ ~InOut(c)
  BY DEF InCmds, InOut
<1>3. \A x : InOut(Effect(x))' <=> Fsm!Emits(loop'.out, x)
  BY EffectsDiffer DEF InOut, Fsm!Emits
<1>4. \A r : ~InOut(Prepare(r))'
  BY EffectsDiffer DEF InOut
<1>5. \A x : Fsm!Emits(loop'.out, x) => x \in Machine!SessionEffects
  BY DEF Fsm!Emits
<1>6. \A x : x \in Afloat' <=> x \in Afloat \/ Fsm!Emits(loop'.out, x)
  BY <1>2, <1>3, <1>5 DEF Afloat
<1>7. Prepared' = Prepared
  BY <1>1, <1>2 DEF Prepared
<1>8. PrepareOrder => PrepareOrder'
  <2> SUFFICES ASSUME PrepareOrder, NEW r \in Redirects, NEW x \in Followers
               PROVE  Before(Prepare(r), Effect(x))'
    BY <1>1 DEF PrepareOrder
  <2>1. Before(Prepare(r), Effect(x))
    BY DEF PrepareOrder
  <2>2. \A j \in DOMAIN loop'.out : Effect(loop'.out[j]) # Prepare(r)
    BY EffectsDiffer
  <2> QED BY <1>4, <2>1, <2>2 DEF Before
<1>9. ASSUME WireOrder, NEW p \in Fsm!Pairs, Fsm!InOrder(loop'.out, p[1], p[2]),
             ~(p[2] \in Afloat /\ Fsm!Emits(loop'.out, p[1])),
             p[1] \in Machine!SessionEffects, p[2] \in Machine!SessionEffects
      PROVE  Before(Effect(p[1]), Effect(p[2]))'
  <2>1. Before(Effect(p[1]), Effect(p[2]))
    BY <1>9 DEF WireOrder
  <2>2. ~(InCmds(Effect(p[2]))' /\ InOut(Effect(p[1]))')
    BY <1>2, <1>3, <1>9 DEF Afloat
  <2>3. \A i, j \in DOMAIN loop'.out :
          Effect(loop'.out[i]) = Effect(p[2]) /\ Effect(loop'.out[j]) = Effect(p[1]) => j <= i
    BY <1>9, EffectsDiffer DEF Fsm!InOrder
  <2> QED BY <2>1, <2>2, <2>3 DEF Before
<1>10. \A p \in Fsm!Pairs : p[1] \in Machine!SessionEffects /\ p[2] \in Machine!SessionEffects
  BY DEF Fsm!Pairs, Machine!SessionEffects
<1> QED BY <1>6, <1>7, <1>8, <1>9, <1>10 DEF WireOrder, Fsm!WellOrdered

\* The engine takes the first command off the wire.
LEMMA WireTaken ==
    ASSUME Shapes, cmds # <<>>, cmds' = Tail(cmds), loop'.out = loop.out, bounds' = bounds
    PROVE  /\ \A x : x \in Afloat' => x \in Afloat
           /\ \A x : x \in Afloat /\ Head(cmds) # Effect(x) => x \in Afloat'
           /\ \A x : Head(cmds) = Effect(x) /\ x \in Machine!SessionEffects => x \in Afloat
           /\ Prepared' \subseteq Prepared
           /\ \A r \in Redirects : Head(cmds) = Prepare(r) => r \in Prepared
           /\ \A r \in Prepared : Head(cmds) # Prepare(r) => r \in Prepared'
           /\ (WireOrder => WireOrder') /\ (PrepareOrder => PrepareOrder')
           /\ WireOrder => \A p \in Fsm!Pairs : Head(cmds) = Effect(p[2]) => p[1] \notin Afloat'
           /\ PrepareOrder => \A x \in Followers : Head(cmds) = Effect(x) => Prepared' = {}
<1>1. Redirects' = Redirects
  BY DomainsKept
<1>2. /\ Len(cmds) \in Nat \ {0} /\ DOMAIN cmds = 1 .. Len(cmds)
      /\ DOMAIN cmds' = 1 .. Len(cmds) - 1
      /\ \A i \in 1 .. Len(cmds) - 1 : cmds'[i] = cmds[i + 1]
      /\ Head(cmds) = cmds[1]
  <2>1. ASSUME NEW S, NEW q \in Seq(S), q # <<>>
        PROVE  /\ Len(q) \in Nat \ {0} /\ DOMAIN q = 1 .. Len(q)
               /\ DOMAIN Tail(q) = 1 .. Len(q) - 1
               /\ \A i \in 1 .. Len(q) - 1 : Tail(q)[i] = q[i + 1]
               /\ Head(q) = q[1]
    BY <2>1
  <2> QED BY <2>1 DEF Shapes, Channel
<1>3. \A c : InOut(c)' <=> InOut(c)
  BY DEF InOut
<1>4. ASSUME NEW c, InCmds(c)'
      PROVE  InCmds(c) /\ \E i \in DOMAIN cmds : cmds[i] = c /\ i > 1
  <2>1. PICK i \in DOMAIN cmds' : cmds'[i] = c
    BY <1>4 DEF InCmds
  <2>2. i + 1 \in DOMAIN cmds /\ cmds[i + 1] = c /\ i + 1 > 1
    BY <1>2, <2>1
  <2> QED BY <2>2 DEF InCmds
<1>5. ASSUME NEW c, InCmds(c), Head(cmds) # c
      PROVE  InCmds(c)'
  <2>1. PICK i \in DOMAIN cmds : cmds[i] = c
    BY <1>5 DEF InCmds
  <2>2. i - 1 \in DOMAIN cmds' /\ cmds'[i - 1] = c
    BY <1>2, <1>5, <2>1
  <2> QED BY <2>2 DEF InCmds
<1>6. InCmds(Head(cmds))
  BY <1>2, SMTT(30) DEF InCmds
<1>7. ASSUME NEW c, NEW d, Before(c, d)
      PROVE  Before(c, d)'
  <2>1. ~(InCmds(d)' /\ InOut(c)')
    BY <1>3, <1>4, <1>7 DEF Before
  <2>2. ASSUME NEW i \in DOMAIN cmds', NEW j \in DOMAIN cmds', cmds'[i] = d, cmds'[j] = c
        PROVE  j <= i
    <3>1. i + 1 \in DOMAIN cmds /\ j + 1 \in DOMAIN cmds /\ cmds[i + 1] = d /\ cmds[j + 1] = c
      BY <1>2, <2>2
    <3>2. j + 1 <= i + 1
      BY <1>7, <3>1 DEF Before
    <3> QED BY <1>2, <3>2
  <2> QED BY <1>7, <2>1, <2>2 DEF Before
<1>8. ASSUME NEW c, NEW d, Before(c, d), Head(cmds) = d
      PROVE  ~InCmds(c)' /\ ~InOut(c)
  <2>1. ~InOut(c)
    BY <1>6, <1>8 DEF Before
  <2>2. ASSUME NEW i \in DOMAIN cmds, cmds[i] = c, i > 1 PROVE FALSE
    <3>1. 1 \in DOMAIN cmds /\ cmds[1] = d
      BY <1>2, <1>8
    <3>2. i <= 1
      BY <1>8, <2>2, <3>1 DEF Before
    <3> QED BY <1>2, <2>2, <3>2
  <2> QED BY <1>4, <2>1, <2>2
<1>9. /\ \A x : x \in Afloat' => x \in Afloat
      /\ \A x : x \in Afloat /\ Head(cmds) # Effect(x) => x \in Afloat'
      /\ \A x : Head(cmds) = Effect(x) /\ x \in Machine!SessionEffects => x \in Afloat
  BY <1>3, <1>4, <1>5, <1>6 DEF Afloat
<1>10. /\ Prepared' \subseteq Prepared
       /\ \A r \in Redirects : Head(cmds) = Prepare(r) => r \in Prepared
       /\ \A r \in Prepared : Head(cmds) # Prepare(r) => r \in Prepared'
  BY <1>1, <1>4, <1>5, <1>6 DEF Prepared
<1>11. (WireOrder => WireOrder') /\ (PrepareOrder => PrepareOrder')
  BY <1>1, <1>7 DEF WireOrder, PrepareOrder
<1>12. ASSUME WireOrder, NEW p \in Fsm!Pairs, Head(cmds) = Effect(p[2])
       PROVE  p[1] \notin Afloat'
  <2>1. Before(Effect(p[1]), Effect(p[2]))
    BY <1>12 DEF WireOrder
  <2>2. ~InCmds(Effect(p[1]))' /\ ~InOut(Effect(p[1]))
    BY <1>8, <1>12, <2>1
  <2> QED BY <1>3, <2>2 DEF Afloat
<1>13. ASSUME PrepareOrder, NEW x \in Followers, Head(cmds) = Effect(x)
       PROVE  Prepared' = {}
  <2> SUFFICES ASSUME NEW r \in Redirects PROVE ~InCmds(Prepare(r))'
    BY <1>1 DEF Prepared
  <2>1. Before(Prepare(r), Effect(x))
    BY <1>13 DEF PrepareOrder
  <2> QED BY <1>8, <1>13, <2>1
<1> QED BY <1>9, <1>10, <1>11, <1>12, <1>13

\* The owner appends the target of a redirect.
LEMMA WirePrepared ==
    ASSUME Shapes, NEW r \in Redirects, cmds' = cmds \o <<Prepare(r)>>,
           loop'.out = loop.out, bounds' = bounds
    PROVE  /\ Afloat' = Afloat /\ Prepared' = Prepared \union {r}
           /\ WireOrder => WireOrder'
           /\ PrepareOrder /\ Followers \cap Afloat = {} => PrepareOrder'
<1> DEFINE c0 == Prepare(r)
<1>0. cmds \in Seq(Cmds) /\ c0 \in Cmds /\ cmds' = cmds \o <<c0>> /\ Redirects' = Redirects
  BY Members, DomainsKept DEF Shapes, Channel
<1> HIDE DEF c0
<1>2. /\ Len(cmds) \in Nat /\ DOMAIN cmds = 1 .. Len(cmds)
      /\ DOMAIN cmds' = 1 .. Len(cmds) + 1
      /\ \A i \in 1 .. Len(cmds) : cmds'[i] = cmds[i]
      /\ cmds'[Len(cmds) + 1] = c0
  <2>1. Len(cmds) \in Nat /\ DOMAIN cmds = 1 .. Len(cmds)
    BY <1>0
  <2>2. Len(cmds') = Len(cmds) + 1 /\ cmds' \in Seq(Cmds)
    BY <1>0
  <2> QED BY <1>0, <2>1, <2>2
<1>3. \A c : (InCmds(c)' <=> InCmds(c) \/ c = c0) /\ (InOut(c)' <=> InOut(c))
  BY <1>2 DEF InCmds, InOut
<1>4. \A x : Effect(x) # c0 /\ ~InOut(c0)
  BY EffectsDiffer DEF c0, InOut
<1>5. ASSUME NEW c, NEW d, Before(c, d), d # c0, c = c0 => ~InCmds(d)
      PROVE  Before(c, d)'
  <2>1. ~(InCmds(d)' /\ InOut(c)')
    BY <1>3, <1>5 DEF Before
  <2>2. ASSUME NEW i \in DOMAIN cmds', NEW j \in DOMAIN cmds', cmds'[i] = d, cmds'[j] = c
        PROVE  j <= i
    <3>1. i \in DOMAIN cmds /\ cmds[i] = d /\ c # c0
      BY <1>2, <1>5, <2>2 DEF InCmds
    <3>2. j \in DOMAIN cmds /\ cmds[j] = c
      BY <1>2, <2>2, <3>1
    <3> QED BY <1>5, <3>1, <3>2 DEF Before
  <2> QED BY <1>5, <2>1, <2>2 DEF Before
<1>6. Afloat' = Afloat
  BY <1>3, <1>4 DEF Afloat
<1>7. Prepared' = Prepared \union {r}
  <2>1. \A s : Prepare(s) = c0 <=> s = r
    BY EffectsDiffer DEF c0
  <2> QED BY <1>0, <1>3, <2>1 DEF Prepared
<1>8. WireOrder => WireOrder'
  BY <1>4, <1>5 DEF WireOrder
<1>9. PrepareOrder /\ Followers \cap Afloat = {} => PrepareOrder'
  <2> SUFFICES ASSUME PrepareOrder, Followers \cap Afloat = {},
                      NEW s \in Redirects, NEW x \in Followers
               PROVE  Before(Prepare(s), Effect(x))'
    BY <1>0 DEF PrepareOrder
  <2>1. Before(Prepare(s), Effect(x)) /\ x \in Machine!SessionEffects
    BY DEF PrepareOrder, Followers, Notices, Machine!SessionEffects
  <2>2. ~InCmds(Effect(x))
    BY <2>1 DEF Afloat
  <2> QED BY <1>4, <1>5, <2>1, <2>2
<1> QED BY <1>6, <1>7, <1>8, <1>9

\* The channel is emptied, or holds a probe.
LEMMA WireEmptied ==
    ASSUME cmds' \in {<<>>, <<Probe>>}, loop'.out = loop.out, bounds' = bounds
    PROVE  /\ Afloat' \subseteq Afloat /\ Prepared' = {}
           /\ (WireOrder => WireOrder') /\ (PrepareOrder => PrepareOrder')
           /\ cmds = <<>> => Afloat' = Afloat
<1>1. \A i \in DOMAIN cmds' : i = 1 /\ cmds'[i] = Probe
  OBVIOUS
<1>2. \A x, r : Effect(x) # Probe /\ Prepare(r) # Probe
  BY EffectsDiffer
<1>3. \A x : ~InCmds(Effect(x))' /\ (InOut(Effect(x))' <=> InOut(Effect(x)))
  BY <1>1, <1>2 DEF InCmds, InOut
<1>4. \A r : ~InCmds(Prepare(r))' /\ (InOut(Prepare(r))' <=> InOut(Prepare(r)))
  BY <1>1, <1>2 DEF InCmds, InOut
<1>5. \A c, x : Before(c, Effect(x)) => Before(c, Effect(x))'
  BY <1>1, <1>2, <1>3 DEF Before
<1>6. cmds = <<>> => \A c : ~InCmds(c)
  BY DEF InCmds
<1>7. Redirects' = Redirects
  BY DomainsKept
<1> QED BY <1>3, <1>4, <1>5, <1>6, <1>7 DEF Afloat, Prepared, WireOrder, PrepareOrder

\* Nothing is on an empty wire.
LEMMA WireSilent ==
    ASSUME cmds = <<>>, loop.out = <<>>
    PROVE  Afloat = {} /\ Prepared = {}
BY DEF Afloat, Prepared, InCmds, InOut

-----------------------------------------------------------------------------
(* What the engine has to do *)

AwaitSets ==
    {{}, {"ForwardHandshakeToBackend"}, {"AttachBackend", "ForwardAuthResultToClient"},
     {"ForwardAuthResultToClient"}, {"ForwardCommandToBackend"},
     {"ForwardResponseToClient"}}

LEMMA Awaits ==
    ASSUME NEW x \in Machine!SessionEffects, NEW y \in Machine!SessionEffects
    PROVE  /\ AwaitedIn(<<>>) = {} /\ AwaitedIn(<<Await(x)>>) = {x}
           /\ AwaitedIn(<<Await(x), Await(y)>>) = {x, y}
           /\ Await(x).op = "await" /\ Await(x).arg = x
<1>1. \A u, v : Await(u) = Await(v) => u = v
  <2>1. \A u : Await(u).arg = u
    BY DEF Await
  <2> QED BY <2>1
<1>2. AwaitedIn(<<>>) = {}
  BY DEF AwaitedIn
<1> DEFINE a == Await(x) b == Await(y)
<1>3. \A z : (Await(z) = a => z = x) /\ (Await(z) = b => z = y)
  BY <1>1
<1>4. a = Await(x) /\ b = Await(y)
  OBVIOUS
<1> HIDE DEF a, b
<1>5. AwaitedIn(<<a>>) = {x}
  BY <1>3, <1>4 DEF AwaitedIn
<1>6. AwaitedIn(<<a, b>>) = {x, y}
  BY <1>3, <1>4 DEF AwaitedIn
<1> QED BY <1>2, <1>4, <1>5, <1>6 DEF Await

\* The lists of awaited effects: their heads and their tails.
LEMMA WaitForms ==
    ASSUME NEW w \in Waits
    PROVE  /\ w \in OpSeqs /\ AwaitedIn(w) \in AwaitSets
           /\ w = <<>> => AwaitedIn(w) = {}
           /\ w # <<>> => /\ Head(w).op = "await" /\ Tail(w) \in Waits
                          /\ Head(w).arg \in AwaitedIn(w)
                          /\ AwaitedIn(Tail(w)) = AwaitedIn(w) \ {Head(w).arg}
                          /\ "AttachBackend" \in AwaitedIn(w) => Head(w).arg = "AttachBackend"
<1> DEFINE Es == {"ForwardHandshakeToBackend", "ForwardAuthResultToClient",
                  "ForwardCommandToBackend", "ForwardResponseToClient"}
           Single(a) == <<a>>
           Double(a, b) == <<a, b>>
<1>0. Es \subseteq Machine!SessionEffects /\ "AttachBackend" \in Machine!SessionEffects
  BY SomeEvents
<1>1. \A x \in Machine!SessionEffects : Await(x) \in Ops
  BY OpMembers
<1>2. ASSUME NEW a \in Ops, NEW b \in Ops
      PROVE  /\ <<>> \in OpSeqs /\ <<a>> \in OpSeqs /\ <<a, b>> \in OpSeqs
             /\ <<a>> # <<>> /\ <<a, b>> # <<>>
             /\ Head(<<a>>) = a /\ Tail(<<a>>) = <<>>
             /\ Head(<<a, b>>) = a /\ Tail(<<a, b>>) = <<b>>
  <2>1. <<>> \in OpSeqs
    BY DEF OpSeqs
  <2>2. <<>> \in OpSeqs /\ <<a>> \in OpSeqs /\ <<a, b>> \in OpSeqs
    BY <2>1, OpLists
  <2>3. <<a>> # <<>> /\ Head(<<a>>) = a /\ Tail(<<a>>) = <<>>
    OBVIOUS
  <2>4. <<a, b>> # <<>> /\ Head(<<a, b>>) = a /\ Tail(<<a, b>>) = <<b>>
    OBVIOUS
  <2> QED BY <2>2, <2>3, <2>4
<1>3. CASE w = <<>>
  BY <1>0, <1>1, <1>2, <1>3, Awaits DEF AwaitSets
<1>4. ASSUME NEW x \in Es, w = <<Await(x)>>
      PROVE  /\ w \in OpSeqs /\ AwaitedIn(w) \in AwaitSets /\ w # <<>>
             /\ Head(w).op = "await" /\ Tail(w) \in Waits
             /\ Head(w).arg \in AwaitedIn(w)
             /\ AwaitedIn(Tail(w)) = AwaitedIn(w) \ {Head(w).arg}
             /\ "AttachBackend" \notin AwaitedIn(w)
  <2>1. x \in Machine!SessionEffects /\ Await(x) \in Ops
    BY <1>0, <1>1
  <2>2. w \in OpSeqs /\ w # <<>> /\ Head(w) = Await(x) /\ Tail(w) = <<>>
    BY <1>2, <1>4, <2>1
  <2>3. AwaitedIn(w) = {x} /\ AwaitedIn(<<>>) = {} /\ Head(w).op = "await" /\ Head(w).arg = x
    BY <1>4, <2>1, <2>2, Awaits
  <2> QED BY <1>0, <2>1, <2>2, <2>3 DEF AwaitSets, Waits
<1>5. CASE w = <<Await("AttachBackend"), Await("ForwardAuthResultToClient")>>
  <2>1. /\ w \in OpSeqs /\ w # <<>> /\ Head(w) = Await("AttachBackend")
        /\ Tail(w) = <<Await("ForwardAuthResultToClient")>>
    BY <1>0, <1>1, <1>2, <1>5
  <2>2. AwaitedIn(w) = {"AttachBackend", "ForwardAuthResultToClient"}
        /\ AwaitedIn(Tail(w)) = {"ForwardAuthResultToClient"}
        /\ Head(w).op = "await" /\ Head(w).arg = "AttachBackend"
    BY <1>0, <1>5, <2>1, Awaits
  <2> QED BY <2>1, <2>2 DEF AwaitSets, Waits
<1>6. w = <<>> \/ (\E x \in Es : w = <<Await(x)>>)
      \/ w = <<Await("AttachBackend"), Await("ForwardAuthResultToClient")>>
  BY DEF Waits
<1> QED BY <1>3, <1>4, <1>5, <1>6

\* Something to do in front of them.
LEMMA ListForms ==
    ASSUME NEW w \in Waits, NEW op \in Ops, op.op # "await"
    PROVE  /\ IsList(w) /\ IsList(<<op>> \o w) /\ <<op>> \o w # <<>>
           /\ Head(<<op>> \o w) = op /\ Tail(<<op>> \o w) = w
           /\ AwaitedIn(<<op>> \o w) = AwaitedIn(w)
<1>1. w \in OpSeqs
  BY WaitForms
<1>2. ASSUME NEW q \in Seq(Ops)
      PROVE  /\ <<op>> \o q # <<>> /\ Head(<<op>> \o q) = op /\ Tail(<<op>> \o q) = q
             /\ DOMAIN q = 1 .. Len(q) /\ Len(q) \in Nat
             /\ DOMAIN (<<op>> \o q) = 1 .. Len(q) + 1
             /\ (<<op>> \o q)[1] = op
             /\ \A i \in DOMAIN q : (<<op>> \o q)[i + 1] = q[i]
  OBVIOUS
<1> DEFINE t == <<op>> \o w
<1>3. /\ t # <<>> /\ Head(t) = op /\ Tail(t) = w
      /\ DOMAIN w = 1 .. Len(w) /\ Len(w) \in Nat
      /\ DOMAIN t = 1 .. Len(w) + 1
      /\ t[1] = op
      /\ \A i \in DOMAIN w : t[i + 1] = w[i]
  BY <1>1, <1>2 DEF OpSeqs
<1> HIDE DEF t
<1>4. \A x : Await(x) # op
  BY DEF Await
<1>5. ASSUME NEW x PROVE (\E i \in DOMAIN t : t[i] = Await(x)) <=> (\E i \in DOMAIN w : w[i] = Await(x))
  <2>1. ASSUME NEW i \in DOMAIN t, t[i] = Await(x) PROVE \E j \in DOMAIN w : w[j] = Await(x)
    <3>1. i # 1 /\ i - 1 \in DOMAIN w
      BY <1>3, <1>4, <2>1
    <3>2. t[(i - 1) + 1] = w[i - 1] /\ (i - 1) + 1 = i
      BY <1>3, <3>1
    <3> QED BY <2>1, <3>1, <3>2
  <2>2. ASSUME NEW i \in DOMAIN w, w[i] = Await(x) PROVE \E j \in DOMAIN t : t[j] = Await(x)
    <3>1. i + 1 \in DOMAIN t /\ t[i + 1] = w[i]
      BY <1>3
    <3> QED BY <2>2, <3>1
  <2> QED BY <2>1, <2>2
<1>6. AwaitedIn(t) = AwaitedIn(w)
  BY <1>5 DEF AwaitedIn
<1> QED BY <1>3, <1>6 DEF IsList, t

Task == <<TaskOp, Word, Result, Awaited>>

LEMMA TaskKept ==
    ASSUME engine'.todo = engine.todo
    PROVE  /\ TaskOp' = TaskOp /\ Word' = Word /\ Result' = Result /\ Awaited' = Awaited
           /\ Listed' = Listed
BY DEF TaskOp, Word, Result, Awaited, Listed

\* What the list of the engine tells.
LEMMA TaskFacts ==
    ASSUME Listed
    PROVE  /\ Awaited \in AwaitSets
           /\ TaskOp \in {"none", "await", "send", "tell", "migrate", "report"}
           /\ engine.todo = <<>> <=> TaskOp = "none"
           /\ TaskOp = "none" => Awaited = {}
           /\ TaskOp = "await" => /\ Head(engine.todo).arg \in Awaited
                                  /\ "AttachBackend" \in Awaited =>
                                        Head(engine.todo).arg = "AttachBackend"
           /\ TaskOp = "send" \/ TaskOp = "tell" => Word \in Machine!Events
           /\ TaskOp # "send" /\ TaskOp # "tell" => Word = ""
           /\ TaskOp = "report" => Result \in {"succeeded", "failed"}
           /\ TaskOp # "report" => Result = ""
           /\ TaskOp \in {"none", "await"} => engine.todo \in Waits
           /\ TaskOp \notin {"none", "await"} => Tail(engine.todo) \in Waits
<1>1. CASE engine.todo \in Waits
  BY <1>1, WaitForms DEF TaskOp, Word, Result, Awaited
<1>2. ASSUME NEW op \in Ops, NEW w \in Waits, op.op # "await", engine.todo = <<op>> \o w
      PROVE  /\ engine.todo # <<>> /\ Head(engine.todo) = op /\ Tail(engine.todo) = w
             /\ Awaited = AwaitedIn(w)
  BY <1>2, ListForms DEF Awaited
<1>3. \A op \in Ops : /\ op.op \in {"send", "tell", "await", "migrate", "report"}
                      /\ op.op \in {"send", "tell"} => op.arg \in Machine!Events
                      /\ op.op = "report" => op.arg \in {"succeeded", "failed"}
  <2>1. \A op \in Ops : op.op \in {"send", "tell", "await", "migrate", "report"}
    <3>1. Migrate.op = "migrate" /\ \A x : Report(x).op = "report"
      BY DEF Migrate, Report
    <3> QED BY <3>1 DEF Ops
  <2> QED BY <2>1, OpMembers
<1>4. ASSUME NEW op \in Ops, NEW w \in Waits, op.op # "await", engine.todo = <<op>> \o w
      PROVE  /\ Awaited \in AwaitSets /\ TaskOp = op.op
             /\ TaskOp \in {"send", "tell", "migrate", "report"}
             /\ engine.todo # <<>>
             /\ TaskOp = "send" \/ TaskOp = "tell" => Word \in Machine!Events
             /\ TaskOp # "send" /\ TaskOp # "tell" => Word = ""
             /\ TaskOp = "report" => Result \in {"succeeded", "failed"}
             /\ TaskOp # "report" => Result = ""
             /\ Tail(engine.todo) \in Waits
  <2>1. /\ engine.todo # <<>> /\ Head(engine.todo) = op /\ Tail(engine.todo) = w
        /\ Awaited = AwaitedIn(w)
    BY <1>2, <1>4
  <2>2. TaskOp = op.op /\ TaskOp \in {"send", "tell", "migrate", "report"}
    BY <1>3, <1>4, <2>1 DEF TaskOp
  <2> QED BY <1>3, <1>4, <2>1, <2>2, WaitForms DEF Word, Result
<1> QED BY <1>1, <1>4 DEF Listed, IsList

\* The engine has done the first thing, or what it awaited has come.
LEMMA TaskDone ==
    ASSUME Listed, engine.todo # <<>>, engine'.todo = Tail(engine.todo)
    PROVE  /\ Listed' /\ TaskOp' \in {"none", "await"} /\ Word' = "" /\ Result' = ""
           /\ TaskOp # "await" => Awaited' = Awaited
           /\ TaskOp = "await" => Awaited' = Awaited \ {Head(engine.todo).arg}
<1> DEFINE w == Tail(engine.todo)
<1>1. w \in Waits /\ (TaskOp # "await" => AwaitedIn(w) = Awaited)
      /\ (TaskOp = "await" => AwaitedIn(w) = Awaited \ {Head(engine.todo).arg})
  <2>1. CASE engine.todo \in Waits
    BY <2>1, WaitForms DEF TaskOp, Awaited
  <2>2. ASSUME NEW op \in Ops, NEW v \in Waits, op.op # "await", engine.todo = <<op>> \o v
        PROVE  w = v /\ Awaited = AwaitedIn(v) /\ TaskOp = op.op
    BY <2>2, ListForms DEF Awaited, TaskOp
  <2> QED BY <2>1, <2>2 DEF Listed, IsList
<1>2. Listed' /\ Awaited' = AwaitedIn(w)
  BY <1>1 DEF Listed, IsList, Awaited
<1>3. TaskOp' \in {"none", "await"} /\ Word' = "" /\ Result' = ""
  <2>1. w = <<>> \/ Head(w).op = "await"
    BY <1>1, WaitForms
  <2>2. TaskOp' \in {"none", "await"}
    BY <2>1 DEF TaskOp
  <2> QED BY <2>2 DEF Word, Result
<1> QED BY <1>1, <1>2, <1>3

\* The list of the engine is set: something to do, then effects to await.
LEMMA TaskSet ==
    ASSUME NEW op \in Ops, op.op # "await", NEW w \in Waits, engine'.todo = <<op>> \o w
    PROVE  /\ Listed' /\ TaskOp' = op.op /\ Awaited' = AwaitedIn(w)
           /\ Word' = IF op.op \in {"send", "tell"} THEN op.arg ELSE ""
           /\ Result' = IF op.op = "report" THEN op.arg ELSE ""
<1>1. /\ Listed' /\ engine'.todo # <<>> /\ Head(engine'.todo) = op
      /\ Awaited' = AwaitedIn(w)
  BY ListForms DEF Listed, Awaited
<1>2. TaskOp' = op.op
  BY <1>1 DEF TaskOp
<1> QED BY <1>1, <1>2 DEF Word, Result

LEMMA TaskPushed ==
    ASSUME Listed, NEW op \in Ops, op.op # "await",
           \/ TaskOp \in {"none", "await"} /\ engine'.todo = <<op>> \o engine.todo
           \/ TaskOp \notin {"none", "await"} /\ engine'.todo = <<op>> \o Tail(engine.todo)
    PROVE  /\ Listed' /\ TaskOp' = op.op /\ Awaited' = Awaited
           /\ Word' = IF op.op \in {"send", "tell"} THEN op.arg ELSE ""
           /\ Result' = IF op.op = "report" THEN op.arg ELSE ""
<1>1. CASE TaskOp \in {"none", "await"}
  <2>1. engine.todo \in Waits /\ engine'.todo = <<op>> \o engine.todo
    BY <1>1, TaskFacts
  <2> QED BY <2>1, TaskSet DEF Awaited
<1>2. CASE TaskOp \notin {"none", "await"}
  <2> DEFINE w == Tail(engine.todo)
  <2>1. w \in Waits /\ engine'.todo = <<op>> \o w /\ engine.todo # <<>>
    BY <1>2, TaskFacts
  <2>2. Awaited = AwaitedIn(w)
    <3>1. CASE engine.todo \in Waits
      BY <1>2, <2>1, <3>1, WaitForms DEF TaskOp
    <3>2. ASSUME NEW o \in Ops, NEW v \in Waits, o.op # "await", engine.todo = <<o>> \o v
          PROVE  w = v /\ Awaited = AwaitedIn(v)
      BY <3>2, ListForms DEF Awaited
    <3> QED BY <3>1, <3>2 DEF Listed, IsList
  <2> HIDE DEF w
  <2> QED BY <2>1, <2>2, TaskSet
<1> QED BY <1>1, <1>2

LEMMA TaskCleared ==
    ASSUME engine'.todo = <<>>
    PROVE  Listed' /\ TaskOp' = "none" /\ Awaited' = {} /\ Word' = "" /\ Result' = ""
<1>1. <<>> \in Waits
  BY DEF Waits
<1>2. AwaitedIn(<<>>) = {}
  BY <1>1, WaitForms
<1> QED BY <1>1, <1>2 DEF Listed, IsList, TaskOp, Awaited, Word, Result

\* A request to the loop, and what is awaited for it.
LEMMA TaskSent ==
    ASSUME NEW e \in Machine!Events
    PROVE  /\ engine'.todo = <<Send(e)>> =>
                /\ Listed' /\ TaskOp' = "send" /\ Word' = e /\ Result' = "" /\ Awaited' = {}
           /\ engine'.todo = <<Tell(e)>> =>
                /\ Listed' /\ TaskOp' = "tell" /\ Word' = e /\ Result' = "" /\ Awaited' = {}
           /\ \A x \in {"ForwardHandshakeToBackend", "ForwardCommandToBackend",
                        "ForwardResponseToClient"} :
                engine'.todo = <<Send(e), Await(x)>> =>
                  /\ Listed' /\ TaskOp' = "send" /\ Word' = e /\ Result' = ""
                  /\ Awaited' = {x}
           /\ engine'.todo = <<Send(e), Await("AttachBackend"),
                               Await("ForwardAuthResultToClient")>> =>
                /\ Listed' /\ TaskOp' = "send" /\ Word' = e /\ Result' = ""
                /\ Awaited' = {"AttachBackend", "ForwardAuthResultToClient"}
<1> DEFINE s == Send(e) t == Tell(e)
<1>1. /\ s \in Ops /\ s.op = "send" /\ s.arg = e
      /\ t \in Ops /\ t.op = "tell" /\ t.arg = e
  <2>1. s \in Ops /\ t \in Ops
    BY OpMembers
  <2>2. s.op = "send" /\ s.arg = e /\ t.op = "tell" /\ t.arg = e
    BY DEF Send, Tell
  <2> QED BY <2>1, <2>2
<1>2. \A a, b, c : /\ <<a>> \o <<>> = <<a>> /\ <<a>> \o <<b>> = <<a, b>>
                   /\ <<a>> \o <<b, c>> = <<a, b, c>>
  <2> SUFFICES ASSUME NEW a, NEW b, NEW c
               PROVE  /\ <<a>> \o <<>> = <<a>> /\ <<a>> \o <<b>> = <<a, b>>
                      /\ <<a>> \o <<b, c>> = <<a, b, c>>
    OBVIOUS
  <2> DEFINE S == {a, b, c}
  <2>0. a \in S /\ b \in S /\ c \in S
    OBVIOUS
  <2> HIDE DEF S
  <2>1. ASSUME NEW p \in Seq(S), NEW q \in Seq(S), Len(p) = Len(q),
               \A i \in 1 .. Len(p) : p[i] = q[i]
        PROVE  p = q
    BY <2>1
  <2>2. <<a>> \o <<>> = <<a>>
    BY <2>0
  <2>3. <<a>> \o <<b>> = <<a, b>>
    <3> DEFINE p == <<a>> \o <<b>>
    <3>1. p \in Seq(S) /\ Len(p) = 2 /\ p[1] = a /\ p[2] = b
      BY <2>0
    <3>2. <<a, b>> \in Seq(S) /\ Len(<<a, b>>) = 2 /\ <<a, b>>[1] = a /\ <<a, b>>[2] = b
      BY <2>0
    <3> HIDE DEF p
    <3>3. \A i \in 1 .. 2 : p[i] = <<a, b>>[i]
      BY <3>1, <3>2
    <3>4. p = <<a, b>>
      BY <2>1, <3>1, <3>2, <3>3
    <3> QED BY <3>4 DEF p
  <2>4. <<a>> \o <<b, c>> = <<a, b, c>>
    <3> DEFINE p == <<a>> \o <<b, c>>
               q == <<a, b, c>>
    <3>1. p \in Seq(S) /\ Len(p) = 3 /\ p[1] = a /\ p[2] = b /\ p[3] = c
      BY <2>0
    <3>2. q \in Seq(S) /\ Len(q) = 3 /\ q[1] = a /\ q[2] = b /\ q[3] = c
      BY <2>0
    <3> HIDE DEF p, q
    <3>3. \A i \in 1 .. 3 : p[i] = q[i]
      BY <3>1, <3>2
    <3>4. p = q
      BY <2>1, <3>1, <3>2, <3>3
    <3> QED BY <3>4 DEF p, q
  <2> QED BY <2>2, <2>3, <2>4
<1>3. /\ <<>> \in Waits /\ AwaitedIn(<<>>) = {}
      /\ <<Await("AttachBackend"), Await("ForwardAuthResultToClient")>> \in Waits
      /\ AwaitedIn(<<Await("AttachBackend"), Await("ForwardAuthResultToClient")>>)
           = {"AttachBackend", "ForwardAuthResultToClient"}
  BY SomeEvents, Awaits DEF Waits
<1>4. \A x \in {"ForwardHandshakeToBackend", "ForwardCommandToBackend",
                "ForwardResponseToClient"} :
        <<Await(x)>> \in Waits /\ AwaitedIn(<<Await(x)>>) = {x}
  BY SomeEvents, Awaits DEF Waits
<1> HIDE DEF s, t
<1>5. ASSUME engine'.todo = <<s>>
      PROVE  Listed' /\ TaskOp' = "send" /\ Word' = e /\ Result' = "" /\ Awaited' = {}
  BY <1>1, <1>2, <1>3, <1>5, TaskSet
<1>6. ASSUME engine'.todo = <<t>>
      PROVE  Listed' /\ TaskOp' = "tell" /\ Word' = e /\ Result' = "" /\ Awaited' = {}
  BY <1>1, <1>2, <1>3, <1>6, TaskSet
<1>7. ASSUME NEW x \in {"ForwardHandshakeToBackend", "ForwardCommandToBackend",
                        "ForwardResponseToClient"},
             engine'.todo = <<s, Await(x)>>
      PROVE  Listed' /\ TaskOp' = "send" /\ Word' = e /\ Result' = "" /\ Awaited' = {x}
  <2>1. engine'.todo = <<s>> \o <<Await(x)>>
    BY <1>2, <1>7
  <2> QED BY <1>1, <1>4, <2>1, TaskSet
<1>8. ASSUME engine'.todo = <<s, Await("AttachBackend"), Await("ForwardAuthResultToClient")>>
      PROVE  /\ Listed' /\ TaskOp' = "send" /\ Word' = e /\ Result' = ""
             /\ Awaited' = {"AttachBackend", "ForwardAuthResultToClient"}
  <2>1. engine'.todo = <<s>> \o <<Await("AttachBackend"), Await("ForwardAuthResultToClient")>>
    BY <1>2, <1>8
  <2> QED BY <1>1, <1>3, <2>1, TaskSet
<1> QED BY <1>5, <1>6, <1>7, <1>8 DEF s, t

-----------------------------------------------------------------------------
(* Steps as the invariant sees them *)

SameTask == TaskOp' = TaskOp /\ Word' = Word /\ Result' = Result /\ Awaited' = Awaited
SamePlace == /\ engine'.pc = engine.pc /\ engine'.begun = engine.begun
             /\ engine'.backend = engine.backend
             /\ engine'.target = engine.target /\ engine'.candidate = engine.candidate
SameOwner == /\ owner' = owner /\ route' = route /\ bounds' = bounds
             /\ Offered' = Offered /\ Reported' = Reported
SameFlags == /\ fsm'.flags.redirect_pending = fsm.flags.redirect_pending
             /\ fsm'.flags.authenticated = fsm.flags.authenticated
             /\ fsm'.flags.in_txn = fsm.flags.in_txn

\* The effects X join the wire.
Joining(x, X) == x \in Afloat' <=> x \in Afloat \/ x \in X
Joins(X) ==
    /\ Joining("ForwardHandshakeToBackend", X) /\ Joining("AttachBackend", X)
    /\ Joining("ForwardAuthResultToClient", X) /\ Joining("ForwardCommandToBackend", X)
    /\ Joining("ForwardResponseToClient", X) /\ Joining("StartRedirectHandshake", X)
    /\ Joining("SwapBackend", X) /\ Joining("ResumeHeldRequest", X)
    /\ Joining("NotifyRedirectSucceeded", X) /\ Joining("NotifyRedirectFailed", X)
    /\ Joining("ReleaseBackend", X) /\ Joining("CloseBackend", X)
    /\ Joining("CloseClient", X) /\ Joining("ClassifySessionEnd", X)

\* What the shapes and the lists tell of the views.
Known ==
    /\ Awaited \in AwaitSets
    /\ TaskOp \in {"none", "await", "send", "tell", "migrate", "report"}
    /\ TaskOp = "none" => Awaited = {}
    /\ TaskOp = "await" => Awaited # {}
    /\ TaskOp \in {"send", "tell"} <=> Word # ""
    /\ TaskOp = "report" <=> Result # ""
    /\ Result \in {"", "succeeded", "failed"}
    /\ loop.parked \in {"", "ClientCommand", "ClientCommandQuit"}
    /\ fsm.state = "RedirectPending" => fsm.flags.redirect_pending /\ ~fsm.flags.in_txn
    /\ fsm.flags.redirect_pending => Live
    /\ Reported \subseteq {"succeeded", "failed"}
    /\ "succeeded" \in Reported => "failed" \notin Reported

LEMMA KnownHolds ==
    ASSUME Shapes, Listed, OneReport
    PROVE  Known
<1>1. /\ Awaited \in AwaitSets
      /\ TaskOp \in {"none", "await", "send", "tell", "migrate", "report"}
      /\ TaskOp = "none" => Awaited = {}
      /\ TaskOp = "await" => Awaited # {}
  BY TaskFacts
<1>2. "" \notin Machine!Events
  BY DEF Machine!Events, Machine!HandshakeEvents, Machine!CommandEvents,
     Machine!KnowledgeEvents, Machine!ClientGone, Machine!BackendGone
<1>3. /\ TaskOp \in {"send", "tell"} <=> Word # ""
      /\ TaskOp = "report" <=> Result # ""
      /\ Result \in {"", "succeeded", "failed"}
  BY <1>2, TaskFacts
<1>4. loop.parked \in {"", "ClientCommand", "ClientCommandQuit"}
  BY DEF Shapes, Loops
<1>5. /\ fsm.state = "RedirectPending" => fsm.flags.redirect_pending /\ ~fsm.flags.in_txn
      /\ fsm.flags.redirect_pending => Live
  BY DEF Shapes, Fsm!MachineInv, Fsm!AtBoundary, Fsm!LiveStates, Live
<1>6. Reported \subseteq {"succeeded", "failed"}
  BY DEF Reported
<1>7. "succeeded" \in Reported => "failed" \notin Reported
  <2> SUFFICES ASSUME NEW i \in DOMAIN reports, reports[i] = "succeeded",
                      NEW j \in DOMAIN reports, reports[j] = "failed"
               PROVE  FALSE
    BY DEF Reported
  <2>1. i = j
    BY DEF OneReport
  <2> QED BY <2>1
<1> QED BY <1>1, <1>3, <1>4, <1>5, <1>6, <1>7 DEF Known

\* A step that neither moves the redirect nor ends a part of the session.
LEMMA RedirectionKept ==
    ASSUME Redirection, SameOwner, Redirecting' = Redirecting, Prepared' = Prepared,
           \A x \in {"NotifyRedirectSucceeded", "NotifyRedirectFailed", "SwapBackend"} :
              x \in Afloat' <=> x \in Afloat,
           fsm'.flags.redirect_pending = fsm.flags.redirect_pending,
           fsm'.flags.authenticated = fsm.flags.authenticated,
           Live' = Live, fsm.flags.authenticated /\ Live => fsm'.state \in Resting \union Serving,
           loop'.terminal = loop.terminal, loop'.pc = "ended" <=> loop.pc = "ended",
           TaskOp' = "report" <=> TaskOp = "report", Result' = Result,
           engine'.pc = "done" <=> engine.pc = "done",
           engine'.backend = engine.backend, engine'.target = engine.target,
           engine'.candidate = engine.candidate
    PROVE  Redirection'
<1> USE DEF Redirection, SameOwner, Ordered, Noticed, Announced, Answering, Owning, Swapped,
            Steering, Aimless, Resting, Serving
<1>1. TokenInv'
  BY DEF TokenInv
<1>2. EarlyInv'
  BY DEF EarlyInv
<1>3. TargetInv'
  BY DEF TargetInv
<1>4. LedgerInv'
  BY DEF LedgerInv
<1>5. EndInv'
  BY DEF EndInv
<1> QED BY <1>1, <1>2, <1>3, <1>4, <1>5

\* A step of the owner or the router.
LEMMA RequestingKept ==
    ASSUME Requesting, fsm' = fsm, Queue' = Queue, loop'.parked = loop.parked,
           SameTask, SamePlace, Afloat' = Afloat, server' = server,
           route'.stage = "active" => route.stage = "active"
    PROVE  Requesting'
<1> USE DEF Requesting, SameTask, SamePlace, Live, Over, Told, Working, Serves, Draining
<1>1. TaskInv'
  BY DEF TaskInv
<1>2. GrantInv'
  BY DEF GrantInv
<1>3. StateInv' /\ PhaseInv'
  BY DEF StateInv, Fits, PhaseInv
<1>4. QueueInv' /\ AnswerInv'
  BY DEF QueueInv, AnswerInv
<1>5. QuietInv'
  BY DEF QuietInv
<1>6. MigrationInv'
  BY DEF MigrationInv, Started, Migrating
<1> QED BY <1>1, <1>2, <1>3, <1>4, <1>5, <1>6

\* The effects of a teardown on the wire.
LEMMA JoinsLast ==
    ASSUME NEW X, Joins(X \union Fsm!LastEffects(fsm.flags)),
           \A x \in X : x = "ForwardAuthResultToClient" \/ x = "ForwardResponseToClient"
    PROVE  /\ "SwapBackend" \in Afloat' <=> "SwapBackend" \in Afloat
           /\ "ResumeHeldRequest" \in Afloat' <=> "ResumeHeldRequest" \in Afloat
           /\ "StartRedirectHandshake" \in Afloat' <=> "StartRedirectHandshake" \in Afloat
           /\ "NotifyRedirectSucceeded" \in Afloat' <=> "NotifyRedirectSucceeded" \in Afloat
           /\ "NotifyRedirectFailed" \in Afloat' <=>
                 "NotifyRedirectFailed" \in Afloat \/ fsm.flags.redirect_pending
           /\ "AttachBackend" \in Afloat' <=> "AttachBackend" \in Afloat
           /\ "ForwardHandshakeToBackend" \in Afloat' <=> "ForwardHandshakeToBackend" \in Afloat
           /\ "ForwardCommandToBackend" \in Afloat' <=> "ForwardCommandToBackend" \in Afloat
           /\ "ForwardAuthResultToClient" \in Afloat' <=>
                 "ForwardAuthResultToClient" \in Afloat \/ "ForwardAuthResultToClient" \in X
           /\ "ForwardResponseToClient" \in Afloat' <=>
                 "ForwardResponseToClient" \in Afloat \/ "ForwardResponseToClient" \in X
<1> DEFINE L == Fsm!LastEffects(fsm.flags)
<1>1. /\ \A x \in L : x \in {"NotifyRedirectFailed", "ReleaseBackend", "CloseBackend",
                             "CloseClient", "ClassifySessionEnd"}
      /\ "NotifyRedirectFailed" \in L <=> fsm.flags.redirect_pending
  BY DEF Fsm!LastEffects
<1>2. Joins(X \union L)
  OBVIOUS
<1> HIDE DEF L
<1> DEFINE Y == X \union L
<1>3. /\ "SwapBackend" \notin Y /\ "ResumeHeldRequest" \notin Y
      /\ "StartRedirectHandshake" \notin Y /\ "NotifyRedirectSucceeded" \notin Y
      /\ "AttachBackend" \notin Y /\ "ForwardHandshakeToBackend" \notin Y
      /\ "ForwardCommandToBackend" \notin Y
      /\ "NotifyRedirectFailed" \in Y <=> fsm.flags.redirect_pending
      /\ "ForwardAuthResultToClient" \in Y <=> "ForwardAuthResultToClient" \in X
      /\ "ForwardResponseToClient" \in Y <=> "ForwardResponseToClient" \in X
  BY <1>1
<1>4. Joins(Y)
  BY <1>2
<1> HIDE DEF Y
<1> QED BY <1>3, <1>4 DEF Joins, Joining

\* The machine closes: what is on its way to it does not matter any more.
LEMMA ClosingStep ==
    ASSUME Requesting, Redirection, Known, Live, NEW X,
           \A x \in X : x = "ForwardAuthResultToClient" \/ x = "ForwardResponseToClient",
           \A x \in X : Over \/ (x \in Awaited /\ TaskOp # "send" /\ "AttachBackend" \notin Awaited),
           fsm'.state = "Closing", ~fsm'.flags.redirect_pending,
           fsm'.flags.authenticated = fsm.flags.authenticated,
           Joins(X \union Fsm!LastEffects(fsm.flags)), Prepared' = Prepared,
           Queue' \in {Queue, ""}, loop'.pc # "ended", loop.pc # "ended",
           SameTask, SamePlace, SameOwner, Redirecting' = Redirecting, server' = server
    PROVE  Requesting' /\ Redirection'
<1> USE DEF Requesting, Redirection, SameTask, SamePlace, SameOwner, Live, Over, Draining
<1>0. /\ ~Live'
      /\ "SwapBackend" \in Afloat' <=> "SwapBackend" \in Afloat
      /\ "ResumeHeldRequest" \in Afloat' <=> "ResumeHeldRequest" \in Afloat
      /\ "StartRedirectHandshake" \in Afloat' <=> "StartRedirectHandshake" \in Afloat
      /\ "NotifyRedirectSucceeded" \in Afloat' <=> "NotifyRedirectSucceeded" \in Afloat
      /\ "NotifyRedirectFailed" \in Afloat' <=>
            "NotifyRedirectFailed" \in Afloat \/ fsm.flags.redirect_pending
      /\ "AttachBackend" \in Afloat' <=> "AttachBackend" \in Afloat
      /\ "ForwardHandshakeToBackend" \in Afloat' <=> "ForwardHandshakeToBackend" \in Afloat
      /\ "ForwardCommandToBackend" \in Afloat' <=> "ForwardCommandToBackend" \in Afloat
      /\ "ForwardAuthResultToClient" \in Afloat' <=>
            "ForwardAuthResultToClient" \in Afloat \/ "ForwardAuthResultToClient" \in X
      /\ "ForwardResponseToClient" \in Afloat' <=>
            "ForwardResponseToClient" \in Afloat \/ "ForwardResponseToClient" \in X
  BY JoinsLast
<1>1. TaskInv'
  BY DEF TaskInv
<1>2. GrantInv'
  <2>1. ASSUME NEW x \in Granted, x \in Afloat'
        PROVE  Over \/ (x \in Awaited /\ TaskOp # "send")
    BY <1>0, <2>1 DEF GrantInv, Granted
  <2>2. "AttachBackend" \in Awaited /\ "ForwardAuthResultToClient" \in Afloat' =>
          "AttachBackend" \in Afloat'
    BY <1>0 DEF GrantInv, TaskInv, Known, AwaitSets
  <2> QED BY <1>0, <2>1, <2>2 DEF GrantInv
<1>3. StateInv' /\ PhaseInv' /\ QueueInv' /\ AnswerInv'
  BY <1>0 DEF StateInv, PhaseInv, QueueInv, AnswerInv
<1>4. QuietInv'
  BY <1>0 DEF QuietInv, Working, Committed
<1>5. MigrationInv'
  BY <1>0 DEF MigrationInv, Started, Migrating, Migrated
<1> USE DEF Ordered, Noticed, Announced, Answering, Owning, Swapped, Steering, Aimless
<1>6. TokenInv'
  BY <1>0 DEF TokenInv
<1>7. EarlyInv'
  BY <1>0 DEF EarlyInv
<1>8. TargetInv'
  BY <1>0 DEF TargetInv
<1>9. LedgerInv'
  BY <1>0 DEF LedgerInv
<1>10. EndInv'
  BY <1>0 DEF EndInv
<1> QED BY <1>1, <1>2, <1>3, <1>4, <1>5, <1>6, <1>7, <1>8, <1>9, <1>10
-----------------------------------------------------------------------------
(* The loop, as the invariant sees it *)

\* What a step of the loop leaves alone.
Around == /\ SameTask /\ SamePlace /\ SameOwner /\ server' = server /\ Prepared' = Prepared
          /\ loop.pc # "ended" /\ loop'.pc # "ended" /\ loop'.terminal = loop.terminal

\* Nothing on the wire has to stay behind the effects X.
Clear(X) == \A p \in Fsm!Pairs : p[1] \in X => p[2] \notin Afloat

LEMMA ClearFor ==
    ASSUME NEW X,
           "ForwardHandshakeToBackend" \in X => "ForwardHandshakeToBackend" \notin Afloat,
           "AttachBackend" \in X => "AttachBackend" \notin Afloat,
           "AttachBackend" \in X => "ForwardAuthResultToClient" \notin Afloat,
           "ForwardAuthResultToClient" \in X => "ForwardAuthResultToClient" \notin Afloat,
           "ForwardCommandToBackend" \in X => "ForwardCommandToBackend" \notin Afloat,
           "ForwardResponseToClient" \in X => "ForwardResponseToClient" \notin Afloat,
           "NotifyRedirectSucceeded" \in X \/ "NotifyRedirectFailed" \in X => ~Noticed,
           "StartRedirectHandshake" \in X =>
               "StartRedirectHandshake" \notin Afloat /\ "NotifyRedirectFailed" \notin Afloat,
           "SwapBackend" \in X => "SwapBackend" \notin Afloat
               /\ "NotifyRedirectSucceeded" \notin Afloat,
           "SwapBackend" \in X \/ "ResumeHeldRequest" \in X =>
               "ForwardCommandToBackend" \notin Afloat
    PROVE  Clear(X)
BY DEF Clear, Fsm!Pairs, Noticed

\* The greeting of the backend.
LEMMA GreetingStep ==
    ASSUME Requesting,
           Redirection,
           Known,
           Around,
           fsm.state = "FrontendHandshake",
           fsm'.state = "BackendHandshake",
           SameFlags,
           Queue = "BackendGreetingReceived",
           Queue' = "",
           loop'.parked = loop.parked,
           Redirecting' = Redirecting,
           Joins({"ForwardHandshakeToBackend"})
    PROVE  Requesting' /\ Redirection' /\ Clear({"ForwardHandshakeToBackend"})
<1> USE DEF Requesting, SameTask, SamePlace, Live, Over, Draining, Told, Resting, Serving,
            Granted, Completions, Committed, Commands, Migrated, RequestEvents, Ending,
            Working, Serves,
            Around, SameOwner, Joins, Joining
<1>1. TaskInv'
  BY DEF TaskInv
<1>2. GrantInv'
  BY DEF GrantInv, TeardownClass, QueueInv, TaskInv, Known, AwaitSets
<1>3. StateInv'
  BY DEF StateInv, Fits, QueueInv
<1>4. PhaseInv'
  BY DEF PhaseInv, QueueInv, TaskInv, StateInv, Fits, Known, AwaitSets
<1>5. QueueInv'
  BY DEF QueueInv
<1>6. AnswerInv'
  BY DEF AnswerInv, QueueInv, TaskInv
<1>7. QuietInv'
  BY DEF QuietInv, SameFlags
<1>8. MigrationInv'
  BY DEF MigrationInv, Started, Migrating, SameFlags
<1>9. Redirection'
  BY RedirectionKept DEF SameFlags, Redirection, EarlyInv
<1>10. Clear({"ForwardHandshakeToBackend"})
  BY ClearFor DEF GrantInv, AnswerInv
<1> QED BY <1>1, <1>2, <1>3, <1>4, <1>5, <1>6, <1>7, <1>8, <1>9, <1>10

\* The session is authenticated.
LEMMA AuthenticatedStep ==
    ASSUME Requesting,
           Redirection,
           Known,
           Around,
           fsm.state = "BackendHandshake",
           fsm'.state = "Ready",
           fsm'.flags.authenticated,
           fsm'.flags.redirect_pending = fsm.flags.redirect_pending,
           fsm'.flags.in_txn = fsm.flags.in_txn,
           Queue = "BackendAuthOk",
           Queue' = "",
           loop'.parked = loop.parked,
           Redirecting' = Redirecting,
           Joins({"AttachBackend", "ForwardAuthResultToClient"})
    PROVE  Requesting' /\ Redirection' /\ Clear({"AttachBackend", "ForwardAuthResultToClient"})
<1> USE DEF Requesting, SameTask, SamePlace, Live, Over, Draining, Told, Resting, Serving,
            Granted, Completions, Committed, Commands, Migrated, RequestEvents, Ending,
            Working, Serves,
            Redirection, SameOwner, Ordered, Noticed, Announced, Answering, Owning, Swapped,
            Steering, Aimless,
            Around, SameOwner, Joins, Joining
<1>1. TaskInv'
  BY DEF TaskInv
<1>2. GrantInv'
  BY DEF GrantInv, TeardownClass, QueueInv, TaskInv, Known, AwaitSets
<1>3. StateInv'
  BY DEF StateInv, Fits, QueueInv
<1>4. PhaseInv'
  BY DEF PhaseInv, QueueInv, TaskInv, StateInv, Fits, Known, AwaitSets
<1>5. QueueInv'
  BY DEF QueueInv
<1>6. AnswerInv'
  BY DEF AnswerInv, QueueInv, TaskInv
<1>7. QuietInv'
  BY DEF QuietInv
<1>8. MigrationInv'
  BY DEF MigrationInv, Started, Migrating
<1>9. TokenInv'
  BY DEF TokenInv
<1>10. EarlyInv'
  BY DEF EarlyInv
<1>11. TargetInv'
  BY DEF TargetInv
<1>12. LedgerInv'
  BY DEF LedgerInv
<1>13. EndInv'
  BY DEF EndInv
<1>14. Clear({"AttachBackend", "ForwardAuthResultToClient"})
  BY ClearFor DEF GrantInv, AnswerInv
<1> QED BY <1>1, <1>2, <1>3, <1>4, <1>5, <1>6, <1>7, <1>8, <1>9, <1>10, <1>11, <1>12,
            <1>13, <1>14

\* A command is admitted, from the slot or after it was parked.
LEMMA CommandStep ==
    ASSUME Requesting,
           Redirection,
           Known,
           Around,
           fsm.state \in {"Ready", "Draining"},
           fsm'.state = "Command",
           SameFlags,
           \/ Queue = "ClientCommand" /\ Queue' = "" /\ loop'.parked = loop.parked
           \/ loop.parked = "ClientCommand" /\ loop'.parked = "" /\ Queue' = Queue,
           Redirecting' = Redirecting,
           Joins({"ForwardCommandToBackend"})
    PROVE  Requesting' /\ Redirection' /\ Clear({"ForwardCommandToBackend"})
<1> USE DEF Requesting, SameTask, SamePlace, Live, Over, Draining, Told, Resting, Serving,
            Granted, Completions, Committed, Commands, Migrated, RequestEvents, Ending,
            Working, Serves,
            Around, SameOwner, Joins, Joining
<1>1. TaskInv'
  BY DEF TaskInv
<1>2. GrantInv'
  BY DEF GrantInv, TeardownClass, QueueInv, TaskInv, Known, AwaitSets
<1>3. StateInv'
  BY DEF StateInv, Fits, QueueInv
<1>4. PhaseInv'
  BY DEF PhaseInv, QueueInv, TaskInv, StateInv, Fits, Known, AwaitSets
<1>5. QueueInv'
  BY DEF QueueInv
<1>6. AnswerInv'
  BY DEF AnswerInv, QueueInv, TaskInv
<1>7. QuietInv'
  BY DEF QuietInv, SameFlags
<1>8. MigrationInv'
  BY DEF MigrationInv, Started, Migrating, SameFlags
<1>9. Redirection'
  BY RedirectionKept DEF SameFlags
<1>10. Clear({"ForwardCommandToBackend"})
  BY ClearFor DEF GrantInv, StateInv
<1> QED BY <1>1, <1>2, <1>3, <1>4, <1>5, <1>6, <1>7, <1>8, <1>9, <1>10

\* The first packet of a longer response.
LEMMA PartStep ==
    ASSUME Requesting,
           Redirection,
           Known,
           Around,
           fsm.state \in Serving,
           fsm'.state = "Response",
           SameFlags,
           Queue = "BackendResponsePart",
           Queue' = "",
           loop'.parked = loop.parked,
           Redirecting' = Redirecting,
           Joins({"ForwardResponseToClient"})
    PROVE  Requesting' /\ Redirection' /\ Clear({"ForwardResponseToClient"})
<1> USE DEF Requesting, SameTask, SamePlace, Live, Over, Draining, Told, Resting, Serving,
            Granted, Completions, Committed, Commands, Migrated, RequestEvents, Ending,
            Working, Serves,
            Around, SameOwner, Joins, Joining
<1>1. TaskInv'
  BY DEF TaskInv
<1>2. GrantInv'
  BY DEF GrantInv, TeardownClass, QueueInv, TaskInv, Known, AwaitSets
<1>3. StateInv'
  BY DEF StateInv, Fits, QueueInv, GrantInv, TaskInv, Known, AwaitSets
<1>4. PhaseInv'
  BY DEF PhaseInv, QueueInv, TaskInv, StateInv, Fits, Known, AwaitSets
<1>5. QueueInv'
  BY DEF QueueInv
<1>6. AnswerInv'
  BY DEF AnswerInv, QueueInv, TaskInv
<1>7. QuietInv'
  BY DEF QuietInv, SameFlags
<1>8. MigrationInv'
  BY DEF MigrationInv, Started, Migrating, SameFlags
<1>9. Redirection'
  BY RedirectionKept DEF SameFlags
<1>10. Clear({"ForwardResponseToClient"})
  BY ClearFor DEF AnswerInv
<1> QED BY <1>1, <1>2, <1>3, <1>4, <1>5, <1>6, <1>7, <1>8, <1>9, <1>10

\* The end of a response, between two commands.
LEMMA AnswerStep ==
    ASSUME Requesting,
           Redirection,
           Known,
           Around,
           fsm.state \in Serving,
           fsm'.state \in {"Ready", "Draining"},
           fsm'.flags.redirect_pending = fsm.flags.redirect_pending,
           fsm'.flags.authenticated = fsm.flags.authenticated,
           Queue \in {"BackendResponseTxnOpen", "InternalResponseTxnOpen"} => fsm'.flags.in_txn,
           Queue \in {"BackendResponseErrorComplete", "InternalResponseError"} =>
               fsm'.flags.in_txn = fsm.flags.in_txn,
           Queue \in Completions,
           Queue' = "",
           loop'.parked = loop.parked,
           Redirecting' = Redirecting,
           Joins({"ForwardResponseToClient"})
    PROVE  Requesting' /\ Redirection' /\ Clear({"ForwardResponseToClient"})
<1> USE DEF Requesting, SameTask, SamePlace, Live, Over, Draining, Told, Resting, Serving,
            Granted, Completions, Committed, Commands, Migrated, RequestEvents, Ending,
            Working, Serves,
            Around, SameOwner, Joins, Joining
<1>1. TaskInv'
  BY DEF TaskInv
<1>2. GrantInv'
  BY DEF GrantInv, TeardownClass, QueueInv, TaskInv, Known, AwaitSets
<1>3. StateInv'
  BY DEF StateInv, Fits, QueueInv, GrantInv, TaskInv, Known, AwaitSets
<1>4. PhaseInv'
  BY DEF PhaseInv, QueueInv, TaskInv, GrantInv, StateInv, Fits, Known, AwaitSets
<1>5. QueueInv'
  BY DEF QueueInv
<1>6. AnswerInv'
  BY DEF AnswerInv, QueueInv, TaskInv
<1>7. QuietInv'
  BY DEF QuietInv, QueueInv
<1>8. MigrationInv'
  BY DEF MigrationInv, Started, Migrating
<1>9. Redirection'
  BY RedirectionKept DEF Redirection, EarlyInv
<1>10. Clear({"ForwardResponseToClient"})
  BY ClearFor DEF AnswerInv
<1> QED BY <1>1, <1>2, <1>3, <1>4, <1>5, <1>6, <1>7, <1>8, <1>9, <1>10

\* The end of a response, and a redirect that waited for it.
LEMMA AnswerStartStep ==
    ASSUME Requesting,
           Redirection,
           Known,
           Around,
           fsm.state \in Serving,
           fsm'.state = "RedirectPending",
           fsm.flags.redirect_pending,
           fsm'.flags.redirect_pending = fsm.flags.redirect_pending,
           fsm'.flags.authenticated = fsm.flags.authenticated,
           Queue \in {"BackendResponseTxnOpen", "InternalResponseTxnOpen"} => fsm'.flags.in_txn,
           Queue \in {"BackendResponseErrorComplete", "InternalResponseError"} =>
               fsm'.flags.in_txn = fsm.flags.in_txn,
           Queue \in Completions,
           Queue' = "",
           loop'.parked = loop.parked,
           Redirecting' = Redirecting,
           Joins({"ForwardResponseToClient", "StartRedirectHandshake"})
    PROVE  Requesting' /\ Redirection' /\ Clear({"ForwardResponseToClient", "StartRedirectHandshake"})
<1> USE DEF Requesting, SameTask, SamePlace, Live, Over, Draining, Told, Resting, Serving,
            Granted, Completions, Committed, Commands, Migrated, RequestEvents, Ending,
            Working, Serves,
            Around, SameOwner, Joins, Joining
<1>1. TaskInv'
  BY DEF TaskInv
<1>2. GrantInv'
  BY DEF GrantInv, TeardownClass, QueueInv, TaskInv, Known, AwaitSets
<1>3. StateInv'
  BY DEF StateInv, Fits, QueueInv, GrantInv, TaskInv, Known, AwaitSets
<1>4. PhaseInv'
  BY DEF PhaseInv, QueueInv, TaskInv, GrantInv, StateInv, Fits, Known, AwaitSets
<1>5. QueueInv'
  BY DEF QueueInv
<1>6. AnswerInv'
  BY DEF AnswerInv, QueueInv, TaskInv
<1>7. QuietInv'
  BY DEF QuietInv, QueueInv
<1>8. MigrationInv'
  BY DEF MigrationInv, Started, Migrating, TokenInv, Redirection, Answering, Noticed
<1>9. Redirection'
  BY RedirectionKept DEF Redirection, EarlyInv
<1>10. Clear({"ForwardResponseToClient", "StartRedirectHandshake"})
  BY ClearFor DEF AnswerInv, MigrationInv, Started, TokenInv, Redirection, Answering, Noticed
<1> QED BY <1>1, <1>2, <1>3, <1>4, <1>5, <1>6, <1>7, <1>8, <1>9, <1>10

\* The end of the internal COMMIT.
LEMMA CommitStep ==
    ASSUME Requesting,
           Redirection,
           Known,
           Around,
           fsm.state = "Command",
           fsm'.state \in {"Ready", "Draining"},
           fsm'.flags.redirect_pending = fsm.flags.redirect_pending,
           fsm'.flags.authenticated = fsm.flags.authenticated,
           Queue \in {"BackendResponseTxnOpen", "InternalResponseTxnOpen"} => fsm'.flags.in_txn,
           Queue \in {"BackendResponseErrorComplete", "InternalResponseError"} =>
               fsm'.flags.in_txn = fsm.flags.in_txn,
           Queue \in Committed \union {"InternalResponseError"},
           Queue' = "",
           loop'.parked = loop.parked,
           Redirecting' = Redirecting,
           Joins({})
    PROVE  Requesting' /\ Redirection' /\ Clear({})
<1> USE DEF Requesting, SameTask, SamePlace, Live, Over, Draining, Told, Resting, Serving,
            Granted, Completions, Committed, Commands, Migrated, RequestEvents, Ending,
            Working, Serves,
            Around, SameOwner, Joins, Joining
<1>1. TaskInv'
  BY DEF TaskInv
<1>2. GrantInv'
  BY DEF GrantInv, TeardownClass, QueueInv, TaskInv, Known, AwaitSets
<1>3. StateInv'
  BY DEF StateInv, Fits, QueueInv, GrantInv, TaskInv, Known, AwaitSets
<1>4. PhaseInv'
  BY DEF PhaseInv, QueueInv, TaskInv, GrantInv, StateInv, Fits, Known, AwaitSets
<1>5. QueueInv'
  BY DEF QueueInv
<1>6. AnswerInv'
  BY DEF AnswerInv, QueueInv, TaskInv
<1>7. QuietInv'
  BY DEF QuietInv, QueueInv
<1>8. MigrationInv'
  BY DEF MigrationInv, Started, Migrating
<1>9. Redirection'
  BY RedirectionKept DEF Redirection, EarlyInv
<1>10. Clear({})
  BY ClearFor DEF AnswerInv
<1> QED BY <1>1, <1>2, <1>3, <1>4, <1>5, <1>6, <1>7, <1>8, <1>9, <1>10

\* A COMMIT that left the transaction open lets the held request go.
LEMMA ResumeStep ==
    ASSUME Requesting,
           Redirection,
           Known,
           Around,
           fsm.state = "Command",
           fsm'.state \in {"Ready", "Draining"},
           fsm'.flags.redirect_pending = fsm.flags.redirect_pending,
           fsm'.flags.authenticated = fsm.flags.authenticated,
           Queue \in {"BackendResponseTxnOpen", "InternalResponseTxnOpen"} => fsm'.flags.in_txn,
           Queue \in {"BackendResponseErrorComplete", "InternalResponseError"} =>
               fsm'.flags.in_txn = fsm.flags.in_txn,
           Queue \in Committed,
           Queue' = "",
           loop'.parked = loop.parked,
           Redirecting' = Redirecting,
           Joins({"ResumeHeldRequest"})
    PROVE  Requesting' /\ Redirection' /\ Clear({"ResumeHeldRequest"})
<1> USE DEF Requesting, SameTask, SamePlace, Live, Over, Draining, Told, Resting, Serving,
            Granted, Completions, Committed, Commands, Migrated, RequestEvents, Ending,
            Working, Serves,
            Around, SameOwner, Joins, Joining
<1>1. TaskInv'
  BY DEF TaskInv
<1>2. GrantInv'
  BY DEF GrantInv, TeardownClass, QueueInv, TaskInv, Known, AwaitSets
<1>3. StateInv'
  BY DEF StateInv, Fits, QueueInv, GrantInv, TaskInv, Known, AwaitSets
<1>4. PhaseInv'
  BY DEF PhaseInv, QueueInv, TaskInv, GrantInv, StateInv, Fits, Known, AwaitSets
<1>5. QueueInv'
  BY DEF QueueInv
<1>6. AnswerInv'
  BY DEF AnswerInv, QueueInv, TaskInv
<1>7. QuietInv'
  BY DEF QuietInv, QueueInv
<1>8. MigrationInv'
  BY DEF MigrationInv, Started, Migrating
<1>9. Redirection'
  BY RedirectionKept DEF Redirection, EarlyInv
<1>10. Clear({"ResumeHeldRequest"})
  BY ClearFor DEF QueueInv, GrantInv, TaskInv
<1> QED BY <1>1, <1>2, <1>3, <1>4, <1>5, <1>6, <1>7, <1>8, <1>9, <1>10

\* The COMMIT was what a redirect waited for.
LEMMA CommitStartStep ==
    ASSUME Requesting,
           Redirection,
           Known,
           Around,
           fsm.state = "Command",
           fsm'.state = "RedirectPending",
           fsm.flags.redirect_pending,
           fsm'.flags.redirect_pending = fsm.flags.redirect_pending,
           fsm'.flags.authenticated = fsm.flags.authenticated,
           Queue \in {"BackendResponseTxnOpen", "InternalResponseTxnOpen"} => fsm'.flags.in_txn,
           Queue \in {"BackendResponseErrorComplete", "InternalResponseError"} =>
               fsm'.flags.in_txn = fsm.flags.in_txn,
           Queue \in Committed \union {"InternalResponseError"},
           Queue' = "",
           loop'.parked = loop.parked,
           Redirecting' = Redirecting,
           Joins({"StartRedirectHandshake"})
    PROVE  Requesting' /\ Redirection' /\ Clear({"StartRedirectHandshake"})
<1> USE DEF Requesting, SameTask, SamePlace, Live, Over, Draining, Told, Resting, Serving,
            Granted, Completions, Committed, Commands, Migrated, RequestEvents, Ending,
            Working, Serves,
            Around, SameOwner, Joins, Joining
<1>1. TaskInv'
  BY DEF TaskInv
<1>2. GrantInv'
  BY DEF GrantInv, TeardownClass, QueueInv, TaskInv, Known, AwaitSets
<1>3. StateInv'
  BY DEF StateInv, Fits, QueueInv, GrantInv, TaskInv, Known, AwaitSets
<1>4. PhaseInv'
  BY DEF PhaseInv, QueueInv, TaskInv, GrantInv, StateInv, Fits, Known, AwaitSets
<1>5. QueueInv'
  BY DEF QueueInv
<1>6. AnswerInv'
  BY DEF AnswerInv, QueueInv, TaskInv
<1>7. QuietInv'
  BY DEF QuietInv, QueueInv
<1>8. MigrationInv'
  BY DEF MigrationInv, Started, Migrating, TokenInv, Redirection, Answering, Noticed
<1>9. Redirection'
  BY RedirectionKept DEF Redirection, EarlyInv
<1>10. Clear({"StartRedirectHandshake"})
  BY ClearFor DEF MigrationInv, Started, TokenInv, Redirection, Answering, Noticed
<1> QED BY <1>1, <1>2, <1>3, <1>4, <1>5, <1>6, <1>7, <1>8, <1>9, <1>10

\* The candidate is ready: the backend is exchanged.
LEMMA SwapStep ==
    ASSUME Requesting,
           Redirection,
           Known,
           Around,
           fsm.state = "RedirectPending",
           fsm'.state = "Ready",
           ~fsm'.flags.redirect_pending,
           fsm'.flags.authenticated = fsm.flags.authenticated,
           fsm'.flags.in_txn = fsm.flags.in_txn,
           Queue = "RedirectBackendReady",
           Queue' = "",
           loop'.parked = loop.parked,
           Redirecting' = Redirecting,
           Joins({"SwapBackend", "NotifyRedirectSucceeded", "ResumeHeldRequest"})
    PROVE  Requesting' /\ Redirection' /\ Clear({"SwapBackend", "NotifyRedirectSucceeded", "ResumeHeldRequest"})
<1> USE DEF Requesting, SameTask, SamePlace, Live, Over, Draining, Told, Resting, Serving,
            Granted, Completions, Committed, Commands, Migrated, RequestEvents, Ending,
            Working, Serves,
            Redirection, SameOwner, Ordered, Noticed, Announced, Answering, Owning, Swapped,
            Steering, Aimless,
            Around, SameOwner, Joins, Joining
<1>1. TaskInv'
  BY DEF TaskInv
<1>2. GrantInv'
  BY ZenonT(40) DEF GrantInv, TeardownClass, QueueInv, TaskInv, Known, AwaitSets
<1>3. StateInv'
  BY DEF StateInv, Fits, QueueInv, GrantInv, TaskInv, Known, AwaitSets
<1>4. PhaseInv'
  BY DEF PhaseInv, QueueInv, TaskInv, GrantInv, StateInv, Fits, Known, AwaitSets
<1>5. QueueInv'
  BY DEF QueueInv
<1>6. AnswerInv'
  BY DEF AnswerInv, QueueInv, TaskInv
<1>7. QuietInv'
  BY DEF QuietInv, QueueInv, Known, PhaseInv, StateInv, Fits, MigrationInv, TaskInv
<1>8. MigrationInv'
  BY DEF MigrationInv, Started, Migrating, TokenInv, Redirection, Known
<1>9. TokenInv'
  BY DEF TokenInv, Known
<1>10. EarlyInv'
  BY DEF EarlyInv
<1>11. TargetInv'
  BY DEF TargetInv, MigrationInv, TokenInv, Known, Started, Migrating
<1>12. LedgerInv'
  BY DEF LedgerInv, TokenInv, Known, MigrationInv
<1>13. EndInv'
  BY DEF EndInv
<1>14. Clear({"SwapBackend", "NotifyRedirectSucceeded", "ResumeHeldRequest"})
  BY ClearFor DEF TokenInv, Redirection, Answering, Noticed, MigrationInv, StateInv, Known
<1> QED BY <1>1, <1>2, <1>3, <1>4, <1>5, <1>6, <1>7, <1>8, <1>9, <1>10, <1>11, <1>12,
            <1>13, <1>14

\* The migration failed.
LEMMA FailStep ==
    ASSUME Requesting,
           Redirection,
           Known,
           Around,
           fsm.state = "RedirectPending",
           fsm'.state = "Ready",
           ~fsm'.flags.redirect_pending,
           fsm'.flags.authenticated = fsm.flags.authenticated,
           fsm'.flags.in_txn = fsm.flags.in_txn,
           Queue = "RedirectBackendFailed",
           Queue' = "",
           loop'.parked = loop.parked,
           Redirecting' = Redirecting,
           Joins({"NotifyRedirectFailed", "ResumeHeldRequest"})
    PROVE  Requesting' /\ Redirection' /\ Clear({"NotifyRedirectFailed", "ResumeHeldRequest"})
<1> USE DEF Requesting, SameTask, SamePlace, Live, Over, Draining, Told, Resting, Serving,
            Granted, Completions, Committed, Commands, Migrated, RequestEvents, Ending,
            Working, Serves,
            Redirection, SameOwner, Ordered, Noticed, Announced, Answering, Owning, Swapped,
            Steering, Aimless,
            Around, SameOwner, Joins, Joining
<1>1. TaskInv'
  BY DEF TaskInv
<1>2. GrantInv'
  BY ZenonT(40) DEF GrantInv, TeardownClass, QueueInv, TaskInv, Known, AwaitSets
<1>3. StateInv'
  BY DEF StateInv, Fits, QueueInv, GrantInv, TaskInv, Known, AwaitSets
<1>4. PhaseInv'
  BY DEF PhaseInv, QueueInv, TaskInv, GrantInv, StateInv, Fits, Known, AwaitSets
<1>5. QueueInv'
  BY DEF QueueInv
<1>6. AnswerInv'
  BY DEF AnswerInv, QueueInv, TaskInv
<1>7. QuietInv'
  BY DEF QuietInv, QueueInv, Known, PhaseInv, StateInv, Fits, MigrationInv
<1>8. MigrationInv'
  BY DEF MigrationInv, Started, Migrating, TokenInv, Redirection, Known
<1>9. TokenInv'
  BY DEF TokenInv, Known
<1>10. EarlyInv'
  BY DEF EarlyInv
<1>11. TargetInv'
  BY DEF TargetInv, MigrationInv, TokenInv, Known
<1>12. LedgerInv'
  BY DEF LedgerInv, TokenInv, Known, MigrationInv
<1>13. EndInv'
  BY DEF EndInv
<1>14. Clear({"NotifyRedirectFailed", "ResumeHeldRequest"})
  BY ClearFor DEF TokenInv, Redirection, Answering, Noticed, MigrationInv, StateInv, Known
<1> QED BY <1>1, <1>2, <1>3, <1>4, <1>5, <1>6, <1>7, <1>8, <1>9, <1>10, <1>11, <1>12,
            <1>13, <1>14

\* A redirect starts between two commands.
LEMMA RedirectStartStep ==
    ASSUME Requesting,
           Redirection,
           Known,
           Around,
           fsm.state = "Ready",
           fsm'.state = "RedirectPending",
           fsm'.flags.redirect_pending,
           Redirecting,
           ~Redirecting',
           Queue' = Queue,
           loop'.parked = loop.parked,
           fsm'.flags.authenticated = fsm.flags.authenticated,
           fsm'.flags.in_txn = fsm.flags.in_txn,
           Joins({"StartRedirectHandshake"})
    PROVE  Requesting' /\ Redirection' /\ Clear({"StartRedirectHandshake"})
<1> USE DEF Requesting, SameTask, SamePlace, Live, Over, Draining, Told, Resting, Serving,
            Granted, Completions, Committed, Commands, Migrated, RequestEvents, Ending,
            Working, Serves,
            Redirection, SameOwner, Ordered, Noticed, Announced, Answering, Owning, Swapped,
            Steering, Aimless,
            Around, SameOwner, Joins, Joining
<1>1. TaskInv'
  BY DEF TaskInv
<1>2. GrantInv'
  BY DEF GrantInv, TeardownClass, QueueInv, TaskInv, Known, AwaitSets
<1>3. StateInv'
  BY DEF StateInv, Fits, QueueInv, GrantInv, TaskInv, Known, AwaitSets
<1>4. PhaseInv'
  BY DEF PhaseInv, QueueInv, TaskInv, GrantInv, StateInv, Fits, Known, AwaitSets
<1>5. QueueInv'
  BY DEF QueueInv
<1>6. AnswerInv'
  BY DEF AnswerInv, QueueInv, TaskInv
<1>7. QuietInv'
  BY DEF QuietInv, QueueInv
<1>8. MigrationInv'
  BY DEF MigrationInv, Started, Migrating, TokenInv, Redirection
<1>9. TokenInv'
  BY DEF TokenInv
<1>10. EarlyInv'
  BY DEF EarlyInv
<1>11. TargetInv'
  BY DEF TargetInv
<1>12. LedgerInv'
  BY DEF LedgerInv
<1>13. EndInv'
  BY DEF EndInv
<1>14. Clear({"StartRedirectHandshake"})
  BY ClearFor DEF TokenInv, Redirection, Answering, Noticed, MigrationInv, Started
<1> QED BY <1>1, <1>2, <1>3, <1>4, <1>5, <1>6, <1>7, <1>8, <1>9, <1>10, <1>11, <1>12,
            <1>13, <1>14

\* A redirect waits for the end of a command.
LEMMA RedirectQueueStep ==
    ASSUME Requesting,
           Redirection,
           Known,
           Around,
           fsm.state \in {"Ready", "Command", "Response"},
           fsm'.state = fsm.state,
           fsm'.flags.redirect_pending,
           Redirecting,
           ~Redirecting',
           Queue' = Queue,
           loop'.parked = loop.parked,
           fsm'.flags.authenticated = fsm.flags.authenticated,
           fsm'.flags.in_txn = fsm.flags.in_txn,
           Joins({})
    PROVE  Requesting' /\ Redirection' /\ Clear({})
<1> USE DEF Requesting, SameTask, SamePlace, Live, Over, Draining, Told, Resting, Serving,
            Granted, Completions, Committed, Commands, Migrated, RequestEvents, Ending,
            Working, Serves,
            Redirection, SameOwner, Ordered, Noticed, Announced, Answering, Owning, Swapped,
            Steering, Aimless,
            Around, SameOwner, Joins, Joining
<1>1. TaskInv'
  BY DEF TaskInv
<1>2. GrantInv'
  BY DEF GrantInv, TeardownClass, QueueInv, TaskInv, Known, AwaitSets
<1>3. StateInv'
  BY DEF StateInv, Fits, QueueInv, GrantInv, TaskInv, Known, AwaitSets
<1>4. PhaseInv'
  BY DEF PhaseInv
<1>5. QueueInv'
  BY DEF QueueInv
<1>6. AnswerInv'
  BY DEF AnswerInv, QueueInv, TaskInv
<1>7. QuietInv'
  BY DEF QuietInv, QueueInv
<1>8. MigrationInv'
  BY DEF MigrationInv, Started, Migrating, TokenInv, Redirection
<1>9. TokenInv'
  BY DEF TokenInv
<1>10. EarlyInv'
  BY DEF EarlyInv
<1>11. TargetInv'
  BY DEF TargetInv
<1>12. LedgerInv'
  BY DEF LedgerInv
<1>13. EndInv'
  BY DEF EndInv
<1>14. Clear({})
  BY ClearFor DEF TokenInv
<1> QED BY <1>1, <1>2, <1>3, <1>4, <1>5, <1>6, <1>7, <1>8, <1>9, <1>10, <1>11, <1>12,
            <1>13, <1>14

\* A session that drains refuses the redirect.
LEMMA RedirectRefusedStep ==
    ASSUME Requesting,
           Redirection,
           Known,
           Around,
           fsm.state = "Draining",
           fsm'.state = fsm.state,
           fsm'.flags.redirect_pending = fsm.flags.redirect_pending,
           Redirecting,
           ~Redirecting',
           Queue' = Queue,
           loop'.parked = loop.parked,
           fsm'.flags.authenticated = fsm.flags.authenticated,
           fsm'.flags.in_txn = fsm.flags.in_txn,
           Joins({"NotifyRedirectFailed"})
    PROVE  Requesting' /\ Redirection' /\ Clear({"NotifyRedirectFailed"})
<1> USE DEF Requesting, SameTask, SamePlace, Live, Over, Draining, Told, Resting, Serving,
            Granted, Completions, Committed, Commands, Migrated, RequestEvents, Ending,
            Working, Serves,
            Redirection, SameOwner, Ordered, Noticed, Announced, Answering, Owning, Swapped,
            Steering, Aimless,
            Around, SameOwner, Joins, Joining
<1>1. TaskInv'
  BY DEF TaskInv
<1>2. GrantInv'
  BY ZenonT(40) DEF GrantInv, TeardownClass, QueueInv, TaskInv, Known, AwaitSets
<1>3. StateInv'
  BY DEF StateInv, Fits, QueueInv, GrantInv, TaskInv, Known, AwaitSets
<1>4. PhaseInv'
  BY DEF PhaseInv, QueueInv, TaskInv, GrantInv, StateInv, Fits, Known, AwaitSets
<1>5. QueueInv'
  BY DEF QueueInv
<1>6. AnswerInv'
  BY DEF AnswerInv, QueueInv, TaskInv
<1>7. QuietInv'
  BY DEF QuietInv, QueueInv
<1>8. MigrationInv'
  BY DEF MigrationInv, Started, Migrating, TokenInv, Redirection
<1>9. TokenInv'
  BY DEF TokenInv
<1>10. EarlyInv'
  BY DEF EarlyInv
<1>11. TargetInv'
  BY DEF TargetInv
<1>12. LedgerInv'
  BY DEF LedgerInv
<1>13. EndInv'
  BY DEF EndInv
<1>14. Clear({"NotifyRedirectFailed"})
  BY ClearFor DEF TokenInv, Redirection, Answering, Noticed
<1> QED BY <1>1, <1>2, <1>3, <1>4, <1>5, <1>6, <1>7, <1>8, <1>9, <1>10, <1>11, <1>12,
            <1>13, <1>14

\* A graceful close waits, and its timer starts.
LEMMA DrainStep ==
    ASSUME Requesting,
           Redirection,
           Known,
           Around,
           \/ fsm.state = "Ready" /\ fsm'.state = "Draining"
           \/ fsm.state \in Serving /\ fsm'.state = fsm.state,
           SameFlags,
           Queue' = Queue,
           loop'.parked = loop.parked,
           Redirecting' = Redirecting,
           Joins({"BeginDrainTimer"})
    PROVE  Requesting' /\ Redirection' /\ Clear({"BeginDrainTimer"})
<1> USE DEF Requesting, SameTask, SamePlace, Live, Over, Draining, Told, Resting, Serving,
            Granted, Completions, Committed, Commands, Migrated, RequestEvents, Ending,
            Working, Serves,
            Around, SameOwner, Joins, Joining
<1>1. TaskInv'
  BY DEF TaskInv
<1>2. GrantInv'
  BY ZenonT(40) DEF GrantInv, TeardownClass, QueueInv, TaskInv, Known, AwaitSets
<1>3. StateInv'
  BY ZenonT(40) DEF StateInv, Fits, QueueInv, GrantInv, TaskInv, Known, AwaitSets
<1>4. PhaseInv'
  BY DEF PhaseInv
<1>5. QueueInv'
  BY DEF QueueInv
<1>6. AnswerInv'
  BY DEF AnswerInv, QueueInv, TaskInv
<1>7. QuietInv'
  BY DEF QuietInv, QueueInv, SameFlags
<1>8. MigrationInv'
  BY DEF MigrationInv, Started, Migrating, SameFlags
<1>9. Redirection'
  BY RedirectionKept DEF Redirection, EarlyInv, SameFlags
<1>10. Clear({"BeginDrainTimer"})
  BY ClearFor DEF TokenInv
<1> QED BY <1>1, <1>2, <1>3, <1>4, <1>5, <1>6, <1>7, <1>8, <1>9, <1>10

\* The last effects of a session find the wire ready for them.
LEMMA ClosingClear ==
    ASSUME Requesting, Redirection, Known, Live, NEW X,
           \A x \in X : x = "ForwardAuthResultToClient" \/ x = "ForwardResponseToClient",
           \A x \in X : x \notin Afloat
    PROVE  Clear(X \union Fsm!LastEffects(fsm.flags))
<1> DEFINE Y == X \union Fsm!LastEffects(fsm.flags)
<1>1. /\ \A y \in Y : y \in X \/ y \in {"NotifyRedirectFailed", "ReleaseBackend", "CloseBackend",
                             "CloseClient", "ClassifySessionEnd"}
      /\ "NotifyRedirectFailed" \in Y => fsm.flags.redirect_pending
  BY DEF Fsm!LastEffects
<1>2. fsm.flags.redirect_pending => ~Noticed
  BY DEF Redirection, TokenInv, Answering
<1> HIDE DEF Y
<1>3. Clear(Y)
  <2>1. \A y \in Y : y \in {"ForwardAuthResultToClient", "ForwardResponseToClient",
                            "NotifyRedirectFailed", "ReleaseBackend", "CloseBackend",
                            "CloseClient", "ClassifySessionEnd"}
    BY <1>1
  <2>2. /\ "ForwardAuthResultToClient" \in Y => "ForwardAuthResultToClient" \notin Afloat
        /\ "ForwardResponseToClient" \in Y => "ForwardResponseToClient" \notin Afloat
    BY <1>1
  <2>3. /\ "ForwardHandshakeToBackend" \notin Y /\ "AttachBackend" \notin Y
        /\ "ForwardCommandToBackend" \notin Y /\ "NotifyRedirectSucceeded" \notin Y
        /\ "StartRedirectHandshake" \notin Y /\ "SwapBackend" \notin Y
        /\ "ResumeHeldRequest" \notin Y
    BY <2>1
  <2> QED BY <1>1, <1>2, <2>2, <2>3, ClearFor
<1> QED BY <1>3 DEF Y

\* A step that the invariant does not see.
LEMMA UnseenStep ==
    ASSUME Requesting, Redirection, fsm' = fsm, Queue' = Queue, loop'.parked = loop.parked,
           SameTask, SamePlace, SameOwner, Afloat' = Afloat, Prepared' = Prepared,
           server' = server, Redirecting' = Redirecting, loop'.terminal = loop.terminal,
           loop'.pc = "ended" <=> loop.pc = "ended"
    PROVE  Requesting' /\ Redirection'
<1>1. Requesting'
  BY RequestingKept DEF SameOwner
<1>2. Live' = Live
  BY DEF Live
<1>3. fsm.flags.authenticated /\ Live => fsm'.state \in Resting \union Serving
  BY DEF Redirection, EarlyInv
<1>4. Redirection'
  BY <1>2, <1>3, RedirectionKept DEF SameTask, SamePlace
<1> QED BY <1>1, <1>4

\* A redirect that comes before the session is authenticated is dropped.
LEMMA DroppedStep ==
    ASSUME Requesting, Redirection, fsm' = fsm, Queue' = Queue, loop'.parked = loop.parked,
           SameTask, SamePlace, SameOwner, Afloat' = Afloat, Prepared' = Prepared,
           server' = server, ~Redirecting', loop'.terminal = loop.terminal,
           bounds.early, loop'.pc # "ended", loop.pc # "ended"
    PROVE  Requesting' /\ Redirection'
<1>0. Requesting'
  BY RequestingKept DEF SameOwner
<1> USE DEF Redirection, SameOwner, SameTask, SamePlace, Ordered, Noticed, Announced, Answering,
            Owning, Swapped, Steering, Aimless, Live
<1>1. TokenInv'
  BY DEF TokenInv
<1>2. EarlyInv'
  BY DEF EarlyInv
<1>3. TargetInv'
  BY DEF TargetInv
<1>4. LedgerInv'
  BY DEF LedgerInv
<1>5. EndInv'
  BY DEF EndInv
<1> QED BY <1>0, <1>1, <1>2, <1>3, <1>4, <1>5

\* A command is parked while a migration is under way.
LEMMA ParkStep ==
    ASSUME Requesting,
           Redirection,
           Known,
           Around,
           fsm' = fsm,
           fsm.state = "RedirectPending",
           Queue \in Commands,
           loop'.parked = Queue,
           Queue' = "",
           Afloat' = Afloat,
           Redirecting' = Redirecting
    PROVE  Requesting' /\ Redirection'
<1> USE DEF Requesting, SameTask, SamePlace, Live, Over, Draining, Told, Resting, Serving,
            Granted, Completions, Committed, Commands, Migrated, RequestEvents, Ending,
            Working, Serves,
            Around, SameOwner
<1>1. TaskInv'
  BY DEF TaskInv
<1>2. GrantInv'
  BY DEF GrantInv, TeardownClass
<1>3. StateInv'
  BY DEF StateInv, Fits
<1>4. PhaseInv'
  BY DEF PhaseInv, TaskInv, QueueInv
<1>5. QueueInv'
  BY DEF QueueInv, TaskInv
<1>6. AnswerInv'
  BY DEF AnswerInv, QueueInv, StateInv
<1>7. QuietInv'
  BY DEF QuietInv
<1>8. MigrationInv'
  BY DEF MigrationInv, Started, Migrating
<1>9. Redirection'
  BY RedirectionKept DEF Redirection, EarlyInv
<1> QED BY <1>1, <1>2, <1>3, <1>4, <1>5, <1>6, <1>7, <1>8, <1>9

\* The teardown is complete.
LEMMA TeardownStep ==
    ASSUME Requesting,
           Redirection,
           Known,
           SameTask,
           SamePlace,
           SameOwner,
           server' = server,
           Afloat' = Afloat,
           Prepared' = Prepared,
           ~Live,
           ~Live',
           fsm'.flags = fsm.flags,
           Queue' = "",
           ~Redirecting',
           loop'.pc = "ended"
    PROVE  Requesting' /\ Redirection'
<1> USE DEF Requesting, SameTask, SamePlace, Live, Over, Draining, Told, Resting, Serving,
            Granted, Completions, Committed, Commands, Migrated, RequestEvents, Ending,
            Working, Serves,
            Redirection, SameOwner, Ordered, Noticed, Announced, Answering, Owning, Swapped,
            Steering, Aimless,
            SameOwner
<1>1. TaskInv'
  BY DEF TaskInv
<1>2. GrantInv'
  BY DEF GrantInv, TeardownClass
<1>3. StateInv'
  BY DEF StateInv, Fits
<1>4. PhaseInv'
  BY DEF PhaseInv
<1>5. QueueInv'
  BY DEF QueueInv
<1>6. AnswerInv'
  BY DEF AnswerInv
<1>7. QuietInv'
  BY DEF QuietInv
<1>8. MigrationInv'
  BY DEF MigrationInv, Started, Migrating, Known
<1>9. TokenInv'
  BY DEF TokenInv, Known
<1>10. EarlyInv'
  BY DEF EarlyInv, Known
<1>11. TargetInv'
  BY DEF TargetInv
<1>12. LedgerInv'
  BY DEF LedgerInv
<1>13. EndInv'
  BY DEF EndInv
<1> QED BY <1>1, <1>2, <1>3, <1>4, <1>5, <1>6, <1>7, <1>8, <1>9, <1>10, <1>11, <1>12,
            <1>13

-----------------------------------------------------------------------------
(* The loop takes an event *)

\* The loop has applied the outcome o.
Took(o) ==
    /\ fsm' = o.fsm /\ loop'.out = o.effects /\ o.effects \in EffectSeqs /\ loop.out = <<>>
    /\ UNCHANGED <<cmds, engine, owner, route, inbox, reports, server, bounds>>
    /\ loop.pc # "ended" /\ loop'.pc # "ended"

Outcome == Requesting' /\ Redirection' /\ WireOrder'

LEMMA ViewsKept ==
    ASSUME UNCHANGED <<engine, owner, route, inbox, reports, bounds>>
    PROVE  /\ SameTask /\ SamePlace /\ SameOwner
           /\ Listed' = Listed /\ OneReport' = OneReport /\ OneOffer' = OneOffer
<1>1. SameTask /\ Listed' = Listed
  BY TaskKept DEF SameTask
<1>2. SamePlace /\ OneReport' = OneReport /\ OneOffer' = OneOffer
  BY DEF SamePlace, OneReport, OneOffer, Owning
<1>3. Redirects' = Redirects
  BY DomainsKept
<1>4. SameOwner
  BY <1>3 DEF SameOwner, Offered, Reported
<1> QED BY <1>1, <1>2, <1>4

LEMMA TookViews ==
    ASSUME NEW o, Took(o), Ordering
    PROVE  /\ SameTask /\ SamePlace /\ SameOwner /\ server' = server
           /\ Prepared' = Prepared /\ PrepareOrder'
           /\ Listed' /\ OneReport' /\ OneOffer'
           /\ loop.pc # "ended" /\ loop'.pc # "ended"
<1>1. /\ SameTask /\ SamePlace /\ SameOwner
      /\ Listed' = Listed /\ OneReport' = OneReport /\ OneOffer' = OneOffer
  BY ViewsKept DEF Took
<1>2. Prepared' = Prepared /\ (PrepareOrder => PrepareOrder')
  BY WireApplied DEF Took, EffectSeqs
<1> QED BY <1>1, <1>2 DEF Took, Ordering

LEMMA TookJoins ==
    ASSUME NEW o, NEW X, Took(o), Ordering, Fsm!Yields(o, X)
    PROVE  Joins(X) /\ (Clear(X) => WireOrder')
<1>1. /\ \A x : x \in Afloat' <=> x \in Afloat \/ Fsm!Emits(loop'.out, x)
      /\ (/\ WireOrder
          /\ Fsm!WellOrdered(loop'.out)
          /\ \A p \in Fsm!Pairs : Fsm!Emits(loop'.out, p[1]) => p[2] \notin Afloat)
         => WireOrder'
  BY WireApplied DEF Took, EffectSeqs
<1>2. loop'.out = o.effects
  BY DEF Took
<1>3. Fsm!WellOrdered(loop'.out) /\ \A x : Fsm!Emits(loop'.out, x) <=> x \in X
  BY <1>2 DEF Fsm!Yields
<1>4. Joins(X)
  BY <1>1, <1>3 DEF Joins, Joining
<1>5. Clear(X) => WireOrder'
  BY <1>1, <1>3 DEF Clear, Ordering
<1> QED BY <1>4, <1>5

\* The invariant, and a machine it knows.
Steady == Shapes /\ Ordering /\ Requesting /\ Redirection

LEMMA SteadyKnown ==
    ASSUME Steady
    PROVE  /\ Known /\ Requesting /\ Redirection /\ Ordering
           /\ fsm \in Fsm!Machines
           /\ \A e : Machine!OnEvent(fsm, e) = Fsm!OnEvent(fsm, e)
<1>1. Known
  BY KnownHolds DEF Steady, Ordering
<1> QED BY <1>1, SameMachine DEF Steady, Shapes

\* Whatever ends the session.
LEMMA EndTaken ==
    ASSUME Steady, NEW o, Took(o), Live, NEW X, Fsm!Ends(fsm.flags, o, X),
           \A x \in X : x = "ForwardAuthResultToClient" \/ x = "ForwardResponseToClient",
           \A x \in X : Over \/ (x \in Awaited /\ TaskOp # "send" /\ "AttachBackend" \notin Awaited),
           \A x \in X : x \notin Afloat,
           Queue' \in {Queue, ""}, Redirecting' = Redirecting
    PROVE  Outcome
<1> DEFINE Y == X \union Fsm!LastEffects(fsm.flags)
<1>1. Known /\ Requesting /\ Redirection /\ Ordering
  BY SteadyKnown
<1>2. /\ fsm'.state = "Closing" /\ ~fsm'.flags.redirect_pending
      /\ fsm'.flags.authenticated = fsm.flags.authenticated
      /\ Fsm!Yields(o, Y)
  BY DEF Fsm!Ends, Took
<1>3. /\ SameTask /\ SamePlace /\ SameOwner /\ server' = server /\ Prepared' = Prepared
      /\ loop.pc # "ended" /\ loop'.pc # "ended"
  BY <1>1, TookViews
<1>4. Joins(Y) /\ (Clear(Y) => WireOrder')
  BY <1>1, <1>2, TookJoins
<1>5. Clear(Y)
  BY <1>1, ClosingClear
<1>6. Requesting' /\ Redirection'
  BY <1>1, <1>2, <1>3, <1>4, ClosingStep
<1> QED BY <1>4, <1>5, <1>6 DEF Outcome

\* The loop takes an event out of its slot.
SlotTaken == /\ Queue' = "" /\ loop'.parked = loop.parked /\ loop'.terminal = loop.terminal
             /\ Redirecting' = Redirecting

\* The state in which an event of the engine finds the machine.
LEMMA EventFits ==
    ASSUME Requesting, Known, Live
    PROVE  /\ fsm.state \in {"FrontendHandshake", "BackendHandshake"} \union Resting \union Serving
           /\ Queue = "BackendGreetingReceived" => fsm.state = "FrontendHandshake"
           /\ Queue \in {"BackendAuthOk", "BackendAuthFailed"} => fsm.state = "BackendHandshake"
           /\ Queue \in Commands => fsm.state \in Resting
           /\ Queue \in Commands /\ fsm.state = "RedirectPending" => loop.parked = ""
           /\ Queue = "BackendResponsePart" => fsm.state \in Serving
           /\ Queue \in Completions => fsm.state \in Serving
           /\ Queue \in Committed \union {"InternalResponseError"} => fsm.state = "Command"
           /\ Queue \in Migrated => fsm.state = "RedirectPending"
<1> USE DEF Requesting, Live, Over, Draining, Told, Commands, Completions, Committed, Migrated,
            Ending, Working, Serves, RequestEvents
<1>1. /\ fsm.state \in {"FrontendHandshake", "BackendHandshake"} \union Resting \union Serving
      /\ Queue \in {"BackendAuthOk", "BackendAuthFailed"} => fsm.state = "BackendHandshake"
      /\ Queue \in Commands => fsm.state \in Resting
      /\ Queue \in Committed \union {"InternalResponseError"} => fsm.state = "Command"
  BY DEF StateInv, Fits
<1>2. Queue = "BackendGreetingReceived" => fsm.state = "FrontendHandshake"
  BY DEF PhaseInv, QueueInv, TaskInv
<1>3. Queue = "BackendResponsePart" \/ Queue \in Completions => fsm.state \in Serving
  BY DEF PhaseInv, QueueInv, TaskInv
<1>4. Queue \in Migrated => fsm.state = "RedirectPending"
  BY DEF MigrationInv
<1>5. Queue \in Commands => loop.parked = ""
  BY DEF QueueInv
<1> QED BY <1>1, <1>2, <1>3, <1>4, <1>5

LEMMA SlotAround ==
    ASSUME Steady, NEW o, Took(o), SlotTaken
    PROVE  Around /\ Queue' = "" /\ loop'.parked = loop.parked /\ Redirecting' = Redirecting
BY SteadyKnown, TookViews DEF SlotTaken, Around

LEMMA GreetingTaken ==
    ASSUME Steady, NEW o, Took(o), SlotTaken, Live, Queue = "BackendGreetingReceived",
           o \in Fsm!OnEvent(fsm, "BackendGreetingReceived")
    PROVE  Outcome
<1>1. Known /\ Requesting /\ Redirection /\ Ordering /\ fsm \in Fsm!Machines
  BY SteadyKnown
<1>2. fsm.state = "FrontendHandshake"
  BY <1>1, EventFits
<1>3. Fsm!Moves(fsm.flags, o, "BackendHandshake", {"ForwardHandshakeToBackend"})
  BY <1>1, <1>2, Fsm!GreetingOutcome
<1>4. /\ Fsm!Yields(o, {"ForwardHandshakeToBackend"})
      /\ fsm'.state = "BackendHandshake" /\ SameFlags
  BY <1>3 DEF Fsm!Moves, Took, SameFlags
<1>5. /\ Joins({"ForwardHandshakeToBackend"})
      /\ Clear({"ForwardHandshakeToBackend"}) => WireOrder'
  BY <1>1, <1>4, TookJoins
<1> QED BY <1>1, <1>2, <1>4, <1>5, SlotAround, GreetingStep DEF Outcome

LEMMA AuthTaken ==
    ASSUME Steady, NEW o, Took(o), SlotTaken, Live,
           NEW e \in {"BackendAuthOk", "BackendAuthFailed"}, Queue = e, o \in Fsm!OnEvent(fsm, e)
    PROVE  Outcome
<1>1. Known /\ Requesting /\ Redirection /\ Ordering /\ fsm \in Fsm!Machines
  BY SteadyKnown
<1>2. fsm.state = "BackendHandshake"
  BY <1>1, EventFits
<1>3. CASE e = "BackendAuthOk"
  <2> DEFINE X == {"AttachBackend", "ForwardAuthResultToClient"}
  <2>1. Fsm!Authenticates(fsm.flags, o)
    BY <1>1, <1>2, <1>3, Fsm!AuthOutcome
  <2>2. /\ Fsm!Yields(o, X) /\ fsm'.state = "Ready" /\ fsm'.flags.authenticated
        /\ fsm'.flags.redirect_pending = fsm.flags.redirect_pending
        /\ fsm'.flags.in_txn = fsm.flags.in_txn
    BY <2>1 DEF Fsm!Authenticates, Took
  <2>3. Joins(X) /\ (Clear(X) => WireOrder')
    BY <1>1, <2>2, TookJoins
  <2> QED BY <1>1, <1>2, <1>3, <2>2, <2>3, SlotAround, AuthenticatedStep DEF Outcome
<1>4. CASE e = "BackendAuthFailed"
  <2> DEFINE X == {"ForwardAuthResultToClient"}
  <2>1. Fsm!Ends(fsm.flags, o, X)
    BY <1>1, <1>2, <1>4, Fsm!AuthOutcome
  <2>2. Over /\ "ForwardAuthResultToClient" \notin Afloat
    BY <1>1, <1>4 DEF Requesting, QueueInv, GrantInv, TaskInv, Granted, Over, Draining
  <2>3. /\ \A x \in X : x = "ForwardAuthResultToClient" \/ x = "ForwardResponseToClient"
        /\ \A x \in X : Over \/ (x \in Awaited /\ TaskOp # "send" /\ "AttachBackend" \notin Awaited)
        /\ \A x \in X : x \notin Afloat
    BY <2>2
  <2> HIDE DEF X
  <2> QED BY <2>1, <2>3, EndTaken DEF SlotTaken
<1> QED BY <1>3, <1>4

\* An end without an answer.
LEMMA BreakTaken ==
    ASSUME Steady, NEW o, Took(o), Live, Fsm!Ends(fsm.flags, o, {}),
           Queue' \in {Queue, ""}, Redirecting' = Redirecting
    PROVE  Outcome
<1> DEFINE X == {}
<1>1. Fsm!Ends(fsm.flags, o, X)
  OBVIOUS
<1>2. /\ \A x \in X : x = "ForwardAuthResultToClient" \/ x = "ForwardResponseToClient"
      /\ \A x \in X : Over \/ (x \in Awaited /\ TaskOp # "send" /\ "AttachBackend" \notin Awaited)
      /\ \A x \in X : x \notin Afloat
  OBVIOUS
<1> HIDE DEF X
<1> QED BY <1>1, <1>2, EndTaken

\* A command, from the slot or unparked.
LEMMA CommandTaken ==
    ASSUME Steady, NEW o, Took(o), Live, NEW e \in Commands, o \in Fsm!OnEvent(fsm, e),
           fsm.state \in {"Ready", "Draining"},
           \/ Queue = e /\ Queue' = "" /\ loop'.parked = loop.parked
           \/ loop.parked = e /\ loop'.parked = "" /\ Queue' = Queue,
           loop'.terminal = loop.terminal, Redirecting' = Redirecting
    PROVE  Outcome
<1>1. Known /\ Requesting /\ Redirection /\ Ordering /\ fsm \in Fsm!Machines
  BY SteadyKnown
<1>2. Around
  BY <1>1, TookViews DEF Around
<1>3. CASE e = "ClientCommand"
  <2> DEFINE X == {"ForwardCommandToBackend"}
  <2>1. Fsm!Moves(fsm.flags, o, "Command", X)
    BY <1>1, <1>3, Fsm!CommandOutcome
  <2>2. Fsm!Yields(o, X) /\ fsm'.state = "Command" /\ SameFlags
    BY <2>1 DEF Fsm!Moves, Took, SameFlags
  <2>3. Joins(X) /\ (Clear(X) => WireOrder')
    BY <1>1, <2>2, TookJoins
  <2> QED BY <1>1, <1>2, <1>3, <2>2, <2>3, CommandStep DEF Outcome
<1>4. CASE e = "ClientCommandQuit"
  <2>1. Fsm!Ends(fsm.flags, o, {})
    BY <1>1, <1>4, Fsm!CommandOutcome
  <2> QED BY <2>1, BreakTaken
<1> QED BY <1>3, <1>4 DEF Commands

LEMMA PartTaken ==
    ASSUME Steady, NEW o, Took(o), SlotTaken, Live, Queue = "BackendResponsePart",
           o \in Fsm!OnEvent(fsm, "BackendResponsePart")
    PROVE  Outcome
<1> DEFINE X == {"ForwardResponseToClient"}
<1>1. Known /\ Requesting /\ Redirection /\ Ordering /\ fsm \in Fsm!Machines
  BY SteadyKnown
<1>2. fsm.state \in Serving
  BY <1>1, EventFits
<1>3. Fsm!Moves(fsm.flags, o, "Response", X)
  BY <1>1, <1>2, Fsm!AnswerOutcome DEF Serving
<1>4. Fsm!Yields(o, X) /\ fsm'.state = "Response" /\ SameFlags
  BY <1>3 DEF Fsm!Moves, Took, SameFlags
<1>5. Joins(X) /\ (Clear(X) => WireOrder')
  BY <1>1, <1>4, TookJoins
<1> QED BY <1>1, <1>2, <1>4, <1>5, SlotAround, PartStep DEF Outcome

\* finish_command, with the status g of the answer.
LEMMA FinishForms ==
    ASSUME NEW o, Took(o), NEW X, NEW g, Fsm!Finishes(g, o, X),
           g.redirect_pending = fsm.flags.redirect_pending,
           g.authenticated = fsm.flags.authenticated,
           g.backend_owner = fsm.flags.backend_owner
    PROVE  \/ Fsm!Ends(fsm.flags, o, X)
           \/ /\ fsm'.state \in {"Ready", "Draining"} /\ Fsm!Yields(o, X)
              /\ fsm'.flags.redirect_pending = fsm.flags.redirect_pending
              /\ fsm'.flags.authenticated = fsm.flags.authenticated
              /\ fsm'.flags.in_txn = g.in_txn
           \/ /\ fsm'.state = "RedirectPending" /\ fsm.flags.redirect_pending
              /\ Fsm!Yields(o, X \union {"StartRedirectHandshake"})
              /\ fsm'.flags.redirect_pending = fsm.flags.redirect_pending
              /\ fsm'.flags.authenticated = fsm.flags.authenticated
              /\ fsm'.flags.in_txn = g.in_txn
<1>1. CASE Fsm!Ends(g, o, X)
  BY <1>1 DEF Fsm!Ends, Fsm!LastEffects
<1>2. CASE /\ g.redirect_pending
           /\ Fsm!Moves(g, o, "RedirectPending", X \union {"StartRedirectHandshake"})
  BY <1>2 DEF Fsm!Moves, Took
<1>3. CASE Fsm!Moves(g, o, "Ready", X) \/ Fsm!Moves(g, o, "Draining", X)
  BY <1>3 DEF Fsm!Moves, Took
<1> QED BY <1>1, <1>2, <1>3 DEF Fsm!Finishes

LEMMA StatusFlags ==
    ASSUME fsm \in Fsm!Machines, NEW done \in BOOLEAN
    PROVE  /\ Fsm!WithStatus(fsm.flags, done).redirect_pending = fsm.flags.redirect_pending
           /\ Fsm!WithStatus(fsm.flags, done).authenticated = fsm.flags.authenticated
           /\ Fsm!WithStatus(fsm.flags, done).backend_owner = fsm.flags.backend_owner
           /\ Fsm!WithStatus(fsm.flags, done).in_txn = ~done
BY DEF Fsm!Machines, Fsm!Flags, Fsm!WithStatus

\* The flags that an answer leaves, and the rest of the session.
LEMMA AnswerTaken ==
    ASSUME Steady, NEW o, Took(o), SlotTaken, Live, NEW e \in Completions, Queue = e,
           o \in Fsm!OnEvent(fsm, e)
    PROVE  Outcome
<1> DEFINE X == {"ForwardResponseToClient"}
           XS == {"ForwardResponseToClient", "StartRedirectHandshake"}
           f == fsm.flags
           g == IF e = "BackendResponseErrorComplete" THEN f
                ELSE Fsm!WithStatus(f, e = "BackendResponseTxnDone")
<1>1. Known /\ Requesting /\ Redirection /\ Ordering /\ fsm \in Fsm!Machines
  BY SteadyKnown
<1>2. fsm.state \in Serving
  BY <1>1, EventFits
<1>3. Fsm!Finishes(g, o, X)
  <2>1. CASE e = "BackendResponseErrorComplete"
    BY <1>1, <1>2, <2>1, Fsm!AnswerOutcome DEF Serving
  <2>2. CASE e = "BackendResponseTxnDone"
    <3>1. Fsm!Finishes(Fsm!WithStatus(f, TRUE), o, X)
      BY <1>1, <1>2, <2>2, Fsm!AnswerOutcome DEF Serving
    <3> QED BY <2>2, <3>1
  <2>3. CASE e = "BackendResponseTxnOpen"
    <3>1. Fsm!Finishes(Fsm!WithStatus(f, FALSE), o, X)
      BY <1>1, <1>2, <2>3, Fsm!AnswerOutcome DEF Serving
    <3> QED BY <2>3, <3>1
  <2> QED BY <2>1, <2>2, <2>3 DEF Completions
<1>4. /\ g.redirect_pending = f.redirect_pending /\ g.authenticated = f.authenticated
      /\ g.backend_owner = f.backend_owner
      /\ e = "BackendResponseErrorComplete" => g.in_txn = f.in_txn
      /\ e = "BackendResponseTxnOpen" => g.in_txn
  <2>1. CASE e = "BackendResponseErrorComplete"
    BY <2>1
  <2>2. CASE e # "BackendResponseErrorComplete"
    <3>1. (e = "BackendResponseTxnDone") \in BOOLEAN
      OBVIOUS
    <3>2. g = Fsm!WithStatus(f, e = "BackendResponseTxnDone")
      BY <2>2
    <3> QED BY <1>1, <2>2, <3>1, <3>2, StatusFlags
  <2> QED BY <2>1, <2>2
<1> HIDE DEF g
<1>5. X \union {"StartRedirectHandshake"} = XS
  OBVIOUS
<1>6. CASE Fsm!Ends(f, o, X)
  <2>1. /\ "ForwardResponseToClient" \in Awaited /\ TaskOp # "send"
        /\ "AttachBackend" \notin Awaited /\ "ForwardResponseToClient" \notin Afloat
    BY <1>1 DEF Requesting, QueueInv, AnswerInv, TaskInv, Known, AwaitSets, Completions,
       RequestEvents, Commands, Committed
  <2>2. /\ \A x \in X : x = "ForwardAuthResultToClient" \/ x = "ForwardResponseToClient"
        /\ \A x \in X : Over \/ (x \in Awaited /\ TaskOp # "send" /\ "AttachBackend" \notin Awaited)
        /\ \A x \in X : x \notin Afloat
    BY <2>1
  <2> HIDE DEF X
  <2> QED BY <1>6, <2>2, EndTaken DEF SlotTaken
<1>7. CASE /\ fsm'.state \in {"Ready", "Draining"} /\ Fsm!Yields(o, X)
           /\ fsm'.flags.redirect_pending = f.redirect_pending
           /\ fsm'.flags.authenticated = f.authenticated
           /\ fsm'.flags.in_txn = g.in_txn
  <2>1. Joins(X) /\ (Clear(X) => WireOrder')
    BY <1>1, <1>7, TookJoins
  <2>2. /\ Queue \in {"BackendResponseTxnOpen", "InternalResponseTxnOpen"} => fsm'.flags.in_txn
        /\ Queue \in {"BackendResponseErrorComplete", "InternalResponseError"} =>
               fsm'.flags.in_txn = f.in_txn
    BY <1>4, <1>7 DEF Completions
  <2> QED BY <1>1, <1>2, <1>7, <2>1, <2>2, SlotAround, AnswerStep DEF Outcome
<1>8. CASE /\ fsm'.state = "RedirectPending" /\ f.redirect_pending
           /\ Fsm!Yields(o, X \union {"StartRedirectHandshake"})
           /\ fsm'.flags.redirect_pending = f.redirect_pending
           /\ fsm'.flags.authenticated = f.authenticated
           /\ fsm'.flags.in_txn = g.in_txn
  <2>0. Fsm!Yields(o, XS)
    BY <1>5, <1>8
  <2>1. Joins(XS) /\ (Clear(XS) => WireOrder')
    BY <1>1, <2>0, TookJoins
  <2>2. /\ Queue \in {"BackendResponseTxnOpen", "InternalResponseTxnOpen"} => fsm'.flags.in_txn
        /\ Queue \in {"BackendResponseErrorComplete", "InternalResponseError"} =>
               fsm'.flags.in_txn = f.in_txn
    BY <1>4, <1>8 DEF Completions
  <2> QED BY <1>1, <1>2, <1>8, <2>1, <2>2, SlotAround, AnswerStartStep DEF Outcome
<1> QED BY <1>3, <1>4, <1>6, <1>7, <1>8, FinishForms

LEMMA CommitTaken ==
    ASSUME Steady, NEW o, Took(o), SlotTaken, Live,
           NEW e \in Committed \union {"InternalResponseError"}, Queue = e,
           o \in Fsm!OnEvent(fsm, e)
    PROVE  Outcome
<1> DEFINE X == {}
           S == {"StartRedirectHandshake"}
           R == {"ResumeHeldRequest"}
           f == fsm.flags
           g == IF e = "InternalResponseError" THEN f
                ELSE Fsm!WithStatus(f, e = "InternalResponseTxnDone")
<1>1. Known /\ Requesting /\ Redirection /\ Ordering /\ fsm \in Fsm!Machines
  BY SteadyKnown
<1>2. fsm.state = "Command"
  BY <1>1, EventFits
<1>4. /\ g.redirect_pending = f.redirect_pending /\ g.authenticated = f.authenticated
      /\ g.backend_owner = f.backend_owner
      /\ e = "InternalResponseError" => g.in_txn = f.in_txn
      /\ e = "InternalResponseTxnOpen" => g.in_txn
  <2>1. CASE e = "InternalResponseError"
    BY <2>1
  <2>2. CASE e # "InternalResponseError"
    <3>1. (e = "InternalResponseTxnDone") \in BOOLEAN
      OBVIOUS
    <3>2. g = Fsm!WithStatus(f, e = "InternalResponseTxnDone")
      BY <2>2
    <3> QED BY <1>1, <2>2, <3>1, <3>2, StatusFlags
  <2> QED BY <2>1, <2>2
<1>3. \/ Fsm!Finishes(g, o, X)
      \/ /\ e = "InternalResponseTxnOpen"
         /\ Fsm!Moves(g, o, "Ready", R) \/ Fsm!Moves(g, o, "Draining", R)
      \/ Fsm!Moves(g, o, "Ready", X) \/ Fsm!Moves(g, o, "Draining", X)
  <2>1. CASE e = "InternalResponseError"
    BY <1>1, <1>2, <2>1, Fsm!CommitOutcome
  <2>2. CASE e = "InternalResponseTxnDone"
    <3>1. Fsm!Finishes(Fsm!WithStatus(f, TRUE), o, X)
      BY <1>1, <1>2, <2>2, Fsm!CommitOutcome
    <3> QED BY <2>2, <3>1
  <2>3. CASE e = "InternalResponseTxnOpen"
    <3> DEFINE h == Fsm!WithStatus(f, FALSE)
    <3>1. \E Y \in {{}, {"ResumeHeldRequest"}} :
             Fsm!Moves(h, o, "Ready", Y) \/ Fsm!Moves(h, o, "Draining", Y)
      BY <1>1, <1>2, <2>3, Fsm!CommitOutcome
    <3>2. g = h
      BY <2>3
    <3> QED BY <2>3, <3>1, <3>2
  <2> QED BY <2>1, <2>2, <2>3 DEF Committed
<1> HIDE DEF g
<1>5. X \union {"StartRedirectHandshake"} = S
  OBVIOUS
<1>6. CASE Fsm!Ends(f, o, X)
  BY <1>6, BreakTaken DEF SlotTaken
<1>7. CASE /\ fsm'.state \in {"Ready", "Draining"} /\ Fsm!Yields(o, X)
           /\ fsm'.flags.redirect_pending = f.redirect_pending
           /\ fsm'.flags.authenticated = f.authenticated
           /\ fsm'.flags.in_txn = g.in_txn
  <2>1. Joins(X) /\ (Clear(X) => WireOrder')
    BY <1>1, <1>7, TookJoins
  <2>2. /\ Queue \in {"BackendResponseTxnOpen", "InternalResponseTxnOpen"} => fsm'.flags.in_txn
        /\ Queue \in {"BackendResponseErrorComplete", "InternalResponseError"} =>
               fsm'.flags.in_txn = f.in_txn
    BY <1>4, <1>7 DEF Committed
  <2> QED BY <1>1, <1>2, <1>7, <2>1, <2>2, SlotAround, CommitStep DEF Outcome
<1>8. CASE /\ fsm'.state = "RedirectPending" /\ f.redirect_pending
           /\ Fsm!Yields(o, X \union {"StartRedirectHandshake"})
           /\ fsm'.flags.redirect_pending = f.redirect_pending
           /\ fsm'.flags.authenticated = f.authenticated
           /\ fsm'.flags.in_txn = g.in_txn
  <2>0. Fsm!Yields(o, S)
    BY <1>5, <1>8
  <2>1. Joins(S) /\ (Clear(S) => WireOrder')
    BY <1>1, <2>0, TookJoins
  <2>2. /\ Queue \in {"BackendResponseTxnOpen", "InternalResponseTxnOpen"} => fsm'.flags.in_txn
        /\ Queue \in {"BackendResponseErrorComplete", "InternalResponseError"} =>
               fsm'.flags.in_txn = f.in_txn
    BY <1>4, <1>8 DEF Committed
  <2> QED BY <1>1, <1>2, <1>8, <2>1, <2>2, SlotAround, CommitStartStep DEF Outcome
<1>9. CASE /\ e = "InternalResponseTxnOpen"
           /\ Fsm!Moves(g, o, "Ready", R) \/ Fsm!Moves(g, o, "Draining", R)
  <2>0. /\ Fsm!Yields(o, R) /\ fsm'.state \in {"Ready", "Draining"}
        /\ fsm'.flags.redirect_pending = f.redirect_pending
        /\ fsm'.flags.authenticated = f.authenticated
        /\ fsm'.flags.in_txn = g.in_txn
    BY <1>4, <1>9 DEF Fsm!Moves, Took
  <2>1. Joins(R) /\ (Clear(R) => WireOrder')
    BY <1>1, <2>0, TookJoins
  <2>2. /\ Queue \in {"BackendResponseTxnOpen", "InternalResponseTxnOpen"} => fsm'.flags.in_txn
        /\ Queue \in {"BackendResponseErrorComplete", "InternalResponseError"} =>
               fsm'.flags.in_txn = f.in_txn
        /\ Queue \in Committed
    BY <1>4, <1>9, <2>0 DEF Committed
  <2> QED BY <1>1, <1>2, <2>0, <2>1, <2>2, SlotAround, ResumeStep DEF Outcome
<1>10. ASSUME Fsm!Moves(g, o, "Ready", X) \/ Fsm!Moves(g, o, "Draining", X)
       PROVE  /\ fsm'.state \in {"Ready", "Draining"} /\ Fsm!Yields(o, X)
              /\ fsm'.flags.redirect_pending = f.redirect_pending
              /\ fsm'.flags.authenticated = f.authenticated
              /\ fsm'.flags.in_txn = g.in_txn
  BY <1>4, <1>10 DEF Fsm!Moves, Took
<1>11. CASE Fsm!Finishes(g, o, X)
  BY <1>4, <1>6, <1>7, <1>8, <1>11, FinishForms
<1> QED BY <1>3, <1>7, <1>9, <1>10, <1>11

LEMMA MigrationTaken ==
    ASSUME Steady, NEW o, Took(o), SlotTaken, Live, NEW e \in Migrated, Queue = e,
           o \in Fsm!OnEvent(fsm, e)
    PROVE  Outcome
<1> DEFINE W == {"SwapBackend", "NotifyRedirectSucceeded", "ResumeHeldRequest"}
           X == {"NotifyRedirectFailed", "ResumeHeldRequest"}
<1>1. Known /\ Requesting /\ Redirection /\ Ordering /\ fsm \in Fsm!Machines
  BY SteadyKnown
<1>2. fsm.state = "RedirectPending"
  BY <1>1, EventFits
<1>3. CASE e = "RedirectBackendReady"
  <2>1. Fsm!Swaps(fsm.flags, o, W)
    BY <1>1, <1>2, <1>3, Fsm!MigrationOutcome
  <2>2. /\ Fsm!Yields(o, W) /\ fsm'.state = "Ready" /\ ~fsm'.flags.redirect_pending
        /\ fsm'.flags.authenticated = fsm.flags.authenticated
        /\ fsm'.flags.in_txn = fsm.flags.in_txn
    BY <2>1 DEF Fsm!Swaps, Took
  <2>3. Joins(W) /\ (Clear(W) => WireOrder')
    BY <1>1, <2>2, TookJoins
  <2> QED BY <1>1, <1>2, <1>3, <2>2, <2>3, SlotAround, SwapStep DEF Outcome
<1>4. CASE e = "RedirectBackendFailed"
  <2>1. Fsm!Swaps(fsm.flags, o, X)
    BY <1>1, <1>2, <1>4, Fsm!MigrationOutcome
  <2>2. /\ Fsm!Yields(o, X) /\ fsm'.state = "Ready" /\ ~fsm'.flags.redirect_pending
        /\ fsm'.flags.authenticated = fsm.flags.authenticated
        /\ fsm'.flags.in_txn = fsm.flags.in_txn
    BY <2>1 DEF Fsm!Swaps, Took
  <2>3. Joins(X) /\ (Clear(X) => WireOrder')
    BY <1>1, <2>2, TookJoins
  <2> QED BY <1>1, <1>2, <1>4, <2>2, <2>3, SlotAround, FailStep DEF Outcome
<1> QED BY <1>3, <1>4 DEF Migrated

-----------------------------------------------------------------------------
(* The loop takes a control message *)

LEMMA ControlTail ==
    ASSUME Shapes, OneControl, control # <<>>, control' = Tail(control)
    PROVE  /\ OneControl'
           /\ Head(control) = "ControlRedirect" => Redirecting /\ ~Redirecting'
           /\ Head(control) # "ControlRedirect" => Redirecting' = Redirecting
<1>1. /\ Len(control) \in Nat \ {0} /\ DOMAIN control = 1 .. Len(control)
      /\ DOMAIN control' = 1 .. Len(control) - 1
      /\ \A i \in 1 .. Len(control) - 1 : control'[i] = control[i + 1]
      /\ Head(control) = control[1]
  <2>1. ASSUME NEW q \in Seq(Controls), q # <<>>
        PROVE  /\ Len(q) \in Nat \ {0} /\ DOMAIN q = 1 .. Len(q)
               /\ DOMAIN Tail(q) = 1 .. Len(q) - 1
               /\ \A i \in 1 .. Len(q) - 1 : Tail(q)[i] = q[i + 1]
               /\ Head(q) = q[1]
    BY <2>1
  <2> QED BY <2>1 DEF Shapes, Channel
<1>2. OneControl'
  <2> SUFFICES ASSUME NEW i \in DOMAIN control', NEW j \in DOMAIN control',
                      control'[i] = "ControlRedirect", control'[j] = "ControlRedirect"
               PROVE  i = j
    BY DEF OneControl
  <2>1. i + 1 \in DOMAIN control /\ j + 1 \in DOMAIN control
        /\ control[i + 1] = "ControlRedirect" /\ control[j + 1] = "ControlRedirect"
    BY <1>1
  <2> QED BY <1>1, <2>1 DEF OneControl
<1>3. ASSUME Head(control) = "ControlRedirect"
      PROVE  Redirecting /\ ~Redirecting'
  <2>1. 1 \in DOMAIN control /\ control[1] = "ControlRedirect"
    BY <1>1, <1>3
  <2>2. ASSUME Redirecting' PROVE FALSE
    <3>1. PICK i \in DOMAIN control' : control'[i] = "ControlRedirect"
      BY <2>2 DEF Redirecting
    <3>2. i + 1 \in DOMAIN control /\ control[i + 1] = "ControlRedirect" /\ i + 1 # 1
      BY <1>1, <3>1
    <3> QED BY <2>1, <3>2 DEF OneControl
  <2> QED BY <2>1, <2>2 DEF Redirecting
<1>4. ASSUME Head(control) # "ControlRedirect"
      PROVE  Redirecting' = Redirecting
  <2>1. ASSUME Redirecting PROVE Redirecting'
    <3>1. PICK i \in DOMAIN control : control[i] = "ControlRedirect"
      BY <2>1 DEF Redirecting
    <3>2. i - 1 \in DOMAIN control' /\ i = (i - 1) + 1 /\ i - 1 \in 1 .. Len(control) - 1
      BY <1>1, <1>4, <3>1
    <3>3. control'[i - 1] = control[(i - 1) + 1]
      BY <1>1, <3>2
    <3> QED BY <3>1, <3>2, <3>3 DEF Redirecting
  <2>2. ASSUME Redirecting' PROVE Redirecting
    <3>1. PICK i \in DOMAIN control' : control'[i] = "ControlRedirect"
      BY <2>2 DEF Redirecting
    <3>2. i + 1 \in DOMAIN control /\ control[i + 1] = "ControlRedirect"
      BY <1>1, <3>1
    <3> QED BY <3>2 DEF Redirecting
  <2> QED BY <2>1, <2>2 DEF Redirecting
<1> QED BY <1>2, <1>3, <1>4

LEMMA LiveStates ==
    ASSUME Requesting, Live
    PROVE  fsm.state \in {"FrontendHandshake", "BackendHandshake", "Ready", "Command",
                          "Response", "RedirectPending", "Draining"}
BY DEF Requesting, StateInv, Resting, Serving

\* A redirect starts, waits or is refused.
LEMMA RedirectTaken ==
    ASSUME Steady, NEW o, Took(o), Live, o \in Fsm!OnEvent(fsm, "ControlRedirect"),
           Redirecting, ~Redirecting', Queue' = Queue, loop'.parked = loop.parked,
           loop'.terminal = loop.terminal
    PROVE  Outcome
<1> DEFINE S == {"StartRedirectHandshake"}
           F == {"NotifyRedirectFailed"}
           N == {}
<1>1. Known /\ Requesting /\ Redirection /\ Ordering /\ fsm \in Fsm!Machines
  BY SteadyKnown
<1>2. Around
  BY <1>1, TookViews DEF Around
<1>3. \/ /\ fsm.state = "Ready" /\ Fsm!Queues(fsm.flags, o, "RedirectPending", S)
      \/ /\ fsm.state \in {"Ready", "Command", "Response"}
         /\ Fsm!Queues(fsm.flags, o, fsm.state, N)
      \/ /\ fsm.state = "Draining" /\ Fsm!Moves(fsm.flags, o, "Draining", F)
  BY <1>1, LiveStates, Fsm!RedirectOutcome
<1> HIDE DEF S, F, N
<1>4. ASSUME NEW s, NEW X, Fsm!Queues(fsm.flags, o, s, X)
      PROVE  /\ fsm'.state = s /\ fsm'.flags.redirect_pending
             /\ fsm'.flags.authenticated = fsm.flags.authenticated
             /\ fsm'.flags.in_txn = fsm.flags.in_txn
             /\ Joins(X) /\ (Clear(X) => WireOrder')
  <2>1. Fsm!Yields(o, X)
    BY <1>4 DEF Fsm!Queues
  <2>2. Joins(X) /\ (Clear(X) => WireOrder')
    BY <1>1, <2>1, TookJoins
  <2> QED BY <1>4, <2>2 DEF Fsm!Queues, Took
<1>5. CASE fsm.state = "Ready" /\ Fsm!Queues(fsm.flags, o, "RedirectPending", S)
  BY <1>1, <1>2, <1>4, <1>5, RedirectStartStep DEF S, Outcome
<1>6. CASE fsm.state \in {"Ready", "Command", "Response"} /\ Fsm!Queues(fsm.flags, o, fsm.state, N)
  BY <1>1, <1>2, <1>4, <1>6, RedirectQueueStep DEF N, Outcome
<1>7. CASE fsm.state = "Draining" /\ Fsm!Moves(fsm.flags, o, "Draining", F)
  <2>1. /\ Fsm!Yields(o, F) /\ fsm'.state = fsm.state
        /\ fsm'.flags.redirect_pending = fsm.flags.redirect_pending
        /\ fsm'.flags.authenticated = fsm.flags.authenticated
        /\ fsm'.flags.in_txn = fsm.flags.in_txn
    BY <1>7 DEF Fsm!Moves, Took
  <2>2. Joins(F) /\ (Clear(F) => WireOrder')
    BY <1>1, <2>1, TookJoins
  <2> QED BY <1>1, <1>2, <1>7, <2>1, <2>2, RedirectRefusedStep DEF F, Outcome
<1> QED BY <1>3, <1>5, <1>6, <1>7

\* A redirect is dropped only before the session is authenticated.
LEMMA DroppedEarly ==
    ASSUME Steady, Live, Redirecting, Fsm!OnEvent(fsm, "ControlRedirect") = {}
    PROVE  bounds.early
<1>1. Known /\ Requesting /\ Redirection /\ fsm \in Fsm!Machines
  BY SteadyKnown
<1>2. ~fsm.flags.redirect_pending
  BY <1>1 DEF Redirection, TokenInv
<1>3. fsm.state \in {"FrontendHandshake", "BackendHandshake"}
  BY <1>1, <1>2, LiveStates, Fsm!RedirectHeard DEF Known
<1> QED BY <1>1, <1>3 DEF Redirection, EarlyInv, Resting, Serving

\* A graceful close or a timer.
LEMMA EndingTaken ==
    ASSUME Steady, NEW o, Took(o), Live,
           NEW e \in {"ControlGracefulClose", "HandshakeTimerExpired", "DrainTimerExpired"},
           o \in Fsm!OnEvent(fsm, e),
           Redirecting' = Redirecting, Queue' = Queue, loop'.parked = loop.parked,
           loop'.terminal = loop.terminal
    PROVE  Outcome
<1> DEFINE B == {"BeginDrainTimer"}
<1>1. Known /\ Requesting /\ Redirection /\ Ordering /\ fsm \in Fsm!Machines
  BY SteadyKnown
<1>2. Around
  BY <1>1, TookViews DEF Around
<1>3. \/ Fsm!Ends(fsm.flags, o, {})
      \/ fsm.state = "Ready" /\ Fsm!Moves(fsm.flags, o, "Draining", B)
      \/ fsm.state \in {"Command", "Response"} /\ Fsm!Moves(fsm.flags, o, fsm.state, B)
  BY <1>1, LiveStates, Fsm!EndingOutcome
<1>4. CASE Fsm!Ends(fsm.flags, o, {})
  BY <1>4, BreakTaken
<1> HIDE DEF B
<1>5. ASSUME NEW s, Fsm!Moves(fsm.flags, o, s, B),
             \/ fsm.state = "Ready" /\ s = "Draining"
             \/ fsm.state \in Serving /\ s = fsm.state
      PROVE  Outcome
  <2>1. Fsm!Yields(o, B) /\ fsm'.state = s /\ SameFlags
    BY <1>5 DEF Fsm!Moves, Took, SameFlags
  <2>2. Joins(B) /\ (Clear(B) => WireOrder')
    BY <1>1, <2>1, TookJoins
  <2> QED BY <1>1, <1>2, <1>5, <2>1, <2>2, DrainStep DEF B, Outcome
<1> QED BY <1>3, <1>4, <1>5 DEF Serving

-----------------------------------------------------------------------------
(* The steps of the loop *)

Elsewhere == UNCHANGED <<cmds, engine, owner, route, inbox, reports, server, bounds>>

\* The loop applies e: the machine has no answer, or one of its outcomes is taken.
LEMMA Applied ==
    ASSUME Shapes, NEW e \in Machine!Events, NEW l \in Loops, l.out = <<>>,
           loop.out = <<>>, loop.pc # "ended", Apply(e, l), Elsewhere
    PROVE  /\ \/ /\ Fsm!OnEvent(fsm, e) = {}
                 /\ fsm' = fsm /\ loop'.out = <<>>
              \/ \E o \in Fsm!OnEvent(fsm, e) : Took(o)
           /\ loop'.pc # "ended"
           /\ loop'.parked = l.parked /\ loop'.terminal = l.terminal
<1>0. Machine!OnEvent(fsm, e) = Fsm!OnEvent(fsm, e)
  BY SameMachine
<1>1. CASE /\ Machine!OnEvent(fsm, e) = {} /\ fsm' = fsm
           /\ loop' = [l EXCEPT !.pc = "select"]
  <2>1. /\ loop'.pc = "select" /\ loop'.out = <<>>
        /\ loop'.parked = l.parked /\ loop'.terminal = l.terminal
    BY <1>1 DEF Loops
  <2> QED BY <1>0, <1>1, <2>1
<1>2. ASSUME NEW o \in Machine!OnEvent(fsm, e), fsm' = o.fsm,
             loop' = [l EXCEPT !.pc = IF o.effects = <<>> THEN "select" ELSE "effects",
                               !.out = o.effects, !.deadline = Rearmed(@, o)]
      PROVE  /\ Took(o) /\ loop'.pc # "ended"
             /\ loop'.parked = l.parked /\ loop'.terminal = l.terminal
  <2> DEFINE pc == IF o.effects = <<>> THEN "select" ELSE "effects"
             out == o.effects
             deadline == Rearmed(l.deadline, o)
  <2>1. pc # "ended" /\ out \in EffectSeqs
    BY OnEventShape DEF Shapes
  <2>2. loop' = [l EXCEPT !.pc = pc, !.out = out, !.deadline = deadline]
    BY <1>2
  <2> HIDE DEF pc, deadline
  <2>3. loop'.pc = pc /\ loop'.out = out /\ loop'.parked = l.parked
        /\ loop'.terminal = l.terminal
    <3> HIDE DEF out
    <3> QED BY <2>2 DEF Loops
  <2> QED BY <1>2, <2>1, <2>3 DEF Took, Elsewhere
<1> QED BY <1>0, <1>1, <1>2 DEF Apply

LEMMA AgreedSteady ==
    ASSUME Shapes, AgreeInv
    PROVE  /\ Steady /\ Known /\ Requesting /\ Redirection /\ Ordering
           /\ fsm \in Fsm!Machines /\ faults = {}
<1>1. Steady
  BY DEF Steady, AgreeInv
<1> QED BY <1>1, SteadyKnown DEF AgreeInv

\* An outcome of the loop keeps the invariant.
LEMMA TookKeeps ==
    ASSUME Shapes, AgreeInv, NEW o, Took(o), Outcome, OneControl', faults' = faults
    PROVE  AgreeInv'
<1>1. PrepareOrder' /\ Listed' /\ OneReport' /\ OneOffer'
  BY AgreedSteady, TookViews
<1> QED BY <1>1, AgreedSteady DEF AgreeInv, Ordering, Outcome

\* The machine has no answer to what the loop applied.
LEMMA DroppedViews ==
    ASSUME Shapes, AgreeInv, Elsewhere, fsm' = fsm, loop.out = <<>>, loop'.out = <<>>
    PROVE  /\ SameTask /\ SamePlace /\ SameOwner /\ Afloat' = Afloat /\ Prepared' = Prepared
           /\ server' = server
           /\ WireOrder' /\ PrepareOrder' /\ Listed' /\ OneReport' /\ OneOffer'
<1>1. /\ SameTask /\ SamePlace /\ SameOwner
      /\ Listed' = Listed /\ OneReport' = OneReport /\ OneOffer' = OneOffer
  BY ViewsKept DEF Elsewhere
<1>2. /\ Afloat' = Afloat /\ Prepared' = Prepared
      /\ (WireOrder => WireOrder') /\ (PrepareOrder => PrepareOrder')
  <2>1. cmds' = cmds /\ loop'.out = loop.out /\ bounds' = bounds
    BY DEF Elsewhere
  <2> QED BY <2>1, WireKept
<1> QED BY <1>1, <1>2 DEF AgreeInv, Ordering, Elsewhere

LEMMA DroppedKeeps ==
    ASSUME Shapes, AgreeInv, Elsewhere, fsm' = fsm, loop.out = <<>>, loop'.out = <<>>,
           Queue' = Queue, loop'.parked = loop.parked, Redirecting' = Redirecting,
           loop'.terminal = loop.terminal, loop'.pc = "ended" <=> loop.pc = "ended",
           OneControl', faults' = faults
    PROVE  AgreeInv'
<1>1. /\ SameTask /\ SamePlace /\ SameOwner /\ Afloat' = Afloat /\ Prepared' = Prepared
      /\ server' = server
      /\ WireOrder' /\ PrepareOrder' /\ Listed' /\ OneReport' /\ OneOffer'
  BY DroppedViews
<1>2. Requesting' /\ Redirection'
  BY <1>1, UnseenStep DEF AgreeInv
<1> QED BY <1>1, <1>2 DEF AgreeInv, Ordering

LEMMA LoopControlKeeps == ASSUME Shapes, AgreeInv, LoopControl PROVE AgreeInv'
<1>0. /\ Steady /\ Known /\ Requesting /\ Redirection /\ Ordering
      /\ fsm \in Fsm!Machines /\ faults = {}
  BY AgreedSteady
<1>1. /\ Live /\ loop.pc = "select" /\ loop.out = <<>> /\ loop \in Loops
      /\ Elsewhere /\ faults' = faults /\ Queue' = Queue
      /\ control # <<>> /\ control' = Tail(control) /\ Apply(Head(control), loop)
      /\ Head(control) \in Controls
  BY DEF LoopControl, Selecting, Live, Shapes, Elsewhere, Queue, Channel
<1>2. /\ OneControl'
      /\ Head(control) = "ControlRedirect" => Redirecting /\ ~Redirecting'
      /\ Head(control) # "ControlRedirect" => Redirecting' = Redirecting
  BY <1>0, <1>1, ControlTail DEF Ordering
<1> DEFINE e == Head(control)
<1>3. e \in Machine!Events
  BY <1>1, SomeEvents
<1> HIDE DEF e
<1>4. /\ \/ Fsm!OnEvent(fsm, e) = {} /\ fsm' = fsm /\ loop'.out = <<>>
         \/ \E o \in Fsm!OnEvent(fsm, e) : Took(o)
      /\ loop'.pc # "ended"
      /\ loop'.parked = loop.parked /\ loop'.terminal = loop.terminal
  BY <1>1, <1>3, Applied DEF e
<1>5. CASE Fsm!OnEvent(fsm, e) = {} /\ fsm' = fsm /\ loop'.out = <<>>
  <2>1. CASE e # "ControlRedirect"
    BY <1>1, <1>2, <1>4, <1>5, <2>1, DroppedKeeps DEF e
  <2>2. CASE e = "ControlRedirect"
    <3>1. Redirecting /\ ~Redirecting'
      BY <1>2, <2>2 DEF e
    <3>2. bounds.early
      BY <1>0, <1>1, <1>5, <2>2, <3>1, DroppedEarly
    <3>3. /\ SameTask /\ SamePlace /\ SameOwner /\ Afloat' = Afloat /\ Prepared' = Prepared
          /\ server' = server
          /\ WireOrder' /\ PrepareOrder' /\ Listed' /\ OneReport' /\ OneOffer'
      BY <1>1, <1>5, DroppedViews
    <3>4. Requesting' /\ Redirection'
      BY <1>0, <1>1, <1>4, <1>5, <3>1, <3>2, <3>3, DroppedStep
    <3> QED BY <1>0, <1>1, <1>2, <3>3, <3>4 DEF AgreeInv, Ordering
  <2> QED BY <2>1, <2>2
<1>6. ASSUME NEW o \in Fsm!OnEvent(fsm, e), Took(o)
      PROVE  AgreeInv'
  <2>1. CASE e = "ControlRedirect"
    <3>1. Outcome
      BY <1>0, <1>1, <1>2, <1>4, <1>6, <2>1, RedirectTaken DEF e
    <3> QED BY <1>1, <1>2, <1>6, <3>1, TookKeeps
  <2>2. CASE e = "ControlGracefulClose"
    <3>1. Outcome
      BY <1>0, <1>1, <1>2, <1>4, <1>6, <2>2, EndingTaken DEF e
    <3> QED BY <1>1, <1>2, <1>6, <3>1, TookKeeps
  <2>3. CASE e = "ControlCloseImmediate"
    <3>1. Fsm!Ends(fsm.flags, o, {})
      BY <1>0, <1>1, <1>6, <2>3, LiveStates, Fsm!BreakOutcome
    <3>2. Outcome
      BY <1>0, <1>1, <1>2, <1>6, <2>3, <3>1, BreakTaken DEF e
    <3> QED BY <1>1, <1>2, <1>6, <3>2, TookKeeps
  <2> QED BY <1>1, <2>1, <2>2, <2>3 DEF Controls, e
<1> QED BY <1>4, <1>5, <1>6

LEMMA LoopDeadlineKeeps == ASSUME Shapes, AgreeInv, LoopDeadline PROVE AgreeInv'
<1> DEFINE e == IF loop.deadline = "drain" THEN "DrainTimerExpired"
                ELSE "HandshakeTimerExpired"
           l == [loop EXCEPT !.deadline = "none"]
<1>0. /\ Steady /\ Known /\ Requesting /\ Redirection /\ Ordering
      /\ fsm \in Fsm!Machines /\ faults = {}
  BY AgreedSteady
<1>1. /\ Live /\ loop.pc = "select" /\ loop.out = <<>> /\ loop \in Loops
      /\ Elsewhere /\ faults' = faults /\ Queue' = Queue
      /\ Redirecting' = Redirecting /\ OneControl' = OneControl /\ Apply(e, l)
  BY DEF LoopDeadline, Selecting, Live, Shapes, Elsewhere, Queue, Redirecting, OneControl
<1>2. /\ e \in Machine!Events /\ e \in {"DrainTimerExpired", "HandshakeTimerExpired"}
      /\ l \in Loops /\ l.out = <<>> /\ l.parked = loop.parked /\ l.terminal = loop.terminal
  BY <1>1, SomeEvents DEF Loops
<1> HIDE DEF e, l
<1>3. /\ \/ Fsm!OnEvent(fsm, e) = {} /\ fsm' = fsm /\ loop'.out = <<>>
         \/ \E o \in Fsm!OnEvent(fsm, e) : Took(o)
      /\ loop'.pc # "ended"
      /\ loop'.parked = loop.parked /\ loop'.terminal = loop.terminal
  BY <1>1, <1>2, Applied
<1>4. OneControl'
  BY <1>0, <1>1 DEF Ordering
<1>5. CASE Fsm!OnEvent(fsm, e) = {} /\ fsm' = fsm /\ loop'.out = <<>>
  BY <1>1, <1>3, <1>4, <1>5, DroppedKeeps
<1>6. ASSUME NEW o \in Fsm!OnEvent(fsm, e), Took(o)
      PROVE  AgreeInv'
  <2>1. Outcome
    BY <1>0, <1>1, <1>2, <1>3, <1>6, EndingTaken
  <2> QED BY <1>1, <1>4, <1>6, <2>1, TookKeeps
<1> QED BY <1>3, <1>5, <1>6

\* Every event of the engine has an answer, and the answer keeps the invariant.
LEMMA EventAnswered ==
    ASSUME Steady, Live, NEW e \in Machine!Events, Queue = e,
           e \in Commands => fsm.state # "RedirectPending"
    PROVE  /\ Fsm!OnEvent(fsm, e) # {}
           /\ \A o \in Fsm!OnEvent(fsm, e) : Took(o) /\ SlotTaken => Outcome
<1>1. Known /\ Requesting /\ Redirection /\ fsm \in Fsm!Machines
  BY SteadyKnown
<1>2. \/ e \in {"ClientEof", "BackendIoError"} \/ e \in Migrated
      \/ e \in {"BackendGreetingReceived", "BackendResponsePart"}
      \/ e \in {"BackendAuthOk", "BackendAuthFailed"}
      \/ e \in Committed \union {"InternalResponseError"}
      \/ e \in Commands \/ e \in Completions
  <2>1. e # ""
    BY DEF Machine!Events, Machine!HandshakeEvents, Machine!CommandEvents,
       Machine!KnowledgeEvents, Machine!ClientGone, Machine!BackendGone
  <2> QED BY <1>1, <2>1 DEF Requesting, TaskInv, RequestEvents
<1>3. /\ e = "BackendGreetingReceived" => fsm.state = "FrontendHandshake"
      /\ e \in {"BackendAuthOk", "BackendAuthFailed"} => fsm.state = "BackendHandshake"
      /\ e \in Commands => fsm.state \in {"Ready", "Draining"}
      /\ e = "BackendResponsePart" => fsm.state \in {"Command", "Response"}
      /\ e \in Completions => fsm.state \in {"Command", "Response"}
      /\ e \in Committed \union {"InternalResponseError"} => fsm.state = "Command"
      /\ e \in Migrated => fsm.state = "RedirectPending"
  BY <1>1, EventFits DEF Resting, Serving
<1>4. CASE e \in {"ClientEof", "BackendIoError"}
  <2>1. /\ Fsm!OnEvent(fsm, e) # {}
        /\ \A o \in Fsm!OnEvent(fsm, e) : Fsm!Ends(fsm.flags, o, {})
    BY <1>1, <1>4, LiveStates, Fsm!BreakOutcome
  <2> QED BY <2>1, BreakTaken DEF SlotTaken
<1>5. CASE e \in Migrated
  <2>1. Fsm!OnEvent(fsm, e) # {}
    BY <1>1, <1>3, <1>5, Fsm!MigrationOutcome DEF Migrated
  <2> QED BY <1>5, <2>1, MigrationTaken
<1>6. CASE e = "BackendGreetingReceived"
  <2>1. Fsm!OnEvent(fsm, e) # {}
    BY <1>1, <1>3, <1>6, Fsm!GreetingOutcome
  <2> QED BY <1>6, <2>1, GreetingTaken
<1>7. CASE e \in {"BackendAuthOk", "BackendAuthFailed"}
  <2>1. Fsm!OnEvent(fsm, e) # {}
    BY <1>1, <1>3, <1>7, Fsm!AuthOutcome
  <2> QED BY <1>7, <2>1, AuthTaken
<1>8. CASE e \in Committed \union {"InternalResponseError"}
  <2>1. Fsm!OnEvent(fsm, e) # {}
    BY <1>1, <1>3, <1>8, Fsm!CommitOutcome DEF Committed
  <2> QED BY <1>8, <2>1, CommitTaken
<1>9. CASE e \in Commands
  <2>1. Fsm!OnEvent(fsm, e) # {}
    BY <1>1, <1>3, <1>9, Fsm!CommandOutcome DEF Commands
  <2> QED BY <1>3, <1>9, <2>1, CommandTaken DEF SlotTaken
<1>10. CASE e = "BackendResponsePart"
  <2>1. Fsm!OnEvent(fsm, e) # {}
    BY <1>1, <1>3, <1>10, Fsm!AnswerOutcome
  <2> QED BY <1>10, <2>1, PartTaken
<1>11. CASE e \in Completions
  <2>1. Fsm!OnEvent(fsm, e) # {}
    BY <1>1, <1>3, <1>11, Fsm!AnswerOutcome DEF Completions
  <2> QED BY <1>11, <2>1, AnswerTaken
<1> QED BY <1>2, <1>4, <1>5, <1>6, <1>7, <1>8, <1>9, <1>10, <1>11

\* The slot holds one event.
LEMMA SlotEmptied ==
    ASSUME Shapes, events # <<>>, events' = Tail(events)
    PROVE  Queue = Head(events) /\ Head(events) \in Machine!Events /\ Queue' = ""
<1>1. Tail(events) = <<>> /\ Head(events) \in Machine!Events
  <2>1. ASSUME NEW q \in Seq(Machine!Events), Len(q) <= 1, q # <<>>
        PROVE  Tail(q) = <<>> /\ Head(q) \in Machine!Events
    <3>1. Len(q) \in Nat /\ Len(q) # 0 /\ Len(Tail(q)) = Len(q) - 1
      BY <2>1
    <3>2. Tail(q) \in Seq(Machine!Events) /\ Head(q) \in Machine!Events
      BY <2>1
    <3>3. ASSUME NEW r \in Seq(Machine!Events) PROVE r = <<>> <=> Len(r) = 0
      OBVIOUS
    <3> QED BY <2>1, <3>1, <3>2, <3>3
  <2> QED BY <2>1 DEF Shapes, Channel
<1> QED BY <1>1 DEF Queue

LEMMA LoopEventKeeps == ASSUME Shapes, AgreeInv, LoopEvent PROVE AgreeInv'
<1> DEFINE e == Head(events)
<1>0. /\ Steady /\ Known /\ Requesting /\ Redirection /\ Ordering
      /\ fsm \in Fsm!Machines /\ faults = {}
  BY AgreedSteady
<1>1. /\ Live /\ loop.pc = "select" /\ loop.out = <<>> /\ loop \in Loops
      /\ Elsewhere /\ Redirecting' = Redirecting /\ OneControl' = OneControl
      /\ events # <<>> /\ events' = Tail(events)
  BY DEF LoopEvent, Selecting, Live, Shapes, Elsewhere, Redirecting, OneControl
<1>2. Queue = e /\ Queue' = "" /\ e \in Machine!Events
  BY <1>1, SlotEmptied
<1>3. OneControl'
  BY <1>0, <1>1 DEF Ordering
<1>4. CASE Parks(e)
  <2>1. /\ loop' = [loop EXCEPT !.parked = e] /\ fsm' = fsm /\ faults' = faults
        /\ fsm.state = "RedirectPending" /\ e \in Commands
    BY <1>4 DEF LoopEvent, Parks, Commands
  <2>2. /\ loop'.parked = Queue /\ loop'.out = loop.out /\ loop'.pc = loop.pc
        /\ loop'.terminal = loop.terminal
    BY <1>1, <1>2, <2>1 DEF Loops
  <2>3. /\ SameTask /\ SamePlace /\ SameOwner /\ Afloat' = Afloat /\ Prepared' = Prepared
        /\ server' = server
        /\ WireOrder' /\ PrepareOrder' /\ Listed' /\ OneReport' /\ OneOffer'
    BY <1>1, <2>1, <2>2, DroppedViews
  <2>4. Around
    BY <1>1, <2>2, <2>3 DEF Around
  <2>5. Requesting' /\ Redirection'
    BY <1>0, <1>1, <1>2, <2>1, <2>2, <2>3, <2>4, ParkStep
  <2> QED BY <1>0, <1>3, <2>1, <2>3, <2>5 DEF AgreeInv, Ordering
<1>5. CASE ~Parks(e)
  <2>1. /\ Apply(e, loop)
        /\ faults' = faults \union
               (IF Machine!OnEvent(fsm, e) = {} THEN {"event rejected"} ELSE {})
    BY <1>5 DEF LoopEvent
  <2>2. e \in Commands => fsm.state # "RedirectPending"
    BY <1>0, <1>1, <1>2, <1>5, EventFits DEF Parks, Commands
  <2> HIDE DEF e
  <2>3. /\ \/ Fsm!OnEvent(fsm, e) = {} /\ fsm' = fsm /\ loop'.out = <<>>
           \/ \E o \in Fsm!OnEvent(fsm, e) : Took(o)
        /\ loop'.parked = loop.parked /\ loop'.terminal = loop.terminal
    BY <1>1, <1>2, <2>1, Applied
  <2>4. /\ Fsm!OnEvent(fsm, e) # {}
        /\ \A o \in Fsm!OnEvent(fsm, e) : Took(o) /\ SlotTaken => Outcome
    BY <1>0, <1>1, <1>2, <2>2, EventAnswered
  <2>5. SlotTaken
    BY <1>1, <1>2, <2>3 DEF SlotTaken
  <2>6. faults' = faults
    BY <1>0, <2>1, <2>4, SameMachine
  <2>7. PICK o \in Fsm!OnEvent(fsm, e) : Took(o)
    BY <2>3, <2>4
  <2>8. Outcome
    BY <2>4, <2>5, <2>7
  <2> QED BY <1>3, <2>6, <2>7, <2>8, TookKeeps
<1> QED BY <1>4, <1>5

LEMMA LoopUnparkKeeps == ASSUME Shapes, AgreeInv, LoopUnpark PROVE AgreeInv'
<1> DEFINE e == loop.parked
           l == [loop EXCEPT !.parked = ""]
<1>0. /\ Steady /\ Known /\ Requesting /\ Redirection /\ Ordering
      /\ fsm \in Fsm!Machines /\ faults = {}
  BY AgreedSteady
<1>1. /\ fsm.state = "Ready" /\ loop.pc = "select" /\ loop.out = <<>> /\ loop \in Loops
      /\ Elsewhere /\ faults' = faults /\ Queue' = Queue
      /\ Redirecting' = Redirecting /\ OneControl' = OneControl /\ Apply(e, l)
      /\ e # ""
  BY DEF LoopUnpark, Unparks, Shapes, Elsewhere, Queue, Redirecting, OneControl
<1>2. /\ e \in Commands /\ e \in Machine!Events
      /\ l \in Loops /\ l.out = <<>> /\ l.parked = "" /\ l.terminal = loop.terminal
  BY <1>1, SomeEvents DEF Loops, Commands
<1>3. Live /\ OneControl'
  BY <1>0, <1>1 DEF Live, Ordering
<1> HIDE DEF l
<1>4. /\ \/ Fsm!OnEvent(fsm, e) = {} /\ fsm' = fsm /\ loop'.out = <<>>
         \/ \E o \in Fsm!OnEvent(fsm, e) : Took(o)
      /\ loop'.parked = "" /\ loop'.terminal = loop.terminal
  BY <1>1, <1>2, Applied
<1>5. Fsm!OnEvent(fsm, e) # {}
  BY <1>0, <1>1, <1>2, Fsm!CommandOutcome DEF Commands
<1>6. PICK o \in Fsm!OnEvent(fsm, e) : Took(o)
  BY <1>4, <1>5
<1>7. Outcome
  BY <1>0, <1>1, <1>2, <1>3, <1>4, <1>6, CommandTaken
<1> QED BY <1>1, <1>3, <1>6, <1>7, TookKeeps

\* Nothing that the invariant speaks of changes.
LEMMA StillKeeps ==
    ASSUME Shapes, AgreeInv,
           UNCHANGED <<fsm, events, cmds, control, reports, loop, engine, owner, route,
                       inbox, server, faults, bounds>>
    PROVE  AgreeInv'
<1>1. /\ SameTask /\ SamePlace /\ SameOwner
      /\ Listed' = Listed /\ OneReport' = OneReport /\ OneOffer' = OneOffer
  BY ViewsKept
<1>2. /\ Afloat' = Afloat /\ Prepared' = Prepared
      /\ (WireOrder => WireOrder') /\ (PrepareOrder => PrepareOrder')
  BY WireKept
<1>3. Queue' = Queue /\ Redirecting' = Redirecting /\ OneControl' = OneControl
  BY DEF Queue, Redirecting, OneControl
<1>4. Requesting' /\ Redirection'
  BY <1>1, <1>2, <1>3, UnseenStep DEF AgreeInv
<1> QED BY <1>1, <1>2, <1>3, <1>4 DEF AgreeInv, Ordering

LEMMA LoopProbeKeeps == ASSUME Shapes, AgreeInv, LoopProbe PROVE AgreeInv'
<1>1. /\ cmds = <<>> /\ cmds' = <<Probe>> /\ loop' = [loop EXCEPT !.pc = "probe", !.reply = "none"]
      /\ loop.pc = "select" /\ loop \in Loops
      /\ UNCHANGED <<fsm, events, control, reports, engine, owner, route, inbox, server,
                     faults, bounds>>
  BY DEF LoopProbe, Quiescent, OthersQuiet, Selecting, Shapes
<1>2. /\ loop'.out = loop.out /\ loop'.parked = loop.parked /\ loop'.terminal = loop.terminal
      /\ loop'.pc = "probe"
  BY <1>1 DEF Loops
<1>3. /\ SameTask /\ SamePlace /\ SameOwner
      /\ Listed' = Listed /\ OneReport' = OneReport /\ OneOffer' = OneOffer
  BY <1>1, ViewsKept
<1>4. /\ Afloat' = Afloat /\ Prepared' = {}
      /\ (WireOrder => WireOrder') /\ (PrepareOrder => PrepareOrder')
  BY <1>1, <1>2, WireEmptied
<1>5. Prepared = {}
  BY <1>1 DEF Prepared, InCmds
<1>6. Queue' = Queue /\ Redirecting' = Redirecting /\ OneControl' = OneControl
  BY <1>1 DEF Queue, Redirecting, OneControl
<1>7. Requesting' /\ Redirection'
  BY <1>1, <1>2, <1>3, <1>4, <1>5, <1>6, UnseenStep DEF AgreeInv
<1> QED BY <1>1, <1>3, <1>4, <1>6, <1>7 DEF AgreeInv, Ordering

LEMMA LoopProbedKeeps == ASSUME IInv, AgreeInv, LoopProbed PROVE AgreeInv'
<1>0. /\ Steady /\ Known /\ Requesting /\ Redirection /\ Ordering
      /\ fsm \in Fsm!Machines /\ faults = {} /\ Shapes
  BY AgreedSteady DEF IInv
<1>1. /\ loop.pc = "probe" /\ loop.out = <<>> /\ loop \in Loops /\ Live
      /\ Elsewhere /\ faults' = faults /\ Queue' = Queue
      /\ Redirecting' = Redirecting /\ OneControl' = OneControl
  BY DEF LoopProbed, IInv, ProbeInv, Shapes, Live, Elsewhere, Queue, Redirecting, OneControl
<1>2. OneControl'
  BY <1>0, <1>1 DEF Ordering
<1>3. CASE loop.reply = "dead"
  <2> DEFINE e == "BackendIoError"
  <2>1. Apply(e, loop) /\ e \in Machine!Events
    BY <1>3, SomeEvents DEF LoopProbed
  <2>2. \/ Fsm!OnEvent(fsm, e) = {} /\ fsm' = fsm /\ loop'.out = <<>>
        \/ \E o \in Fsm!OnEvent(fsm, e) : Took(o)
    BY <1>0, <1>1, <2>1, Applied
  <2>3. /\ Fsm!OnEvent(fsm, e) # {}
        /\ \A o \in Fsm!OnEvent(fsm, e) : Fsm!Ends(fsm.flags, o, {})
    BY <1>0, <1>1, LiveStates, Fsm!BreakOutcome
  <2>4. PICK o \in Fsm!OnEvent(fsm, e) : Took(o)
    BY <2>2, <2>3
  <2>5. Outcome
    BY <1>0, <1>1, <2>3, <2>4, BreakTaken
  <2> QED BY <1>0, <1>1, <1>2, <2>4, <2>5, TookKeeps
<1>4. CASE loop.reply # "dead"
  <2>1. loop' = [loop EXCEPT !.pc = "select"] /\ fsm' = fsm
    BY <1>4 DEF LoopProbed
  <2>2. /\ loop'.out = loop.out /\ loop'.parked = loop.parked
        /\ loop'.terminal = loop.terminal /\ loop'.pc = "select"
    BY <1>1, <2>1 DEF Loops
  <2> QED BY <1>0, <1>1, <1>2, <2>1, <2>2, DroppedKeeps
<1> QED BY <1>3, <1>4

LEMMA LoopEffectKeeps == ASSUME Shapes, AgreeInv, LoopEffect PROVE AgreeInv'
<1>1. /\ UNCHANGED <<fsm, events, control, reports, engine, owner, route, inbox, server,
                     faults, bounds>>
      /\ loop.pc = "effects" /\ loop \in Loops
      /\ loop' = [loop EXCEPT !.out = Tail(@),
                              !.pc = IF Len(loop.out) = 1 THEN "select" ELSE "effects"]
  BY DEF LoopEffect, Shapes
<1>2. loop'.parked = loop.parked /\ loop'.terminal = loop.terminal /\ loop'.pc # "ended"
  <2> DEFINE out == Tail(loop.out)
             pc == IF Len(loop.out) = 1 THEN "select" ELSE "effects"
  <2>1. loop' = [loop EXCEPT !.out = out, !.pc = pc] /\ pc # "ended"
    BY <1>1
  <2> HIDE DEF out, pc
  <2> QED BY <1>1, <2>1 DEF Loops
<1>3. /\ SameTask /\ SamePlace /\ SameOwner
      /\ Listed' = Listed /\ OneReport' = OneReport /\ OneOffer' = OneOffer
  BY <1>1, ViewsKept
<1>4. /\ Afloat' = Afloat /\ Prepared' = Prepared
      /\ (WireOrder => WireOrder') /\ (PrepareOrder => PrepareOrder')
  BY WireMoves
<1>6. Queue' = Queue /\ Redirecting' = Redirecting /\ OneControl' = OneControl
  BY <1>1 DEF Queue, Redirecting, OneControl
<1>7. Requesting' /\ Redirection'
  BY <1>1, <1>2, <1>3, <1>4, <1>6, UnseenStep DEF AgreeInv
<1> QED BY <1>1, <1>3, <1>4, <1>6, <1>7 DEF AgreeInv, Ordering

LEMMA LoopShutdownKeeps == ASSUME Shapes, AgreeInv, LoopShutdown PROVE AgreeInv'
<1> DEFINE e == "ControlCloseImmediate"
           l == [loop EXCEPT !.terminal = TRUE, !.parked = "", !.deadline = "none"]
<1>0. /\ Steady /\ Known /\ Requesting /\ Redirection /\ Ordering
      /\ fsm \in Fsm!Machines /\ faults = {}
  BY AgreedSteady
<1>1. /\ Live /\ loop.pc = "select" /\ loop.out = <<>> /\ loop \in Loops
      /\ Elsewhere /\ faults' = faults /\ Queue' = ""
      /\ Redirecting' = Redirecting /\ OneControl' = OneControl /\ Apply(e, l)
  BY DEF LoopShutdown, Live, Shapes, Elsewhere, Queue, Redirecting, OneControl
<1>2. e \in Machine!Events /\ l \in Loops /\ l.out = <<>>
  BY <1>1, SomeEvents DEF Loops, Controls
<1>3. OneControl'
  BY <1>0, <1>1 DEF Ordering
<1> HIDE DEF l
<1>4. \/ Fsm!OnEvent(fsm, e) = {} /\ fsm' = fsm /\ loop'.out = <<>>
      \/ \E o \in Fsm!OnEvent(fsm, e) : Took(o)
  BY <1>1, <1>2, Applied
<1>5. /\ Fsm!OnEvent(fsm, e) # {}
      /\ \A o \in Fsm!OnEvent(fsm, e) : Fsm!Ends(fsm.flags, o, {})
  BY <1>0, <1>1, LiveStates, Fsm!BreakOutcome
<1>6. PICK o \in Fsm!OnEvent(fsm, e) : Took(o)
  BY <1>4, <1>5
<1>7. Outcome
  BY <1>0, <1>1, <1>5, <1>6, BreakTaken
<1> QED BY <1>1, <1>3, <1>6, <1>7, TookKeeps

LEMMA LoopTeardownKeeps == ASSUME Shapes, AgreeInv, LoopTeardown PROVE AgreeInv'
<1>0. /\ Known /\ Requesting /\ Redirection /\ Ordering
      /\ fsm \in Fsm!Machines /\ faults = {}
  BY AgreedSteady
<1>1. /\ fsm.state = "Closing" /\ loop.out = <<>> /\ loop \in Loops
      /\ UNCHANGED <<cmds, reports, engine, owner, route, inbox, server, faults, bounds>>
      /\ events' = <<>> /\ control' = <<>>
      /\ loop' = [loop EXCEPT !.pc = "ended", !.terminal = TRUE, !.parked = "",
                              !.deadline = "none"]
  BY DEF LoopTeardown, Shapes
<1>2. loop'.out = loop.out /\ loop'.pc = "ended"
  BY <1>1 DEF Loops
<1>3. fsm'.state = "Closed" /\ fsm'.flags = fsm.flags
  BY <1>0, <1>1, SameMachine, Fsm!ClosedOutcome DEF LoopTeardown
<1>4. /\ SameTask /\ SamePlace /\ SameOwner
      /\ Listed' = Listed /\ OneReport' = OneReport /\ OneOffer' = OneOffer
  BY <1>1, ViewsKept
<1>5. /\ Afloat' = Afloat /\ Prepared' = Prepared
      /\ (WireOrder => WireOrder') /\ (PrepareOrder => PrepareOrder')
  BY <1>1, <1>2, WireKept
<1>6. Queue' = "" /\ ~Redirecting' /\ OneControl'
  BY <1>1 DEF Queue, Redirecting, OneControl
<1>7. ~Live /\ ~Live'
  BY <1>1, <1>3 DEF Live
<1>8. Requesting' /\ Redirection'
  BY <1>0, <1>1, <1>2, <1>3, <1>4, <1>5, <1>6, <1>7, TeardownStep
<1> QED BY <1>0, <1>1, <1>4, <1>5, <1>6, <1>8 DEF AgreeInv, Ordering

-----------------------------------------------------------------------------
(* The engine, as the invariant sees it *)

\* What a step of the engine leaves alone.
Aside == /\ fsm' = fsm /\ SameOwner /\ Redirecting' = Redirecting
         /\ loop'.pc = loop.pc /\ loop'.parked = loop.parked
         /\ loop'.terminal = loop.terminal
SameWire == Afloat' = Afloat /\ Prepared' = Prepared
SameEnds == /\ engine'.backend = engine.backend /\ engine'.target = engine.target
            /\ engine'.candidate = engine.candidate

\* The engine has nothing to do; it asks the loop, and awaits the effects A.
Free == TaskOp = "none" /\ Word = "" /\ Result = "" /\ Awaited = {}
Asks(e, A) == TaskOp' = "send" /\ Word' = e /\ Result' = "" /\ Awaited' = A
Tells(e) == TaskOp' = "tell" /\ Word' = e /\ Result' = ""

\* The first effect, x, leaves the wire.
Leaving(y, x) == /\ y \in Afloat' => y \in Afloat
                 /\ y \in Afloat /\ y # x => y \in Afloat'
Leaves(x) ==
    /\ Leaving("ForwardHandshakeToBackend", x) /\ Leaving("AttachBackend", x)
    /\ Leaving("ForwardAuthResultToClient", x) /\ Leaving("ForwardCommandToBackend", x)
    /\ Leaving("ForwardResponseToClient", x) /\ Leaving("StartRedirectHandshake", x)
    /\ Leaving("SwapBackend", x) /\ Leaving("ResumeHeldRequest", x)
    /\ Leaving("NotifyRedirectSucceeded", x) /\ Leaving("NotifyRedirectFailed", x)
    /\ Leaving("ReleaseBackend", x) /\ Leaving("CloseBackend", x)
    /\ Leaving("CloseClient", x) /\ Leaving("ClassifySessionEnd", x)
    /\ Prepared' \subseteq Prepared

\* An event reaches the slot of the loop.
LEMMA SendStep ==
    ASSUME Requesting,
           Redirection,
           Known,
           Aside,
           SameWire,
           SamePlace,
           server' = server,
           TaskOp \in {"send", "tell"},
           Queue = "",
           Queue' = Word,
           TaskOp' \in {"none", "await"},
           Word' = "",
           Result' = "",
           Awaited' = Awaited,
           TaskOp' = "none" => Awaited = {}
    PROVE  Requesting' /\ Redirection'
<1> USE DEF Requesting, SameTask, SamePlace, Live, Over, Draining, Told, Resting, Serving,
            Granted, Completions, Committed, Commands, Migrated, RequestEvents, Ending,
            Working, Serves,
            Aside, SameOwner, SameWire, SameEnds, Free, Asks, Tells
<1>1. TaskInv'
  BY DEF TaskInv, Known, AwaitSets
<1>2. GrantInv'
  BY DEF GrantInv, TeardownClass, TaskInv, Known, AwaitSets
<1>3. StateInv'
  BY DEF StateInv, Fits
<1>4. PhaseInv'
  BY DEF PhaseInv, TaskInv
<1>5. QueueInv'
  BY DEF QueueInv, TaskInv, StateInv, Fits
<1>6. AnswerInv'
  BY DEF AnswerInv, TaskInv, GrantInv
<1>7. QuietInv'
  BY DEF QuietInv
<1>8. MigrationInv'
  BY DEF MigrationInv, Started, Migrating
<1>9. Redirection'
  BY RedirectionKept DEF Redirection, EarlyInv, Known
<1> QED BY <1>1, <1>2, <1>3, <1>4, <1>5, <1>6, <1>7, <1>8, <1>9

\* The engine closes with the session.
LEMMA CloseStep ==
    ASSUME Requesting,
           Redirection,
           Known,
           Aside,
           SameEnds,
           server' = server,
           Queue' = Queue,
           Prepared' = Prepared,
           ~Live,
           TaskOp \in {"none", "await", "send"},
           engine.pc # "done",
           engine'.pc = Draining,
           Free',
           \A x \in {"NotifyRedirectSucceeded", "NotifyRedirectFailed", "SwapBackend",
                    "StartRedirectHandshake", "ResumeHeldRequest"} : x \in Afloat' <=> x \in Afloat
    PROVE  Requesting' /\ Redirection'
<1> USE DEF Requesting, SameTask, SamePlace, Live, Over, Draining, Told, Resting, Serving,
            Granted, Completions, Committed, Commands, Migrated, RequestEvents, Ending,
            Working, Serves,
            Aside, SameOwner, SameWire, SameEnds, Free, Asks, Tells
<1>1. TaskInv'
  BY DEF TaskInv
<1>2. GrantInv'
  BY DEF GrantInv, TeardownClass
<1>3. StateInv'
  BY DEF StateInv, Fits
<1>4. PhaseInv'
  BY DEF PhaseInv
<1>5. QueueInv'
  BY DEF QueueInv
<1>6. AnswerInv'
  BY DEF AnswerInv
<1>7. QuietInv'
  BY DEF QuietInv
<1>8. MigrationInv'
  BY DEF MigrationInv, Started, Migrating
<1>9. Redirection'
  BY RedirectionKept DEF Redirection, EarlyInv, Known
<1> QED BY <1>1, <1>2, <1>3, <1>4, <1>5, <1>6, <1>7, <1>8, <1>9

\* Nobody listens to what the engine tells.
LEMMA UntoldStep ==
    ASSUME Requesting,
           Redirection,
           Known,
           Aside,
           SameWire,
           SamePlace,
           server' = server,
           Queue' = Queue,
           ~Live,
           TaskOp = "tell",
           TaskOp' \in {"none", "await"},
           Word' = "",
           Result' = "",
           Awaited' = Awaited,
           TaskOp' = "none" => Awaited = {}
    PROVE  Requesting' /\ Redirection'
<1> USE DEF Requesting, SameTask, SamePlace, Live, Over, Draining, Told, Resting, Serving,
            Granted, Completions, Committed, Commands, Migrated, RequestEvents, Ending,
            Working, Serves,
            Aside, SameOwner, SameWire, SameEnds, Free, Asks, Tells
<1>1. TaskInv'
  BY DEF TaskInv, Known, AwaitSets
<1>2. GrantInv'
  BY DEF GrantInv, TeardownClass, TaskInv, Known, AwaitSets
<1>3. StateInv'
  BY DEF StateInv, Fits
<1>4. PhaseInv'
  BY DEF PhaseInv
<1>5. QueueInv'
  BY DEF QueueInv
<1>6. AnswerInv'
  BY DEF AnswerInv
<1>7. QuietInv'
  BY DEF QuietInv
<1>8. MigrationInv'
  BY DEF MigrationInv, Started, Migrating
<1>9. Redirection'
  BY RedirectionKept DEF Redirection, EarlyInv, Known
<1> QED BY <1>1, <1>2, <1>3, <1>4, <1>5, <1>6, <1>7, <1>8, <1>9

\* The outcome of a redirect is reported.
LEMMA ReportStep ==
    ASSUME Requesting,
           Redirection,
           Known,
           fsm' = fsm,
           owner' = owner,
           route' = route,
           bounds' = bounds,
           Offered' = Offered,
           Reported' = Reported \union {Result},
           Redirecting' = Redirecting,
           loop' = loop,
           SameWire,
           SamePlace,
           server' = server,
           Queue' = Queue,
           TaskOp = "report",
           TaskOp' \in {"none", "await"},
           Word' = "",
           Result' = "",
           Awaited' = Awaited,
           TaskOp' = "none" => Awaited = {}
    PROVE  Requesting' /\ Redirection'
<1> USE DEF Requesting, SameTask, SamePlace, Live, Over, Draining, Told, Resting, Serving,
            Granted, Completions, Committed, Commands, Migrated, RequestEvents, Ending,
            Working, Serves,
            Redirection, SameOwner, Ordered, Noticed, Announced, Answering, Owning, Swapped,
            Steering, Aimless,
            SameWire
<1>1. TaskInv'
  BY DEF TaskInv, Known, AwaitSets
<1>2. GrantInv'
  BY DEF GrantInv, TeardownClass, TaskInv, Known, AwaitSets
<1>3. StateInv'
  BY DEF StateInv, Fits
<1>4. PhaseInv'
  BY DEF PhaseInv, Known
<1>5. QueueInv'
  BY DEF QueueInv, Known
<1>6. AnswerInv'
  BY DEF AnswerInv, Known
<1>7. QuietInv'
  BY DEF QuietInv, Known
<1>8. MigrationInv'
  BY DEF MigrationInv, Started, Migrating
<1>9. TokenInv'
  BY DEF TokenInv, Known
<1>10. EarlyInv'
  BY DEF EarlyInv, Known
<1>11. TargetInv'
  BY DEF TargetInv, TokenInv, Known
<1>12. LedgerInv'
  BY DEF LedgerInv, TokenInv, Known
<1>13. EndInv'
  BY DEF EndInv
<1> QED BY <1>1, <1>2, <1>3, <1>4, <1>5, <1>6, <1>7, <1>8, <1>9, <1>10, <1>11, <1>12,
            <1>13

\* A migration ends, one way or another.
LEMMA MigrateStep ==
    ASSUME Requesting,
           Redirection,
           Known,
           Aside,
           SameWire,
           server' = server,
           Queue' = Queue,
           TaskOp = "migrate",
           Tells(Word'),
           Awaited' = Awaited,
           Word' \in Migrated \union {"BackendIoError"},
           engine'.pc = engine.pc,
           engine'.begun = engine.begun,
           engine'.backend = engine.backend,
           engine'.target = engine.target,
           Word' = "RedirectBackendReady" =>
               engine.target # None /\ engine'.candidate = engine.target,
           Word' # "RedirectBackendReady" => engine'.candidate = engine.candidate
    PROVE  Requesting' /\ Redirection'
<1> USE DEF Requesting, SameTask, SamePlace, Live, Over, Draining, Told, Resting, Serving,
            Granted, Completions, Committed, Commands, Migrated, RequestEvents, Ending,
            Working, Serves,
            Redirection, SameOwner, Ordered, Noticed, Announced, Answering, Owning, Swapped,
            Steering, Aimless,
            Aside, SameOwner, SameWire, SameEnds, Free, Asks, Tells
<1>1. TaskInv'
  BY DEF TaskInv, Known, AwaitSets
<1>2. GrantInv'
  BY DEF GrantInv, TeardownClass, TaskInv, Known, AwaitSets
<1>3. StateInv'
  BY DEF StateInv, Fits
<1>4. PhaseInv'
  BY DEF PhaseInv, Known
<1>5. QueueInv'
  BY DEF QueueInv, Known
<1>6. AnswerInv'
  BY DEF AnswerInv, Known
<1>7. QuietInv'
  BY DEF QuietInv, Known
<1>8. MigrationInv'
  BY DEF MigrationInv, Started, Migrating
<1>9. TokenInv'
  BY DEF TokenInv, Known
<1>10. EarlyInv'
  BY DEF EarlyInv, Known
<1>11. TargetInv'
  BY DEF TargetInv, MigrationInv, Migrating, Started
<1>12. LedgerInv'
  BY DEF LedgerInv, Known
<1>13. EndInv'
  BY DEF EndInv
<1> QED BY <1>1, <1>2, <1>3, <1>4, <1>5, <1>6, <1>7, <1>8, <1>9, <1>10, <1>11, <1>12,
            <1>13

\* What the engine awaited has come.
LEMMA AwaitedStep ==
    ASSUME Requesting,
           Redirection,
           Known,
           Aside,
           SamePlace,
           server' = server,
           Queue' = Queue,
           NEW x \in Granted,
           Leaves(x),
           x \notin Afloat',
           x \in Afloat,
           x \in Awaited,
           "AttachBackend" \in Awaited => x = "AttachBackend",
           x = "ForwardCommandToBackend" =>
               "SwapBackend" \notin Afloat' /\ "ResumeHeldRequest" \notin Afloat',
           TaskOp = "await",
           TaskOp' \in {"none", "await"},
           Word' = "",
           Result' = "",
           Awaited' = Awaited \ {x},
           TaskOp' = "none" => Awaited' = {}
    PROVE  Requesting' /\ Redirection'
<1> USE DEF Requesting, SameTask, SamePlace, Live, Over, Draining, Told, Resting, Serving,
            Granted, Completions, Committed, Commands, Migrated, RequestEvents, Ending,
            Working, Serves,
            Redirection, SameOwner, Ordered, Noticed, Announced, Answering, Owning, Swapped,
            Steering, Aimless,
            Aside, SameOwner, SameEnds, Free, Asks, Tells, Leaves, Leaving
<1>1. TaskInv'
  BY DEF TaskInv
<1>2. GrantInv'
  <2>1. CASE x = "ForwardHandshakeToBackend"
    BY <2>1 DEF GrantInv, TeardownClass, TaskInv, Known, AwaitSets
  <2>2. CASE x = "AttachBackend"
    BY <2>2 DEF GrantInv, TeardownClass, TaskInv, Known, AwaitSets
  <2>3. CASE x = "ForwardAuthResultToClient"
    BY <2>3 DEF GrantInv, TeardownClass, TaskInv, Known, AwaitSets
  <2>4. CASE x = "ForwardCommandToBackend"
    BY <2>4 DEF GrantInv, TeardownClass, TaskInv, Known, AwaitSets
  <2>5. CASE x = "ForwardResponseToClient"
    BY <2>5 DEF GrantInv, TeardownClass, TaskInv, Known, AwaitSets
  <2> QED BY <2>1, <2>2, <2>3, <2>4, <2>5
<1>3. StateInv'
  BY DEF StateInv, Fits, Known
<1>4. PhaseInv'
  <2>1. CASE x = "ForwardHandshakeToBackend"
    BY <2>1 DEF PhaseInv, Known, GrantInv, TaskInv, StateInv, QueueInv, AnswerInv
  <2>2. CASE x = "AttachBackend"
    BY <2>2, ZenonT(40) DEF PhaseInv, Known, GrantInv, TaskInv, StateInv, QueueInv, AnswerInv
  <2>3. CASE x = "ForwardAuthResultToClient"
    BY <2>3 DEF PhaseInv, Known, GrantInv, TaskInv, StateInv, QueueInv, AnswerInv
  <2>4. CASE x = "ForwardCommandToBackend"
    BY <2>4 DEF PhaseInv, Known, GrantInv, TaskInv, StateInv, QueueInv, AnswerInv
  <2>5. CASE x = "ForwardResponseToClient"
    BY <2>5 DEF PhaseInv, Known, GrantInv, TaskInv, StateInv, QueueInv, AnswerInv
  <2> QED BY <2>1, <2>2, <2>3, <2>4, <2>5
<1>5. QueueInv'
  <2>1. CASE x = "ForwardHandshakeToBackend"
    BY <2>1 DEF QueueInv, Known, AnswerInv, GrantInv
  <2>2. CASE x = "AttachBackend"
    BY <2>2 DEF QueueInv, Known, AnswerInv, GrantInv
  <2>3. CASE x = "ForwardAuthResultToClient"
    BY <2>3 DEF QueueInv, Known, AnswerInv, GrantInv
  <2>4. CASE x = "ForwardCommandToBackend"
    BY <2>4 DEF QueueInv, Known, AnswerInv, GrantInv
  <2>5. CASE x = "ForwardResponseToClient"
    BY <2>5 DEF QueueInv, Known, AnswerInv, GrantInv
  <2> QED BY <2>1, <2>2, <2>3, <2>4, <2>5
<1>6. AnswerInv'
  BY DEF AnswerInv, Known
<1>7. QuietInv'
  <2>1. CASE x = "ForwardHandshakeToBackend"
    BY <2>1 DEF QuietInv, Known, GrantInv, StateInv
  <2>2. CASE x = "AttachBackend"
    BY <2>2 DEF QuietInv, Known, GrantInv, StateInv
  <2>3. CASE x = "ForwardAuthResultToClient"
    BY <2>3 DEF QuietInv, Known, GrantInv, StateInv
  <2>4. CASE x = "ForwardCommandToBackend"
    BY <2>4 DEF QuietInv, Known, GrantInv, StateInv
  <2>5. CASE x = "ForwardResponseToClient"
    BY <2>5 DEF QuietInv, Known, GrantInv, StateInv
  <2> QED BY <2>1, <2>2, <2>3, <2>4, <2>5
<1>8. MigrationInv'
  BY DEF MigrationInv, Started, Migrating, Known
<1>9. TokenInv'
  BY DEF TokenInv, Known
<1>10. EarlyInv'
  BY DEF EarlyInv, Known
<1>11. TargetInv'
  BY DEF TargetInv, Known
<1>12. LedgerInv'
  BY DEF LedgerInv, Known
<1>13. EndInv'
  BY DEF EndInv
<1> QED BY <1>1, <1>2, <1>3, <1>4, <1>5, <1>6, <1>7, <1>8, <1>9, <1>10, <1>11, <1>12,
            <1>13

\* The timer of a drain concerns the loop only.
LEMMA TimerStep ==
    ASSUME Requesting,
           Redirection,
           Known,
           Aside,
           SamePlace,
           server' = server,
           Queue' = Queue,
           SameTask,
           Leaves("BeginDrainTimer")
    PROVE  Requesting' /\ Redirection'
<1> USE DEF Requesting, SameTask, SamePlace, Live, Over, Draining, Told, Resting, Serving,
            Granted, Completions, Committed, Commands, Migrated, RequestEvents, Ending,
            Working, Serves,
            Redirection, SameOwner, Ordered, Noticed, Announced, Answering, Owning, Swapped,
            Steering, Aimless,
            Aside, SameOwner, SameEnds, Free, Asks, Tells, Leaves, Leaving
<1>1. TaskInv'
  BY DEF TaskInv
<1>2. GrantInv'
  BY DEF GrantInv, TeardownClass
<1>3. StateInv'
  BY DEF StateInv, Fits
<1>4. PhaseInv'
  BY DEF PhaseInv
<1>5. QueueInv'
  BY DEF QueueInv
<1>6. AnswerInv'
  BY DEF AnswerInv
<1>7. QuietInv'
  BY DEF QuietInv
<1>8. MigrationInv'
  BY DEF MigrationInv, Started, Migrating
<1>9. TokenInv'
  BY DEF TokenInv
<1>10. EarlyInv'
  BY DEF EarlyInv
<1>11. TargetInv'
  BY DEF TargetInv
<1>12. LedgerInv'
  BY DEF LedgerInv
<1>13. EndInv'
  BY DEF EndInv
<1> QED BY <1>1, <1>2, <1>3, <1>4, <1>5, <1>6, <1>7, <1>8, <1>9, <1>10, <1>11, <1>12,
            <1>13

\* The target of a redirect arrives.
LEMMA PreparedStep ==
    ASSUME Requesting,
           Redirection,
           Known,
           Aside,
           SameTask,
           server' = server,
           Queue' = Queue,
           Afloat' = Afloat,
           Prepared' \subseteq Prepared,
           NEW r \in Prepared,
           r # None,
           engine'.pc = engine.pc,
           engine'.begun = engine.begun,
           engine'.backend = engine.backend,
           engine'.candidate = engine.candidate,
           engine'.target = IF engine.target = None /\ engine.candidate = None THEN r ELSE engine.target
    PROVE  Requesting' /\ Redirection'
<1> USE DEF Requesting, SameTask, SamePlace, Live, Over, Draining, Told, Resting, Serving,
            Granted, Completions, Committed, Commands, Migrated, RequestEvents, Ending,
            Working, Serves,
            Redirection, SameOwner, Ordered, Noticed, Announced, Answering, Owning, Swapped,
            Steering, Aimless,
            Aside, SameOwner
<1>1. TaskInv'
  BY DEF TaskInv
<1>2. GrantInv'
  BY DEF GrantInv, TeardownClass
<1>3. StateInv'
  BY DEF StateInv, Fits
<1>4. PhaseInv'
  BY DEF PhaseInv
<1>5. QueueInv'
  BY DEF QueueInv
<1>6. AnswerInv'
  BY DEF AnswerInv
<1>7. QuietInv'
  BY DEF QuietInv
<1>8. MigrationInv'
  BY DEF MigrationInv, Started, Migrating
<1>9. TokenInv'
  BY DEF TokenInv
<1>10. EarlyInv'
  BY DEF EarlyInv
<1>11. TargetInv'
  BY DEF TargetInv
<1>12. LedgerInv'
  BY DEF LedgerInv
<1>13. EndInv'
  BY DEF EndInv
<1> QED BY <1>1, <1>2, <1>3, <1>4, <1>5, <1>6, <1>7, <1>8, <1>9, <1>10, <1>11, <1>12,
            <1>13

\* The backend is exchanged.
LEMMA SwappedStep ==
    ASSUME Requesting,
           Redirection,
           Known,
           Aside,
           Queue' = Queue,
           SameTask,
           engine'.pc = engine.pc,
           engine'.begun = engine.begun,
           Leaves("SwapBackend"),
           "SwapBackend" \in Afloat,
           "SwapBackend" \notin Afloat',
           Prepared' = {},
           TaskOp \in {"none", "await"},
           engine.pc # "dial",
           ~server'.txn,
           ~server'.busy,
           engine'.backend = engine.candidate,
           engine'.candidate = None,
           engine'.target = None
    PROVE  Requesting' /\ Redirection'
<1> USE DEF Requesting, SameTask, SamePlace, Live, Over, Draining, Told, Resting, Serving,
            Granted, Completions, Committed, Commands, Migrated, RequestEvents, Ending,
            Working, Serves,
            Redirection, SameOwner, Ordered, Noticed, Announced, Answering, Owning, Swapped,
            Steering, Aimless,
            Aside, SameOwner, SameEnds, Free, Asks, Tells, Leaves, Leaving
<1>1. TaskInv'
  BY DEF TaskInv, Known, AwaitSets
<1>2. GrantInv'
  BY DEF GrantInv, TeardownClass, TaskInv, Known, AwaitSets
<1>3. StateInv'
  BY DEF StateInv, Fits
<1>4. PhaseInv'
  BY DEF PhaseInv, Known
<1>5. QueueInv'
  BY DEF QueueInv, Known
<1>6. AnswerInv'
  BY DEF AnswerInv, Known
<1>7. QuietInv'
  BY DEF QuietInv, Known
<1>8. MigrationInv'
  BY DEF MigrationInv, Started, Migrating, Known, TokenInv, Redirection
<1>9. TokenInv'
  BY DEF TokenInv, Known
<1>10. EarlyInv'
  BY DEF EarlyInv, Known
<1>11. TargetInv'
  BY DEF TargetInv, Known, TokenInv, MigrationInv
<1>12. LedgerInv'
  BY DEF LedgerInv, Known, TokenInv, MigrationInv, TargetInv
<1>13. EndInv'
  BY DEF EndInv
<1> QED BY <1>1, <1>2, <1>3, <1>4, <1>5, <1>6, <1>7, <1>8, <1>9, <1>10, <1>11, <1>12,
            <1>13

\* A migration starts.
LEMMA StartedStep ==
    ASSUME Requesting,
           Redirection,
           Known,
           Aside,
           server' = server,
           Queue' = Queue,
           SamePlace,
           Leaves("StartRedirectHandshake"),
           "StartRedirectHandshake" \in Afloat,
           "StartRedirectHandshake" \notin Afloat',
           Prepared' = {},
           TaskOp \in {"none", "await"},
           TaskOp' = "migrate",
           Word' = "",
           Result' = "",
           Awaited' = Awaited
    PROVE  Requesting' /\ Redirection'
<1> USE DEF Requesting, SameTask, SamePlace, Live, Over, Draining, Told, Resting, Serving,
            Granted, Completions, Committed, Commands, Migrated, RequestEvents, Ending,
            Working, Serves,
            Redirection, SameOwner, Ordered, Noticed, Announced, Answering, Owning, Swapped,
            Steering, Aimless,
            Aside, SameOwner, SameEnds, Free, Asks, Tells, Leaves, Leaving
<1>1. TaskInv'
  BY DEF TaskInv, Known, AwaitSets
<1>2. GrantInv'
  BY DEF GrantInv, TeardownClass, TaskInv, Known, AwaitSets
<1>3. StateInv'
  BY DEF StateInv, Fits
<1>4. PhaseInv'
  BY DEF PhaseInv, Known
<1>5. QueueInv'
  BY DEF QueueInv, Known
<1>6. AnswerInv'
  BY DEF AnswerInv, Known
<1>7. QuietInv'
  BY DEF QuietInv, Known
<1>8. MigrationInv'
  BY DEF MigrationInv, Started, Migrating, Known, TokenInv, Redirection, Answering, Noticed
<1>9. TokenInv'
  BY DEF TokenInv, Known
<1>10. EarlyInv'
  BY DEF EarlyInv, Known
<1>11. TargetInv'
  BY DEF TargetInv, Known, TokenInv
<1>12. LedgerInv'
  BY DEF LedgerInv, Known, TokenInv
<1>13. EndInv'
  BY DEF EndInv
<1> QED BY <1>1, <1>2, <1>3, <1>4, <1>5, <1>6, <1>7, <1>8, <1>9, <1>10, <1>11, <1>12,
            <1>13

\* The engine hears of the success of a redirect.
LEMMA SucceededStep ==
    ASSUME Requesting,
           Redirection,
           Known,
           Aside,
           server' = server,
           Queue' = Queue,
           SamePlace,
           Leaves("NotifyRedirectSucceeded"),
           "NotifyRedirectSucceeded" \in Afloat,
           "NotifyRedirectSucceeded" \notin Afloat',
           Prepared' = {},
           TaskOp \in {"none", "await"},
           "SwapBackend" \notin Afloat',
           "NotifyRedirectFailed" \notin Afloat',
           TaskOp' = "report",
           Word' = "",
           Result' = "succeeded",
           Awaited' = Awaited
    PROVE  Requesting' /\ Redirection'
<1> USE DEF Requesting, SameTask, SamePlace, Live, Over, Draining, Told, Resting, Serving,
            Granted, Completions, Committed, Commands, Migrated, RequestEvents, Ending,
            Working, Serves,
            Redirection, SameOwner, Ordered, Noticed, Announced, Answering, Owning, Swapped,
            Steering, Aimless,
            Aside, SameOwner, SameEnds, Free, Asks, Tells, Leaves, Leaving
<1>1. TaskInv'
  BY DEF TaskInv, Known, AwaitSets
<1>2. GrantInv'
  BY DEF GrantInv, TeardownClass, TaskInv, Known, AwaitSets
<1>3. StateInv'
  BY DEF StateInv, Fits
<1>4. PhaseInv'
  BY DEF PhaseInv, Known
<1>5. QueueInv'
  BY DEF QueueInv, Known
<1>6. AnswerInv'
  BY DEF AnswerInv, Known
<1>7. QuietInv'
  BY DEF QuietInv, Known
<1>8. MigrationInv'
  BY DEF MigrationInv, Started, Migrating, Known, TokenInv, Redirection, Answering, Noticed
<1>9. TokenInv'
  BY DEF TokenInv, Known
<1>10. EarlyInv'
  BY DEF EarlyInv, Known
<1>11. TargetInv'
  BY DEF TargetInv, Known, TokenInv
<1>12. LedgerInv'
  BY DEF LedgerInv, Known, TokenInv
<1>13. EndInv'
  BY DEF EndInv
<1> QED BY <1>1, <1>2, <1>3, <1>4, <1>5, <1>6, <1>7, <1>8, <1>9, <1>10, <1>11, <1>12,
            <1>13

\* It hears of the failure of a redirect, and forgets the target.
LEMMA FailedStep ==
    ASSUME Requesting,
           Redirection,
           Known,
           Aside,
           server' = server,
           Queue' = Queue,
           engine'.pc = engine.pc,
           engine'.begun = engine.begun,
           Leaves("NotifyRedirectFailed"),
           "NotifyRedirectFailed" \in Afloat,
           "NotifyRedirectFailed" \notin Afloat',
           Prepared' = {},
           TaskOp \in {"none", "await"},
           "NotifyRedirectSucceeded" \notin Afloat',
           "StartRedirectHandshake" \notin Afloat',
           TaskOp' = "report",
           Word' = "",
           Result' = "failed",
           Awaited' = Awaited,
           engine'.backend = engine.backend,
           engine'.candidate = None,
           engine'.target = None
    PROVE  Requesting' /\ Redirection'
<1> USE DEF Requesting, SameTask, SamePlace, Live, Over, Draining, Told, Resting, Serving,
            Granted, Completions, Committed, Commands, Migrated, RequestEvents, Ending,
            Working, Serves,
            Redirection, SameOwner, Ordered, Noticed, Announced, Answering, Owning, Swapped,
            Steering, Aimless,
            Aside, SameOwner, SameEnds, Free, Asks, Tells, Leaves, Leaving
<1>1. TaskInv'
  BY DEF TaskInv, Known, AwaitSets
<1>2. GrantInv'
  BY DEF GrantInv, TeardownClass, TaskInv, Known, AwaitSets
<1>3. StateInv'
  BY DEF StateInv, Fits
<1>4. PhaseInv'
  BY DEF PhaseInv, Known
<1>5. QueueInv'
  BY DEF QueueInv, Known
<1>6. AnswerInv'
  BY DEF AnswerInv, Known
<1>7. QuietInv'
  BY DEF QuietInv, Known
<1>8. MigrationInv'
  BY DEF MigrationInv, Started, Migrating, Known, TokenInv, Redirection, Answering, Noticed
<1>9. TokenInv'
  BY DEF TokenInv, Known
<1>10. EarlyInv'
  BY DEF EarlyInv, Known
<1>11. TargetInv'
  BY DEF TargetInv, MigrationInv
<1>12. LedgerInv'
  BY DEF LedgerInv, Known, TokenInv, MigrationInv
<1>13. EndInv'
  BY DEF EndInv
<1> QED BY <1>1, <1>2, <1>3, <1>4, <1>5, <1>6, <1>7, <1>8, <1>9, <1>10, <1>11, <1>12,
            <1>13

\* The held request is replayed.
LEMMA ReplayStep ==
    ASSUME Requesting,
           Redirection,
           Known,
           Aside,
           server' = server,
           Queue' = Queue,
           SameEnds,
           Leaves("ResumeHeldRequest"),
           "ResumeHeldRequest" \in Afloat,
           Free,
           engine.pc = "held",
           engine'.pc = "forward",
           Asks("ClientCommand", {"ForwardCommandToBackend"})
    PROVE  Requesting' /\ Redirection'
<1> USE DEF Requesting, SameTask, SamePlace, Live, Over, Draining, Told, Resting, Serving,
            Granted, Completions, Committed, Commands, Migrated, RequestEvents, Ending,
            Working, Serves,
            Redirection, SameOwner, Ordered, Noticed, Announced, Answering, Owning, Swapped,
            Steering, Aimless,
            Aside, SameOwner, SameEnds, Free, Asks, Tells, Leaves, Leaving
<1>1. TaskInv'
  BY DEF TaskInv, Known, AwaitSets
<1>2. GrantInv'
  BY DEF GrantInv, TeardownClass
<1>3. StateInv'
  BY DEF StateInv, Fits, QueueInv, PhaseInv, QuietInv, GrantInv
<1>4. PhaseInv'
  BY DEF PhaseInv, QueueInv, StateInv, TaskInv, Fits, QuietInv, GrantInv
<1>5. QueueInv'
  BY DEF QueueInv, QuietInv, Known
<1>6. AnswerInv'
  BY DEF AnswerInv, StateInv
<1>7. QuietInv'
  BY DEF QuietInv, StateInv, PhaseInv, QueueInv
<1>8. MigrationInv'
  BY DEF MigrationInv, Started, Migrating, Known, TokenInv, Redirection, Answering, Noticed
<1>9. TokenInv'
  BY DEF TokenInv, Known
<1>10. EarlyInv'
  BY DEF EarlyInv, Known
<1>11. TargetInv'
  BY DEF TargetInv, Known, TokenInv
<1>12. LedgerInv'
  BY DEF LedgerInv, Known, TokenInv
<1>13. EndInv'
  BY DEF EndInv
<1> QED BY <1>1, <1>2, <1>3, <1>4, <1>5, <1>6, <1>7, <1>8, <1>9, <1>10, <1>11, <1>12,
            <1>13

\* Nothing is held.
LEMMA ResumedStep ==
    ASSUME Requesting,
           Redirection,
           Known,
           Aside,
           server' = server,
           Queue' = Queue,
           SameTask,
           SamePlace,
           Leaves("ResumeHeldRequest"),
           "ResumeHeldRequest" \in Afloat
    PROVE  Requesting' /\ Redirection'
<1> USE DEF Requesting, SameTask, SamePlace, Live, Over, Draining, Told, Resting, Serving,
            Granted, Completions, Committed, Commands, Migrated, RequestEvents, Ending,
            Working, Serves,
            Redirection, SameOwner, Ordered, Noticed, Announced, Answering, Owning, Swapped,
            Steering, Aimless,
            Aside, SameOwner, SameEnds, Free, Asks, Tells, Leaves, Leaving
<1>1. TaskInv'
  BY ZenonT(40) DEF TaskInv, Known, AwaitSets
<1>2. GrantInv'
  BY DEF GrantInv, TeardownClass, TaskInv, Known, AwaitSets
<1>3. StateInv'
  BY DEF StateInv, Fits
<1>4. PhaseInv'
  BY DEF PhaseInv, Known
<1>5. QueueInv'
  BY DEF QueueInv, Known
<1>6. AnswerInv'
  BY DEF AnswerInv, Known
<1>7. QuietInv'
  BY DEF QuietInv, Known
<1>8. MigrationInv'
  BY DEF MigrationInv, Started, Migrating, Known, TokenInv, Redirection, Answering, Noticed
<1>9. TokenInv'
  BY DEF TokenInv, Known
<1>10. EarlyInv'
  BY DEF EarlyInv, Known
<1>11. TargetInv'
  BY DEF TargetInv, Known, TokenInv
<1>12. LedgerInv'
  BY DEF LedgerInv, Known, TokenInv
<1>13. EndInv'
  BY DEF EndInv
<1> QED BY <1>1, <1>2, <1>3, <1>4, <1>5, <1>6, <1>7, <1>8, <1>9, <1>10, <1>11, <1>12,
            <1>13

\* Between the greeting and the answer of the backend.
LEMMA AuthPlace ==
    ASSUME Requesting, Known, Free, engine.pc = "auth", Live
    PROVE  fsm.state = "BackendHandshake" /\ Queue \notin RequestEvents /\ loop.parked = ""
<1> USE DEF Requesting, Live, Over, Draining, Told, Free, Completions, Committed, Commands,
            RequestEvents
<1>1. Queue \notin RequestEvents /\ loop.parked = ""
  BY DEF QueueInv, Known
<1>2. ~Told("BackendGreetingReceived") /\ ~Over
  BY <1>1
<1> HIDE DEF Told, Over
<1>3. fsm.state = "BackendHandshake"
  BY <1>2 DEF PhaseInv
<1> QED BY <1>1, <1>3

\* The engine gives up, and says why.
LEMMA GiveUpStep ==
    ASSUME Requesting,
           Redirection,
           Known,
           Aside,
           SameWire,
           SameEnds,
           Free,
           server' = server,
           Queue' = Queue,
           engine.pc \in {"dial", "auth", "idle", "reading", "commit", "respond"},
           engine'.pc = Draining,
           NEW e \in {"BackendIoError", "ClientEof", "BackendAuthFailed"},
           e = "BackendAuthFailed" => engine.pc = "auth",
           Tells(e),
           Awaited' = {}
    PROVE  Requesting' /\ Redirection'
<1>0. Live /\ engine.pc = "auth" =>
         fsm.state = "BackendHandshake" /\ Queue \notin RequestEvents /\ loop.parked = ""
  BY AuthPlace
<1> USE DEF Requesting, SameTask, SamePlace, Live, Over, Draining, Told, Resting, Serving,
            Granted, Completions, Committed, Commands, Migrated, RequestEvents, Ending,
            Working, Serves,
            Aside, SameOwner, SameEnds, SameWire, Free, Asks, Tells
<1>1. TaskInv'
  BY <1>0 DEF TaskInv
<1>2. GrantInv'
  BY <1>0 DEF GrantInv, TeardownClass
<1>3. StateInv'
  BY <1>0 DEF StateInv, Fits
<1>4. PhaseInv'
  BY <1>0 DEF PhaseInv
<1>5. QueueInv'
  BY <1>0 DEF QueueInv
<1>6. AnswerInv'
  BY <1>0 DEF AnswerInv, GrantInv, QueueInv, Known, AwaitSets
<1>7. QuietInv'
  BY <1>0 DEF QuietInv, QueueInv, PhaseInv, GrantInv, StateInv
<1>8. MigrationInv'
  BY <1>0 DEF MigrationInv, Started, Migrating
<1>9. Redirection'
  BY <1>0, RedirectionKept DEF Redirection, EarlyInv
<1> QED BY <1>1, <1>2, <1>3, <1>4, <1>5, <1>6, <1>7, <1>8, <1>9

\* The first backend answers.
LEMMA ConnectStep ==
    ASSUME Requesting,
           Redirection,
           Known,
           fsm' = fsm,
           loop' = loop,
           owner' = owner,
           bounds' = bounds,
           Offered' = Offered,
           Reported' = Reported,
           Redirecting' = Redirecting,
           SameWire,
           Free,
           server' = server,
           Queue' = Queue,
           engine.pc = "dial",
           engine'.pc = "auth",
           Asks("BackendGreetingReceived", {"ForwardHandshakeToBackend"}),
           engine'.target = engine.target,
           engine'.candidate = engine.candidate,
           engine'.backend = FirstBackend,
           route'.stage = "active",
           route'.account = FirstBackend,
           route'.pending = route.pending
    PROVE  Requesting' /\ Redirection'
<1> USE DEF Requesting, SameTask, SamePlace, Live, Over, Draining, Told, Resting, Serving,
            Granted, Completions, Committed, Commands, Migrated, RequestEvents, Ending,
            Working, Serves,
            Redirection, SameOwner, Ordered, Noticed, Announced, Answering, Owning, Swapped,
            Steering, Aimless,
            SameWire, Free, Asks
<1>1. TaskInv'
  BY DEF TaskInv
<1>2. GrantInv'
  BY DEF GrantInv, TeardownClass
<1>3. StateInv'
  BY DEF StateInv, Fits, QueueInv, PhaseInv, GrantInv
<1>4. PhaseInv'
  BY DEF PhaseInv, QueueInv, StateInv, Fits, GrantInv, TaskInv
<1>5. QueueInv'
  BY DEF QueueInv, Known, StateInv, Fits
<1>6. AnswerInv'
  BY DEF AnswerInv, GrantInv, QueueInv, Known, AwaitSets
<1>7. QuietInv'
  BY DEF QuietInv, QueueInv, PhaseInv, GrantInv, StateInv
<1>8. MigrationInv'
  BY DEF MigrationInv, Started, Migrating
<1>9. TokenInv'
  BY DEF TokenInv, Known
<1>10. EarlyInv'
  BY DEF EarlyInv
<1>11. TargetInv'
  BY DEF TargetInv
<1>12. LedgerInv'
  BY DEF LedgerInv, TokenInv, Known, TaskInv
<1>13. EndInv'
  BY DEF EndInv
<1> QED BY <1>1, <1>2, <1>3, <1>4, <1>5, <1>6, <1>7, <1>8, <1>9, <1>10, <1>11, <1>12,
            <1>13

\* The first backend answers the dial, but not with a greeting.
LEMMA GreetingFailsStep ==
    ASSUME Requesting,
           Redirection,
           Known,
           fsm' = fsm,
           loop' = loop,
           owner' = owner,
           bounds' = bounds,
           Offered' = Offered,
           Reported' = Reported,
           Redirecting' = Redirecting,
           SameWire,
           Free,
           server' = server,
           Queue' = Queue,
           engine.pc = "dial",
           engine'.pc = Draining,
           Tells("BackendIoError"),
           Awaited' = {},
           engine'.target = engine.target,
           engine'.candidate = engine.candidate,
           engine'.backend = FirstBackend,
           route'.stage = "active",
           route'.account = FirstBackend,
           route'.pending = route.pending
    PROVE  Requesting' /\ Redirection'
<1> USE DEF Requesting, SameTask, SamePlace, Live, Over, Draining, Told, Resting, Serving,
            Granted, Completions, Committed, Commands, Migrated, RequestEvents, Ending,
            Working, Serves,
            Redirection, SameOwner, Ordered, Noticed, Announced, Answering, Owning, Swapped,
            Steering, Aimless,
            SameWire, Free, Tells
<1>1. TaskInv'
  BY DEF TaskInv
<1>2. GrantInv'
  BY DEF GrantInv, TeardownClass
<1>3. StateInv'
  BY DEF StateInv, Fits, QueueInv, PhaseInv, GrantInv
<1>4. PhaseInv'
  BY DEF PhaseInv, QueueInv, StateInv, Fits, GrantInv, TaskInv
<1>5. QueueInv'
  BY DEF QueueInv, Known, StateInv, Fits
<1>6. AnswerInv'
  BY DEF AnswerInv, GrantInv, QueueInv, Known, AwaitSets
<1>7. QuietInv'
  BY DEF QuietInv, QueueInv, PhaseInv, GrantInv, StateInv
<1>8. MigrationInv'
  BY DEF MigrationInv, Started, Migrating
<1>9. TokenInv'
  BY DEF TokenInv, Known
<1>10. EarlyInv'
  BY DEF EarlyInv
<1>11. TargetInv'
  BY DEF TargetInv
<1>12. LedgerInv'
  BY DEF LedgerInv, TokenInv, Known, TaskInv
<1>13. EndInv'
  BY DEF EndInv
<1> QED BY <1>1, <1>2, <1>3, <1>4, <1>5, <1>6, <1>7, <1>8, <1>9, <1>10, <1>11, <1>12,
            <1>13

\* The backend accepts the credentials.
LEMMA AuthOkStep ==
    ASSUME Requesting,
           Redirection,
           Known,
           Aside,
           SameWire,
           SameEnds,
           Free,
           server' = server,
           Queue' = Queue,
           engine.pc = "auth",
           engine'.pc = "idle",
           Asks("BackendAuthOk", {"AttachBackend", "ForwardAuthResultToClient"})
    PROVE  Requesting' /\ Redirection'
<1>0. Live /\ engine.pc = "auth" =>
         fsm.state = "BackendHandshake" /\ Queue \notin RequestEvents /\ loop.parked = ""
  BY AuthPlace
<1> USE DEF Requesting, SameTask, SamePlace, Live, Over, Draining, Told, Resting, Serving,
            Granted, Completions, Committed, Commands, Migrated, RequestEvents, Ending,
            Working, Serves,
            Aside, SameOwner, SameEnds, SameWire, Free, Asks, Tells
<1>1. TaskInv'
  BY <1>0 DEF TaskInv
<1>2. GrantInv'
  BY <1>0 DEF GrantInv, TeardownClass
<1>3. StateInv'
  BY <1>0 DEF StateInv, Fits
<1>4. PhaseInv'
  BY <1>0 DEF PhaseInv, QueueInv, StateInv, Fits, GrantInv, TaskInv
<1>5. QueueInv'
  BY <1>0 DEF QueueInv
<1>6. AnswerInv'
  BY <1>0 DEF AnswerInv, GrantInv, QueueInv, Known, AwaitSets
<1>7. QuietInv'
  BY <1>0 DEF QuietInv, QueueInv, PhaseInv, GrantInv, StateInv
<1>8. MigrationInv'
  BY <1>0 DEF MigrationInv, Started, Migrating
<1>9. Redirection'
  BY <1>0, RedirectionKept DEF Redirection, EarlyInv
<1> QED BY <1>1, <1>2, <1>3, <1>4, <1>5, <1>6, <1>7, <1>8, <1>9

\* A command begins.
LEMMA BeginStep ==
    ASSUME Requesting,
           Redirection,
           Known,
           Aside,
           SameWire,
           SameEnds,
           Free,
           server' = server,
           Queue' = Queue,
           engine.pc = "idle",
           engine'.pc = "reading",
           Free'
    PROVE  Requesting' /\ Redirection'
<1> USE DEF Requesting, SameTask, SamePlace, Live, Over, Draining, Told, Resting, Serving,
            Granted, Completions, Committed, Commands, Migrated, RequestEvents, Ending,
            Working, Serves,
            Aside, SameOwner, SameEnds, SameWire, Free, Asks, Tells
<1>1. TaskInv'
  BY DEF TaskInv
<1>2. GrantInv'
  BY DEF GrantInv, TeardownClass
<1>3. StateInv'
  BY DEF StateInv, Fits, QueueInv, PhaseInv, GrantInv
<1>4. PhaseInv'
  BY DEF PhaseInv, QueueInv, StateInv, Fits, GrantInv, TaskInv
<1>5. QueueInv'
  BY DEF QueueInv, Known, StateInv, Fits
<1>6. AnswerInv'
  BY DEF AnswerInv, GrantInv, QueueInv, Known, AwaitSets
<1>7. QuietInv'
  BY DEF QuietInv, QueueInv, PhaseInv, GrantInv, StateInv
<1>8. MigrationInv'
  BY DEF MigrationInv, Started, Migrating
<1>9. Redirection'
  BY RedirectionKept DEF Redirection, EarlyInv
<1> QED BY <1>1, <1>2, <1>3, <1>4, <1>5, <1>6, <1>7, <1>8, <1>9

\* The client says goodbye.
LEMMA QuitStep ==
    ASSUME Requesting,
           Redirection,
           Known,
           Aside,
           SameWire,
           SameEnds,
           Free,
           server' = server,
           Queue' = Queue,
           engine.pc = "reading",
           engine'.pc = Draining,
           Asks("ClientCommandQuit", {})
    PROVE  Requesting' /\ Redirection'
<1> USE DEF Requesting, SameTask, SamePlace, Live, Over, Draining, Told, Resting, Serving,
            Granted, Completions, Committed, Commands, Migrated, RequestEvents, Ending,
            Working, Serves,
            Aside, SameOwner, SameEnds, SameWire, Free, Asks, Tells
<1>1. TaskInv'
  BY DEF TaskInv
<1>2. GrantInv'
  BY DEF GrantInv, TeardownClass
<1>3. StateInv'
  BY DEF StateInv, Fits, QueueInv, PhaseInv, GrantInv
<1>4. PhaseInv'
  BY DEF PhaseInv, QueueInv, StateInv, Fits, GrantInv, TaskInv
<1>5. QueueInv'
  BY DEF QueueInv, Known, StateInv, Fits
<1>6. AnswerInv'
  BY DEF AnswerInv, GrantInv, QueueInv, Known, AwaitSets
<1>7. QuietInv'
  BY DEF QuietInv, QueueInv, PhaseInv, GrantInv, StateInv
<1>8. MigrationInv'
  BY DEF MigrationInv, Started, Migrating
<1>9. Redirection'
  BY RedirectionKept DEF Redirection, EarlyInv
<1> QED BY <1>1, <1>2, <1>3, <1>4, <1>5, <1>6, <1>7, <1>8, <1>9

\* A command goes to the loop.
LEMMA CommandSentStep ==
    ASSUME Requesting,
           Redirection,
           Known,
           Aside,
           SameWire,
           SameEnds,
           Free,
           server' = server,
           Queue' = Queue,
           engine.pc = "reading",
           engine'.pc = "forward",
           Asks("ClientCommand", {"ForwardCommandToBackend"})
    PROVE  Requesting' /\ Redirection'
<1> USE DEF Requesting, SameTask, SamePlace, Live, Over, Draining, Told, Resting, Serving,
            Granted, Completions, Committed, Commands, Migrated, RequestEvents, Ending,
            Working, Serves,
            Aside, SameOwner, SameEnds, SameWire, Free, Asks, Tells
<1>1. TaskInv'
  BY DEF TaskInv
<1>2. GrantInv'
  BY DEF GrantInv, TeardownClass
<1>3. StateInv'
  BY DEF StateInv, Fits, QueueInv, PhaseInv, GrantInv
<1>4. PhaseInv'
  BY DEF PhaseInv, QueueInv, StateInv, Fits, GrantInv, TaskInv
<1>5. QueueInv'
  BY DEF QueueInv, Known, StateInv, Fits
<1>6. AnswerInv'
  BY DEF AnswerInv, GrantInv, QueueInv, Known, AwaitSets
<1>7. QuietInv'
  BY DEF QuietInv, QueueInv, PhaseInv, GrantInv, StateInv
<1>8. MigrationInv'
  BY DEF MigrationInv, Started, Migrating
<1>9. Redirection'
  BY RedirectionKept DEF Redirection, EarlyInv
<1> QED BY <1>1, <1>2, <1>3, <1>4, <1>5, <1>6, <1>7, <1>8, <1>9

\* A command is admitted by the engine itself.
LEMMA CommandInlineStep ==
    ASSUME Requesting,
           Redirection,
           Known,
           SameOwner,
           Redirecting' = Redirecting,
           loop' = loop,
           Queue = "",
           Queue' = "",
           loop.parked = "",
           Afloat = {},
           SameWire,
           SameEnds,
           Free,
           Free',
           server' = server,
           fsm.state = "Ready",
           fsm'.state = "Command",
           SameFlags,
           engine.pc = "reading",
           engine'.pc = "forward"
    PROVE  Requesting' /\ Redirection'
<1> USE DEF Requesting, SameTask, SamePlace, Live, Over, Draining, Told, Resting, Serving,
            Granted, Completions, Committed, Commands, Migrated, RequestEvents, Ending,
            Working, Serves,
            SameOwner, SameEnds, SameWire, Free, SameFlags
<1>1. TaskInv'
  BY DEF TaskInv
<1>2. GrantInv'
  BY DEF GrantInv, TeardownClass
<1>3. StateInv'
  BY DEF StateInv, Fits, QueueInv, PhaseInv, GrantInv
<1>4. PhaseInv'
  BY DEF PhaseInv, QueueInv, StateInv, Fits, GrantInv, TaskInv
<1>5. QueueInv'
  BY DEF QueueInv, Known, StateInv, Fits
<1>6. AnswerInv'
  BY DEF AnswerInv, GrantInv, QueueInv, Known, AwaitSets
<1>7. QuietInv'
  BY DEF QuietInv, QueueInv, PhaseInv, GrantInv, StateInv
<1>8. MigrationInv'
  BY DEF MigrationInv, Started, Migrating
<1>9. Redirection'
  BY RedirectionKept DEF Redirection, EarlyInv
<1> QED BY <1>1, <1>2, <1>3, <1>4, <1>5, <1>6, <1>7, <1>8, <1>9

\* The request is written to the backend.
LEMMA ForwardStep ==
    ASSUME Requesting,
           Redirection,
           Known,
           Aside,
           SameWire,
           SameEnds,
           Free,
           Queue' = Queue,
           server'.busy = TRUE,
           server'.txn = server.txn,
           engine.pc = "forward",
           engine'.pc \in {"commit", "respond"},
           Free'
    PROVE  Requesting' /\ Redirection'
<1> USE DEF Requesting, SameTask, SamePlace, Live, Over, Draining, Told, Resting, Serving,
            Granted, Completions, Committed, Commands, Migrated, RequestEvents, Ending,
            Working, Serves,
            Aside, SameOwner, SameEnds, SameWire, Free, Asks, Tells
<1>1. TaskInv'
  BY DEF TaskInv
<1>2. GrantInv'
  BY DEF GrantInv, TeardownClass
<1>3. StateInv'
  BY DEF StateInv, Fits, QueueInv, PhaseInv, GrantInv
<1>4. PhaseInv'
  BY DEF PhaseInv, QueueInv, StateInv, Fits, GrantInv, TaskInv
<1>5. QueueInv'
  BY DEF QueueInv, Known, StateInv, Fits
<1>6. AnswerInv'
  BY DEF AnswerInv, GrantInv, QueueInv, Known, AwaitSets
<1>7. QuietInv'
  BY DEF QuietInv, QueueInv, PhaseInv, GrantInv, StateInv
<1>8. MigrationInv'
  BY DEF MigrationInv, Started, Migrating
<1>9. Redirection'
  BY RedirectionKept DEF Redirection, EarlyInv
<1> QED BY <1>1, <1>2, <1>3, <1>4, <1>5, <1>6, <1>7, <1>8, <1>9

\* The internal COMMIT is done.
LEMMA CommittedStep ==
    ASSUME Requesting,
           Redirection,
           Known,
           Aside,
           SameWire,
           SameEnds,
           Free,
           Queue' = Queue,
           ~server'.busy,
           engine.pc = "commit",
           engine'.pc = "held",
           NEW e \in Committed,
           Asks(e, {}),
           server'.txn <=> e = "InternalResponseTxnOpen"
    PROVE  Requesting' /\ Redirection'
<1> USE DEF Requesting, SameTask, SamePlace, Live, Over, Draining, Told, Resting, Serving,
            Granted, Completions, Committed, Commands, Migrated, RequestEvents, Ending,
            Working, Serves,
            Aside, SameOwner, SameEnds, SameWire, Free, Asks, Tells
<1>1. TaskInv'
  BY DEF TaskInv
<1>2. GrantInv'
  BY DEF GrantInv, TeardownClass
<1>3. StateInv'
  BY DEF StateInv, Fits, QueueInv, PhaseInv, GrantInv
<1>4. PhaseInv'
  BY DEF PhaseInv, QueueInv, StateInv, Fits, GrantInv, TaskInv
<1>5. QueueInv'
  BY DEF QueueInv, Known, StateInv, Fits
<1>6. AnswerInv'
  BY DEF AnswerInv, GrantInv, QueueInv, Known, AwaitSets
<1>7. QuietInv'
  BY DEF QuietInv, QueueInv, PhaseInv, GrantInv, StateInv
<1>8. MigrationInv'
  BY DEF MigrationInv, Started, Migrating
<1>9. Redirection'
  BY RedirectionKept DEF Redirection, EarlyInv
<1> QED BY <1>1, <1>2, <1>3, <1>4, <1>5, <1>6, <1>7, <1>8, <1>9

\* The internal COMMIT fails.
LEMMA CommitFailedStep ==
    ASSUME Requesting,
           Redirection,
           Known,
           Aside,
           SameWire,
           SameEnds,
           Free,
           Queue' = Queue,
           ~server'.busy,
           server'.txn => server.txn,
           engine.pc = "commit",
           engine'.pc = "idle",
           Asks("InternalResponseError", {})
    PROVE  Requesting' /\ Redirection'
<1> USE DEF Requesting, SameTask, SamePlace, Live, Over, Draining, Told, Resting, Serving,
            Granted, Completions, Committed, Commands, Migrated, RequestEvents, Ending,
            Working, Serves,
            Aside, SameOwner, SameEnds, SameWire, Free, Asks, Tells
<1>1. TaskInv'
  BY DEF TaskInv
<1>2. GrantInv'
  BY DEF GrantInv, TeardownClass
<1>3. StateInv'
  BY DEF StateInv, Fits, QueueInv, PhaseInv, GrantInv
<1>4. PhaseInv'
  BY DEF PhaseInv, QueueInv, StateInv, Fits, GrantInv, TaskInv
<1>5. QueueInv'
  BY DEF QueueInv, Known, StateInv, Fits
<1>6. AnswerInv'
  BY DEF AnswerInv, GrantInv, QueueInv, Known, AwaitSets
<1>7. QuietInv'
  BY DEF QuietInv, QueueInv, PhaseInv, GrantInv, StateInv
<1>8. MigrationInv'
  BY DEF MigrationInv, Started, Migrating
<1>9. Redirection'
  BY RedirectionKept DEF Redirection, EarlyInv
<1> QED BY <1>1, <1>2, <1>3, <1>4, <1>5, <1>6, <1>7, <1>8, <1>9

\* A longer response begins.
LEMMA PartSentStep ==
    ASSUME Requesting,
           Redirection,
           Known,
           Aside,
           SameWire,
           SameEnds,
           Free,
           server' = server,
           Queue' = Queue,
           engine.pc = "respond",
           engine'.pc = "respond",
           engine'.begun,
           Asks("BackendResponsePart", {"ForwardResponseToClient"})
    PROVE  Requesting' /\ Redirection'
<1> USE DEF Requesting, SameTask, SamePlace, Live, Over, Draining, Told, Resting, Serving,
            Granted, Completions, Committed, Commands, Migrated, RequestEvents, Ending,
            Working, Serves,
            Aside, SameOwner, SameEnds, SameWire, Free, Asks, Tells
<1>1. TaskInv'
  BY DEF TaskInv
<1>2. GrantInv'
  BY DEF GrantInv, TeardownClass
<1>3. StateInv'
  BY DEF StateInv, Fits, QueueInv, PhaseInv, GrantInv
<1>4. PhaseInv'
  BY DEF PhaseInv, QueueInv, StateInv, Fits, GrantInv, TaskInv
<1>5. QueueInv'
  BY DEF QueueInv, Known, StateInv, Fits
<1>6. AnswerInv'
  BY DEF AnswerInv, GrantInv, QueueInv, Known, AwaitSets
<1>7. QuietInv'
  BY DEF QuietInv, QueueInv, PhaseInv, GrantInv, StateInv
<1>8. MigrationInv'
  BY DEF MigrationInv, Started, Migrating
<1>9. Redirection'
  BY RedirectionKept DEF Redirection, EarlyInv
<1> QED BY <1>1, <1>2, <1>3, <1>4, <1>5, <1>6, <1>7, <1>8, <1>9

\* The engine itself moves the machine to the response.
LEMMA PartInlineStep ==
    ASSUME Requesting,
           Redirection,
           Known,
           SameOwner,
           Redirecting' = Redirecting,
           loop' = loop,
           Queue = "",
           Queue' = "",
           loop.parked = "",
           Afloat = {},
           SameWire,
           SameEnds,
           Free,
           Free',
           Live,
           server' = server,
           fsm.state \in Serving,
           fsm'.state = "Response",
           SameFlags,
           engine.pc = "respond",
           engine'.pc = "respond"
    PROVE  Requesting' /\ Redirection'
<1> USE DEF Requesting, SameTask, SamePlace, Live, Over, Draining, Told, Resting, Serving,
            Granted, Completions, Committed, Commands, Migrated, RequestEvents, Ending,
            Working, Serves,
            SameOwner, SameEnds, SameWire, Free, SameFlags
<1>1. TaskInv'
  BY DEF TaskInv
<1>2. GrantInv'
  BY DEF GrantInv, TeardownClass
<1>3. StateInv'
  BY DEF StateInv, Fits, QueueInv, PhaseInv, GrantInv
<1>4. PhaseInv'
  BY DEF PhaseInv, QueueInv, StateInv, Fits, GrantInv, TaskInv
<1>5. QueueInv'
  BY DEF QueueInv, Known, StateInv, Fits
<1>6. AnswerInv'
  BY DEF AnswerInv, GrantInv, QueueInv, Known, AwaitSets
<1>7. QuietInv'
  BY DEF QuietInv, QueueInv, PhaseInv, GrantInv, StateInv
<1>8. MigrationInv'
  BY DEF MigrationInv, Started, Migrating
<1>9. Redirection'
  BY RedirectionKept DEF Redirection, EarlyInv
<1> QED BY <1>1, <1>2, <1>3, <1>4, <1>5, <1>6, <1>7, <1>8, <1>9

\* A response ends.
LEMMA AnswerSentStep ==
    ASSUME Requesting,
           Redirection,
           Known,
           Aside,
           SameWire,
           SameEnds,
           Free,
           Queue' = Queue,
           engine.pc = "respond",
           engine'.pc = "idle",
           NEW e \in Completions,
           ~server'.busy,
           e = "BackendResponseTxnOpen" => server'.txn,
           e = "BackendResponseTxnDone" => ~server'.txn,
           e = "BackendResponseErrorComplete" => (server'.txn => server.txn),
           Asks(e, {"ForwardResponseToClient"})
    PROVE  Requesting' /\ Redirection'
<1> USE DEF Requesting, SameTask, SamePlace, Live, Over, Draining, Told, Resting, Serving,
            Granted, Completions, Committed, Commands, Migrated, RequestEvents, Ending,
            Working, Serves,
            Aside, SameOwner, SameEnds, SameWire, Free, Asks, Tells
<1>1. TaskInv'
  BY DEF TaskInv
<1>2. GrantInv'
  BY DEF GrantInv, TeardownClass
<1>3. StateInv'
  BY DEF StateInv, Fits, QueueInv, PhaseInv, GrantInv
<1>4. PhaseInv'
  BY DEF PhaseInv, QueueInv, StateInv, Fits, GrantInv, TaskInv
<1>5. QueueInv'
  BY DEF QueueInv, Known, StateInv, Fits
<1>6. AnswerInv'
  BY DEF AnswerInv, GrantInv, QueueInv, Known, AwaitSets
<1>7. QuietInv'
  BY DEF QuietInv, QueueInv, PhaseInv, GrantInv, StateInv
<1>8. MigrationInv'
  BY DEF MigrationInv, Started, Migrating
<1>9. Redirection'
  BY RedirectionKept DEF Redirection, EarlyInv
<1> QED BY <1>1, <1>2, <1>3, <1>4, <1>5, <1>6, <1>7, <1>8, <1>9

\* The engine itself moves the machine to the end of the response.
LEMMA AnswerInlineStep ==
    ASSUME Requesting,
           Redirection,
           Known,
           SameOwner,
           Redirecting' = Redirecting,
           loop' = loop,
           Queue = "",
           Queue' = "",
           loop.parked = "",
           Afloat = {},
           SameWire,
           SameEnds,
           Free,
           Free',
           Live,
           NEW e \in Completions,
           ~server'.busy,
           e = "BackendResponseTxnOpen" => server'.txn,
           e = "BackendResponseTxnDone" => ~server'.txn,
           e = "BackendResponseErrorComplete" => (server'.txn => server.txn),
           fsm.state \in Serving,
           fsm'.state \in {"Ready", "Draining"},
           fsm'.flags.redirect_pending = fsm.flags.redirect_pending,
           fsm'.flags.authenticated = fsm.flags.authenticated,
           e = "BackendResponseTxnOpen" => fsm'.flags.in_txn,
           e = "BackendResponseErrorComplete" => fsm'.flags.in_txn = fsm.flags.in_txn,
           engine.pc = "respond",
           engine'.pc = "idle"
    PROVE  Requesting' /\ Redirection'
<1> USE DEF Requesting, SameTask, SamePlace, Live, Over, Draining, Told, Resting, Serving,
            Granted, Completions, Committed, Commands, Migrated, RequestEvents, Ending,
            Working, Serves,
            SameOwner, SameEnds, SameWire, Free, SameFlags
<1>1. TaskInv'
  BY DEF TaskInv
<1>2. GrantInv'
  BY DEF GrantInv, TeardownClass
<1>3. StateInv'
  BY DEF StateInv, Fits, QueueInv, PhaseInv, GrantInv
<1>4. PhaseInv'
  BY DEF PhaseInv, QueueInv, StateInv, Fits, GrantInv, TaskInv
<1>5. QueueInv'
  BY DEF QueueInv, Known, StateInv, Fits
<1>6. AnswerInv'
  BY DEF AnswerInv, GrantInv, QueueInv, Known, AwaitSets
<1>7. QuietInv'
  BY DEF QuietInv, QueueInv, PhaseInv, GrantInv, StateInv
<1>8. MigrationInv'
  BY DEF MigrationInv, Started, Migrating
<1>9. Redirection'
  BY RedirectionKept DEF Redirection, EarlyInv
<1> QED BY <1>1, <1>2, <1>3, <1>4, <1>5, <1>6, <1>7, <1>8, <1>9

\* The engine ends.
LEMMA ExitStep ==
    ASSUME Requesting,
           Redirection,
           Known,
           fsm' = fsm,
           loop' = loop,
           owner' = owner,
           bounds' = bounds,
           Offered' = {},
           Reported' = Reported,
           Redirecting' = Redirecting,
           SameWire,
           SameEnds,
           Free,
           Free',
           server' = server,
           Queue' = Queue,
           engine.pc = Draining,
           engine'.pc = "done",
           owner.pc = "join",
           route'.stage = "closed",
           route'.pending = None
    PROVE  Requesting' /\ Redirection'
<1> USE DEF Requesting, SameTask, SamePlace, Live, Over, Draining, Told, Resting, Serving,
            Granted, Completions, Committed, Commands, Migrated, RequestEvents, Ending,
            Working, Serves,
            Redirection, SameOwner, Ordered, Noticed, Announced, Answering, Owning, Swapped,
            Steering, Aimless,
            SameWire, SameEnds, Free
<1>1. TaskInv'
  BY DEF TaskInv
<1>2. GrantInv'
  BY DEF GrantInv, TeardownClass
<1>3. StateInv'
  BY DEF StateInv, Fits, QueueInv, PhaseInv, GrantInv
<1>4. PhaseInv'
  BY DEF PhaseInv, QueueInv, StateInv, Fits, GrantInv, TaskInv
<1>5. QueueInv'
  BY DEF QueueInv, Known, StateInv, Fits
<1>6. AnswerInv'
  BY DEF AnswerInv, GrantInv, QueueInv, Known, AwaitSets
<1>7. QuietInv'
  BY DEF QuietInv, QueueInv, PhaseInv, GrantInv, StateInv
<1>8. MigrationInv'
  BY DEF MigrationInv, Started, Migrating
<1>9. TokenInv'
  BY DEF TokenInv
<1>10. EarlyInv'
  BY DEF EarlyInv
<1>11. TargetInv'
  BY DEF TargetInv
<1>12. LedgerInv'
  BY DEF LedgerInv
<1>13. EndInv'
  BY DEF EndInv
<1> QED BY <1>1, <1>2, <1>3, <1>4, <1>5, <1>6, <1>7, <1>8, <1>9, <1>10, <1>11, <1>12,
            <1>13

-----------------------------------------------------------------------------
(* The steps of the engine *)

\* A step that moves the engine alone.
Beside == UNCHANGED <<events, cmds, control, reports, loop, owner, route, inbox, faults,
                      bounds>>

LEMMA BesideViews ==
    ASSUME Shapes, AgreeInv, Beside
    PROVE  /\ SameOwner /\ Redirecting' = Redirecting /\ Queue' = Queue /\ SameWire
           /\ loop' = loop
           /\ fsm' = fsm => Aside
           /\ Listed' /\ Requesting' /\ Redirection' => AgreeInv'
<1>1. /\ cmds' = cmds /\ loop' = loop /\ loop'.out = loop.out /\ bounds' = bounds
      /\ owner' = owner /\ route' = route /\ inbox' = inbox /\ reports' = reports
      /\ control' = control /\ events' = events /\ faults' = faults
  BY DEF Beside
<1>2. /\ Afloat' = Afloat /\ Prepared' = Prepared
      /\ (WireOrder => WireOrder') /\ (PrepareOrder => PrepareOrder')
  BY <1>1, WireKept
<1>3. Redirects' = Redirects
  BY <1>1, DomainsKept
<1>4. SameOwner /\ Redirecting' = Redirecting /\ Queue' = Queue
  BY <1>1, <1>3 DEF SameOwner, Offered, Reported, Redirecting, Queue
<1>5. OneControl' = OneControl /\ OneReport' = OneReport /\ OneOffer' = OneOffer
  BY <1>1 DEF OneControl, OneReport, OneOffer, Owning
<1> QED BY <1>1, <1>2, <1>4, <1>5 DEF Aside, SameWire, AgreeInv, Ordering

LEMMA FreeNow ==
    ASSUME engine.todo = <<>>
    PROVE  Free
<1>1. <<>> \in Waits
  BY DEF Waits
<1>2. AwaitedIn(<<>>) = {}
  BY <1>1, WaitForms
<1> QED BY <1>2 DEF Free, TaskOp, Awaited, Word, Result

LEMMA FreeThen ==
    ASSUME engine'.todo = <<>>
    PROVE  Free' /\ Listed'
BY TaskCleared DEF Free

\* The engine moves on.
LEMMA EnginePlace ==
    ASSUME Shapes, NEW p, NEW t
    PROVE  /\ engine' = [engine EXCEPT !.pc = p] =>
                engine'.pc = p /\ engine'.todo = engine.todo /\ SameEnds
           /\ engine' = [engine EXCEPT !.todo = t] =>
                engine'.todo = t /\ SamePlace
           /\ engine' = [engine EXCEPT !.pc = p, !.todo = t] =>
                engine'.pc = p /\ engine'.todo = t /\ SameEnds
<1>1. engine \in Engines
  BY DEF Shapes
<1> QED BY <1>1 DEF Engines, SameEnds, SamePlace

LEMMA GaveUp ==
    ASSUME Shapes, NEW e \in Machine!Events, engine' = GivesUp(e)
    PROVE  engine'.pc = Draining /\ SameEnds /\ Listed' /\ Tells(e) /\ Awaited' = {}
<1> DEFINE t == <<Tell(e)>>
<1>1. engine' = [engine EXCEPT !.pc = Draining, !.todo = t]
  BY DEF GivesUp
<1> HIDE DEF t
<1>2. engine'.pc = Draining /\ engine'.todo = t /\ SameEnds
  BY <1>1, EnginePlace
<1>3. engine'.todo = <<Tell(e)>>
  BY <1>2 DEF t
<1> QED BY <1>2, <1>3, TaskSent DEF Tells

LEMMA GiveUpKeeps ==
    ASSUME Shapes, AgreeInv, Beside, fsm' = fsm, server' = server,
           NEW e \in {"BackendIoError", "ClientEof", "BackendAuthFailed"},
           engine' = GivesUp(e), engine.todo = <<>>,
           engine.pc \in {"dial", "auth", "idle", "reading", "commit", "respond"},
           e = "BackendAuthFailed" => engine.pc = "auth"
    PROVE  AgreeInv'
<1>1. e \in Machine!Events
  BY SomeEvents
<1>2. engine'.pc = Draining /\ SameEnds /\ Listed' /\ Tells(e) /\ Awaited' = {} /\ Free
  BY <1>1, GaveUp, FreeNow
<1>3. Known /\ Requesting /\ Redirection
  BY AgreedSteady
<1>4. Aside /\ SameWire /\ Queue' = Queue
  BY BesideViews
<1>5. Requesting' /\ Redirection'
  BY <1>2, <1>3, <1>4, GiveUpStep
<1> QED BY <1>2, <1>5, BesideViews

LEMMA ClientLeavesKeeps == ASSUME Shapes, AgreeInv, ClientLeaves PROVE AgreeInv'
BY GiveUpKeeps DEF ClientLeaves, CoreUnchanged, Beside, At

LEMMA BackendBreaksKeeps == ASSUME Shapes, AgreeInv, BackendBreaks PROVE AgreeInv'
BY GiveUpKeeps DEF BackendBreaks, CoreUnchanged, Beside, At

LEMMA ClientBeginsKeeps == ASSUME Shapes, AgreeInv, ClientBegins PROVE AgreeInv'
<1>1. /\ Beside /\ fsm' = fsm /\ server' = server /\ engine.pc = "idle" /\ engine.todo = <<>>
      /\ engine' = [engine EXCEPT !.pc = "reading"]
  BY DEF ClientBegins, CoreUnchanged, Beside, At
<1>2. engine'.pc = "reading" /\ engine'.todo = <<>> /\ SameEnds
  BY <1>1, EnginePlace
<1>3. Free /\ Free' /\ Listed'
  BY <1>1, <1>2, FreeNow, FreeThen
<1>4. Known /\ Requesting /\ Redirection /\ Aside /\ SameWire /\ Queue' = Queue
  BY <1>1, AgreedSteady, BesideViews
<1>5. Requesting' /\ Redirection'
  BY <1>1, <1>2, <1>3, <1>4, BeginStep
<1> QED BY <1>1, <1>3, <1>5, BesideViews

LEMMA EngineForwardsKeeps == ASSUME Shapes, AgreeInv, EngineForwards PROVE AgreeInv'
<1>1. /\ Beside /\ fsm' = fsm /\ engine.pc = "forward" /\ engine.todo = <<>>
      /\ server' = [server EXCEPT !.busy = TRUE] /\ server \in Servers /\ engine \in Engines
      /\ \/ engine' = [engine EXCEPT !.pc = "commit"]
         \/ engine' = [engine EXCEPT !.pc = "respond", !.begun = FALSE]
  BY DEF EngineForwards, CoreUnchanged, Beside, At, Shapes
<1>2. engine'.pc \in {"commit", "respond"} /\ engine'.todo = <<>> /\ SameEnds
  BY <1>1 DEF Engines, SameEnds
<1>3. server'.busy = TRUE /\ server'.txn = server.txn
  BY <1>1 DEF Servers
<1>4. Free /\ Free' /\ Listed'
  BY <1>1, <1>2, FreeNow, FreeThen
<1>5. Known /\ Requesting /\ Redirection /\ Aside /\ SameWire /\ Queue' = Queue
  BY <1>1, AgreedSteady, BesideViews
<1>6. Requesting' /\ Redirection'
  BY <1>1, <1>2, <1>3, <1>4, <1>5, ForwardStep
<1> QED BY <1>1, <1>4, <1>6, BesideViews

LEMMA EngineAuthenticatesKeeps == ASSUME Shapes, AgreeInv, EngineAuthenticates PROVE AgreeInv'
<1> DEFINE t == <<Send("BackendAuthOk"), Await("AttachBackend"),
                  Await("ForwardAuthResultToClient")>>
<1>1. /\ Beside /\ fsm' = fsm /\ server' = server /\ engine.pc = "auth" /\ engine.todo = <<>>
      /\ \/ engine' = [engine EXCEPT !.pc = "idle", !.todo = t]
         \/ engine' = GivesUp("BackendAuthFailed") \/ engine' = GivesUp("ClientEof")
  BY DEF EngineAuthenticates, CoreUnchanged, Beside, At
<1>2. CASE engine' = [engine EXCEPT !.pc = "idle", !.todo = t]
  <2>1. engine'.pc = "idle" /\ engine'.todo = t /\ SameEnds
    <3> HIDE DEF t
    <3> QED BY <1>2, EnginePlace
  <2>2. Listed' /\ Asks("BackendAuthOk", {"AttachBackend", "ForwardAuthResultToClient"})
    BY <2>1, TaskSent, SomeEvents DEF Asks
  <2>3. Known /\ Requesting /\ Redirection /\ Aside /\ SameWire /\ Queue' = Queue /\ Free
    BY <1>1, AgreedSteady, BesideViews, FreeNow
  <2>4. Requesting' /\ Redirection'
    BY <1>1, <2>1, <2>2, <2>3, AuthOkStep
  <2> QED BY <1>1, <2>2, <2>4, BesideViews
<1>3. CASE engine' = GivesUp("BackendAuthFailed") \/ engine' = GivesUp("ClientEof")
  BY <1>1, <1>3, GiveUpKeeps
<1> QED BY <1>1, <1>2, <1>3

LEMMA BackendCommitsKeeps == ASSUME Shapes, AgreeInv, BackendCommits PROVE AgreeInv'
<1>1. Beside /\ fsm' = fsm /\ engine.pc = "commit" /\ engine.todo = <<>>
      /\ engine \in Engines /\ server \in Servers
  BY DEF BackendCommits, CoreUnchanged, Beside, At, Shapes
<1>2. Known /\ Requesting /\ Redirection /\ Aside /\ SameWire /\ Queue' = Queue /\ Free
  BY <1>1, AgreedSteady, BesideViews, FreeNow
<1>3. ASSUME NEW txn \in BOOLEAN, server' = [txn |-> txn, busy |-> FALSE],
             engine' = [engine EXCEPT !.pc = "held", !.in_txn = txn,
                    !.todo = <<Send(IF txn THEN "InternalResponseTxnOpen"
                                    ELSE "InternalResponseTxnDone")>>]
      PROVE  AgreeInv'
  <2> DEFINE e == IF txn THEN "InternalResponseTxnOpen" ELSE "InternalResponseTxnDone"
             t == <<Send(e)>>
  <2>1. engine' = [engine EXCEPT !.pc = "held", !.in_txn = txn, !.todo = t]
    BY <1>3
  <2>2. /\ e \in Committed /\ e \in Machine!Events /\ ~server'.busy
        /\ server'.txn <=> e = "InternalResponseTxnOpen"
    BY <1>3, SomeEvents DEF Committed
  <2> HIDE DEF e
  <2>3. engine'.pc = "held" /\ engine'.todo = t /\ SameEnds
    <3> HIDE DEF t
    <3> QED BY <1>1, <2>1 DEF Engines, SameEnds
  <2>4. Listed' /\ Asks(e, {})
    BY <2>2, <2>3, TaskSent DEF Asks
  <2>5. Requesting' /\ Redirection'
    BY <1>1, <1>2, <2>2, <2>3, <2>4, CommittedStep
  <2> QED BY <1>1, <2>4, <2>5, BesideViews
<1>4. ASSUME NEW txn \in {FALSE, server.txn}, server' = [txn |-> txn, busy |-> FALSE],
             engine' = [engine EXCEPT !.pc = "idle", !.todo = <<Send("InternalResponseError")>>]
      PROVE  AgreeInv'
  <2> DEFINE t == <<Send("InternalResponseError")>>
  <2>1. ~server'.busy /\ (server'.txn => server.txn)
    BY <1>4
  <2>2. engine'.pc = "idle" /\ engine'.todo = t /\ SameEnds
    <3>1. engine' = [engine EXCEPT !.pc = "idle", !.todo = t]
      BY <1>4
    <3> HIDE DEF t
    <3> QED BY <3>1, EnginePlace
  <2>3. Listed' /\ Asks("InternalResponseError", {})
    BY <2>2, TaskSent, SomeEvents DEF Asks
  <2>4. Requesting' /\ Redirection'
    BY <1>1, <1>2, <2>1, <2>2, <2>3, CommitFailedStep
  <2> QED BY <1>1, <2>3, <2>4, BesideViews
<1>5. CASE engine' = GivesUp("BackendIoError") /\ server' = server
  BY <1>1, <1>5, GiveUpKeeps
<1> QED BY <1>3, <1>4, <1>5 DEF BackendCommits

LEMMA EngineConnectsKeeps == ASSUME Shapes, AgreeInv, EngineConnects PROVE AgreeInv'
<1> DEFINE t == <<Send("BackendGreetingReceived"), Await("ForwardHandshakeToBackend")>>
<1>1. /\ UNCHANGED <<fsm, events, cmds, control, reports, loop, owner, inbox, server, faults,
                     bounds>>
      /\ engine.pc = "dial" /\ engine.todo = <<>> /\ engine \in Engines /\ route \in Routes
      /\ \/ engine' = GivesUp("BackendIoError") /\ route' = route
         \/ /\ route' = [route EXCEPT !.stage = "active", !.account = FirstBackend]
            /\ \/ engine' = [engine EXCEPT !.pc = "auth", !.backend = FirstBackend, !.todo = t]
               \/ engine' = [GivesUp("BackendIoError") EXCEPT !.backend = FirstBackend]
  BY DEF EngineConnects, At, Shapes
<1>2. CASE /\ route' = [route EXCEPT !.stage = "active", !.account = FirstBackend]
           /\ \/ engine' = [engine EXCEPT !.pc = "auth", !.backend = FirstBackend, !.todo = t]
              \/ engine' = [GivesUp("BackendIoError") EXCEPT !.backend = FirstBackend]
  <2>1. /\ route'.stage = "active" /\ route'.account = FirstBackend
        /\ route'.pending = route.pending
    BY <1>1, <1>2 DEF Routes
  <2>2. /\ Known /\ Requesting /\ Redirection /\ Ordering /\ faults = {} /\ Free
    BY <1>1, AgreedSteady, FreeNow
  <2>3. /\ cmds' = cmds /\ loop'.out = loop.out /\ bounds' = bounds /\ loop' = loop
        /\ owner' = owner /\ fsm' = fsm /\ server' = server /\ faults' = faults
        /\ inbox' = inbox /\ reports' = reports /\ control' = control /\ events' = events
    BY <1>1
  <2>4. SameWire /\ WireOrder' /\ PrepareOrder'
    BY <2>2, <2>3, WireKept DEF SameWire, Ordering
  <2>5. Redirects' = Redirects
    BY <2>3, DomainsKept
  <2>6. /\ Offered' = Offered /\ Reported' = Reported /\ Redirecting' = Redirecting
        /\ Queue' = Queue
    BY <2>3, <2>5 DEF Offered, Reported, Redirecting, Queue
  <2>7. OneControl' /\ OneReport' /\ OneOffer'
    BY <2>2, <2>3 DEF OneControl, OneReport, OneOffer, Owning, Ordering
  <2>8. CASE engine' = [engine EXCEPT !.pc = "auth", !.backend = FirstBackend, !.todo = t]
    <3>1. /\ engine'.pc = "auth" /\ engine'.todo = t /\ engine'.backend = FirstBackend
          /\ engine'.target = engine.target /\ engine'.candidate = engine.candidate
      <4> HIDE DEF t
      <4> QED BY <1>1, <2>8 DEF Engines
    <3>2. Listed' /\ Asks("BackendGreetingReceived", {"ForwardHandshakeToBackend"})
      BY <3>1, TaskSent, SomeEvents DEF Asks
    <3>3. Requesting' /\ Redirection'
      BY <1>1, <2>1, <2>2, <2>3, <2>4, <2>6, <3>1, <3>2, ConnectStep
    <3> QED BY <2>2, <2>3, <2>4, <2>7, <3>2, <3>3 DEF AgreeInv, Ordering
  <2>9. CASE engine' = [GivesUp("BackendIoError") EXCEPT !.backend = FirstBackend]
    <3> DEFINE u == <<Tell("BackendIoError")>>
    <3>1. /\ engine'.pc = Draining /\ engine'.todo = u /\ engine'.backend = FirstBackend
          /\ engine'.target = engine.target /\ engine'.candidate = engine.candidate
      <4>1. engine' = [[engine EXCEPT !.pc = Draining, !.todo = u] EXCEPT !.backend = FirstBackend]
        BY <2>9 DEF GivesUp
      <4> HIDE DEF u
      <4> QED BY <1>1, <4>1 DEF Engines
    <3>2. Listed' /\ Tells("BackendIoError") /\ Awaited' = {}
      BY <3>1, TaskSent, SomeEvents DEF Tells
    <3>3. Requesting' /\ Redirection'
      BY <1>1, <2>1, <2>2, <2>3, <2>4, <2>6, <3>1, <3>2, GreetingFailsStep
    <3> QED BY <2>2, <2>3, <2>4, <2>7, <3>2, <3>3 DEF AgreeInv, Ordering
  <2> QED BY <1>2, <2>8, <2>9
<1>3. CASE engine' = GivesUp("BackendIoError") /\ route' = route
  BY <1>1, <1>3, GiveUpKeeps DEF Beside
<1> QED BY <1>1, <1>2, <1>3

LEMMA EngineExitsKeeps == ASSUME Shapes, AgreeInv, EngineExits PROVE AgreeInv'
<1>1. /\ UNCHANGED <<fsm, events, cmds, control, reports, loop, owner, server, faults,
                     bounds>>
      /\ engine.pc = Draining /\ engine.todo = <<>> /\ route \in Routes
      /\ engine' = [engine EXCEPT !.pc = "done"] /\ owner.pc = "join"
      /\ route' = [route EXCEPT !.stage = "closed", !.pending = None] /\ inbox' = <<>>
  BY DEF EngineExits, At, Shapes, ReleaseLease
<1>2. engine'.pc = "done" /\ engine'.todo = <<>> /\ SameEnds
  BY <1>1, EnginePlace
<1>3. route'.stage = "closed" /\ route'.pending = None
  BY <1>1 DEF Routes
<1>4. Free /\ Free' /\ Listed' /\ Known /\ Requesting /\ Redirection /\ Ordering /\ faults = {}
  BY <1>1, <1>2, FreeNow, FreeThen, AgreedSteady
<1>5. /\ cmds' = cmds /\ loop'.out = loop.out /\ bounds' = bounds /\ loop' = loop
      /\ owner' = owner /\ fsm' = fsm /\ server' = server /\ faults' = faults
      /\ reports' = reports /\ control' = control /\ events' = events
  BY <1>1
<1>6. SameWire /\ WireOrder' /\ PrepareOrder'
  BY <1>4, <1>5, WireKept DEF SameWire, Ordering
<1>7. Offered' = {} /\ OneOffer'
  BY <1>1 DEF Offered, OneOffer
<1>8. Reported' = Reported /\ Redirecting' = Redirecting /\ Queue' = Queue
  BY <1>5 DEF Reported, Redirecting, Queue
<1>9. OneControl' /\ OneReport'
  BY <1>4, <1>5 DEF OneControl, OneReport, Ordering
<1>10. Requesting' /\ Redirection'
  BY <1>1, <1>2, <1>3, <1>4, <1>5, <1>6, <1>7, <1>8, ExitStep
<1> QED BY <1>4, <1>5, <1>6, <1>7, <1>9, <1>10 DEF AgreeInv, Ordering

\* Behind the first thing, an empty list awaits nothing.
LEMMA ListEnds ==
    ASSUME Listed, engine.todo # <<>>, engine'.todo = Tail(engine.todo)
    PROVE  TaskOp' = "none" => Awaited' = {}
<1>1. Tail(engine.todo) \in Waits
  <2>1. CASE TaskOp \in {"none", "await"}
    <3>1. engine.todo \in Waits
      BY <2>1, TaskFacts
    <3> QED BY <3>1, WaitForms
  <2>2. CASE TaskOp \notin {"none", "await"}
    BY <2>2, TaskFacts
  <2> QED BY <2>1, <2>2
<1>2. Tail(engine.todo) # <<>> => Head(Tail(engine.todo)).op = "await"
  BY <1>1, WaitForms
<1>3. TaskOp' = "none" => engine'.todo = <<>>
  BY <1>2 DEF TaskOp
<1> QED BY <1>3, TaskCleared

\* The engine has done the first thing on its list.
LEMMA FirstDone ==
    ASSUME Shapes, AgreeInv, engine.todo # <<>>, engine' = Done, TaskOp # "await"
    PROVE  /\ SamePlace /\ Listed' /\ TaskOp' \in {"none", "await"} /\ Word' = ""
           /\ Result' = "" /\ Awaited' = Awaited /\ (TaskOp' = "none" => Awaited = {})
<1>1. engine'.todo = Tail(engine.todo) /\ SamePlace
  BY EnginePlace DEF Done
<1>2. /\ Listed' /\ TaskOp' \in {"none", "await"} /\ Word' = "" /\ Result' = ""
      /\ Awaited' = Awaited
  BY <1>1, TaskDone, AgreedSteady DEF Ordering
<1>3. TaskOp' = "none" => Awaited' = {}
  BY <1>1, ListEnds, AgreedSteady DEF Ordering
<1> QED BY <1>1, <1>2, <1>3

LEMMA EngineSendsKeeps == ASSUME Shapes, AgreeInv, EngineSends PROVE AgreeInv'
<1>1. /\ engine.todo # <<>> /\ Head(engine.todo).op \in {"send", "tell"}
      /\ UNCHANGED <<fsm, cmds, control, reports, loop, owner, route, inbox, server, faults,
                     bounds>>
      /\ \/ /\ ~loop.terminal /\ events = <<>> /\ events' = <<Head(engine.todo).arg>>
            /\ engine' = Done
         \/ /\ loop.terminal /\ events' = events
            /\ engine' = IF Head(engine.todo).op = "send" THEN Closes ELSE Done
  BY DEF EngineSends
<1>2. TaskOp = Head(engine.todo).op /\ Word = Head(engine.todo).arg
  BY <1>1 DEF TaskOp, Word
<1>3. Known /\ Requesting /\ Redirection /\ Ordering /\ faults = {}
  BY AgreedSteady
<1>4. CASE ~loop.terminal /\ events = <<>> /\ events' = <<Head(engine.todo).arg>>
           /\ engine' = Done
  <2>1. /\ SamePlace /\ Listed' /\ TaskOp' \in {"none", "await"} /\ Word' = ""
        /\ Result' = "" /\ Awaited' = Awaited /\ (TaskOp' = "none" => Awaited = {})
    BY <1>1, <1>2, <1>4, FirstDone
  <2>2. Queue = "" /\ Queue' = Word
    BY <1>2, <1>4 DEF Queue
  <2>3. /\ cmds' = cmds /\ loop'.out = loop.out /\ bounds' = bounds /\ loop' = loop
        /\ owner' = owner /\ fsm' = fsm /\ server' = server /\ faults' = faults
        /\ inbox' = inbox /\ reports' = reports /\ control' = control /\ route' = route
    BY <1>1
  <2>4. SameWire /\ WireOrder' /\ PrepareOrder'
    BY <1>3, <2>3, WireKept DEF SameWire, Ordering
  <2>5. Redirects' = Redirects
    BY <2>3, DomainsKept
  <2>6. Aside
    BY <2>3, <2>5 DEF Aside, SameOwner, Offered, Reported, Redirecting
  <2>7. OneControl' /\ OneReport' /\ OneOffer'
    BY <1>3, <2>3 DEF OneControl, OneReport, OneOffer, Owning, Ordering
  <2>8. Requesting' /\ Redirection'
    BY <1>1, <1>2, <1>3, <2>1, <2>2, <2>3, <2>4, <2>6, SendStep
  <2> QED BY <1>3, <2>1, <2>3, <2>4, <2>7, <2>8 DEF AgreeInv, Ordering
<1>5. CASE /\ loop.terminal /\ events' = events
           /\ engine' = IF Head(engine.todo).op = "send" THEN Closes ELSE Done
  <2>1. ~Live
    BY <1>3, <1>5 DEF Redirection, EndInv
  <2>2. Beside /\ fsm' = fsm /\ server' = server
    BY <1>1, <1>5 DEF Beside
  <2>3. Aside /\ SameWire /\ Queue' = Queue
    BY <2>2, BesideViews
  <2>4. CASE TaskOp = "tell"
    <3>1. /\ SamePlace /\ Listed' /\ TaskOp' \in {"none", "await"} /\ Word' = ""
          /\ Result' = "" /\ Awaited' = Awaited /\ (TaskOp' = "none" => Awaited = {})
      BY <1>1, <1>2, <1>5, <2>4, FirstDone
    <3>2. Requesting' /\ Redirection'
      BY <1>3, <2>1, <2>2, <2>3, <2>4, <3>1, UntoldStep
    <3> QED BY <2>2, <3>1, <3>2, BesideViews
  <2>5. CASE TaskOp = "send"
    <3> DEFINE none == <<>>
    <3>1. engine' = [engine EXCEPT !.pc = Draining, !.todo = none]
      BY <1>2, <1>5, <2>5 DEF Closes
    <3>2. engine'.pc = Draining /\ engine'.todo = none /\ SameEnds
      <4> HIDE DEF none
      <4> QED BY <3>1, EnginePlace
    <3>3. Free' /\ Listed'
      BY <3>2, FreeThen
    <3>4. engine.pc # "done"
      BY <1>3, <2>5 DEF Requesting, TaskInv, Completions, Committed, Known, AwaitSets, Draining
    <3>5. Requesting' /\ Redirection'
      BY <1>3, <2>1, <2>2, <2>3, <2>5, <3>2, <3>3, <3>4, CloseStep DEF SameWire
    <3> QED BY <2>2, <3>3, <3>5, BesideViews
  <2> QED BY <1>1, <1>2, <2>4, <2>5
<1> QED BY <1>1, <1>4, <1>5

LEMMA ReportAppended ==
    ASSUME Shapes, NEW x \in {"succeeded", "failed"}, Reported = {},
           reports' = reports \o <<x>>
    PROVE  Reported' = {x} /\ OneReport'
<1>1. reports \in Seq(ReportSet) /\ x \in ReportSet
  BY DEF Shapes, Channel, ReportSet
<1>2. ASSUME NEW q \in Seq(ReportSet)
      PROVE  /\ Len(q) \in Nat /\ DOMAIN q = 1 .. Len(q)
             /\ DOMAIN (q \o <<x>>) = 1 .. Len(q) + 1
             /\ \A i \in 1 .. Len(q) : (q \o <<x>>)[i] = q[i]
             /\ (q \o <<x>>)[Len(q) + 1] = x
             /\ \A i \in 1 .. Len(q) : q[i] \in ReportSet
  BY <1>1
<1>3. /\ Len(reports) \in Nat /\ DOMAIN reports = 1 .. Len(reports)
      /\ DOMAIN reports' = 1 .. Len(reports) + 1
      /\ \A i \in 1 .. Len(reports) : reports'[i] = reports[i]
      /\ reports'[Len(reports) + 1] = x
      /\ \A i \in 1 .. Len(reports) : reports[i] \in ReportSet
  BY <1>1, <1>2
<1>4. \A i \in DOMAIN reports : reports[i] = "commands"
  BY <1>3 DEF Reported, ReportSet
<1>5. \A i \in DOMAIN reports' : reports'[i] = "commands" \/ (i = Len(reports) + 1 /\ reports'[i] = x)
  BY <1>3, <1>4
<1>6. OneReport'
  BY <1>5 DEF OneReport
<1>7. Len(reports) + 1 \in DOMAIN reports'
  BY <1>3
<1> QED BY <1>3, <1>5, <1>6, <1>7 DEF Reported

LEMMA EngineReportsKeeps == ASSUME Shapes, AgreeInv, EngineReports PROVE AgreeInv'
<1>1. /\ engine.todo # <<>> /\ Head(engine.todo).op = "report" /\ engine' = Done
      /\ reports' = reports \o <<Head(engine.todo).arg>>
      /\ UNCHANGED <<fsm, events, cmds, control, loop, owner, route, inbox, server, faults,
                     bounds>>
  BY DEF EngineReports
<1>2. TaskOp = "report" /\ Result = Head(engine.todo).arg
  BY <1>1 DEF TaskOp, Result
<1>3. Known /\ Requesting /\ Redirection /\ Ordering /\ faults = {}
  BY AgreedSteady
<1>4. /\ SamePlace /\ Listed' /\ TaskOp' \in {"none", "await"} /\ Word' = ""
      /\ Result' = "" /\ Awaited' = Awaited /\ (TaskOp' = "none" => Awaited = {})
  BY <1>1, <1>2, FirstDone
<1>5. Reported = {} /\ Result \in {"succeeded", "failed"}
  BY <1>2, <1>3 DEF Redirection, TokenInv, Announced, Known
<1>6. Reported' = {Result} /\ OneReport'
  BY <1>1, <1>2, <1>5, ReportAppended
<1>7. /\ cmds' = cmds /\ loop'.out = loop.out /\ bounds' = bounds /\ loop' = loop
      /\ owner' = owner /\ fsm' = fsm /\ server' = server /\ faults' = faults
      /\ inbox' = inbox /\ control' = control /\ route' = route /\ events' = events
  BY <1>1
<1>8. SameWire /\ WireOrder' /\ PrepareOrder'
  BY <1>3, <1>7, WireKept DEF SameWire, Ordering
<1>9. Redirects' = Redirects
  BY <1>7, DomainsKept
<1>10. Offered' = Offered /\ Redirecting' = Redirecting /\ Queue' = Queue
  BY <1>7, <1>9 DEF Offered, Redirecting, Queue
<1>11. OneControl' /\ OneOffer'
  BY <1>3, <1>7 DEF OneControl, OneOffer, Owning, Ordering
<1>12. Reported' = Reported \union {Result}
  BY <1>5, <1>6
<1>13. Requesting' /\ Redirection'
  BY <1>2, <1>3, <1>4, <1>7, <1>8, <1>10, <1>12, ReportStep
<1> QED BY <1>3, <1>4, <1>6, <1>7, <1>8, <1>11, <1>13 DEF AgreeInv, Ordering

LEMMA EngineMigratesKeeps == ASSUME Shapes, AgreeInv, EngineMigrates PROVE AgreeInv'
<1>1. /\ engine.todo # <<>> /\ Head(engine.todo) = Migrate
      /\ Beside /\ fsm' = fsm /\ server' = server /\ engine \in Engines
      /\ \/ /\ engine.target # None
            /\ engine' = [engine EXCEPT !.candidate = engine.target,
                             !.todo = <<Tell("RedirectBackendReady")>> \o Tail(@)]
         \/ engine' = [engine EXCEPT !.todo = <<Tell("RedirectBackendFailed")>> \o Tail(@)]
         \/ engine' = [engine EXCEPT !.todo = <<Tell("BackendIoError")>> \o Tail(@)]
  BY DEF EngineMigrates, Beside, Shapes
<1>2. TaskOp = "migrate"
  <2>1. Migrate.op = "migrate"
    BY DEF Migrate
  <2> QED BY <1>1, <2>1 DEF TaskOp
<1>3. Known /\ Requesting /\ Redirection /\ Ordering
  BY AgreedSteady
<1>4. Aside /\ SameWire /\ Queue' = Queue
  BY <1>1, BesideViews
<1>5. ASSUME NEW e \in Machine!Events, engine'.todo = <<Tell(e)>> \o Tail(engine.todo)
      PROVE  Listed' /\ Tells(e) /\ Awaited' = Awaited /\ Word' = e
  <2> DEFINE op == Tell(e)
  <2>1. op \in Ops /\ op.op = "tell" /\ op.arg = e
    <3>1. op \in Ops
      BY OpMembers
    <3> QED BY <3>1 DEF Tell
  <2>2. engine'.todo = <<op>> \o Tail(engine.todo)
    BY <1>5
  <2> HIDE DEF op
  <2> QED BY <1>2, <1>3, <2>1, <2>2, TaskPushed DEF Ordering, Tells
<1>6. ASSUME NEW e \in Migrated \union {"BackendIoError"},
             engine'.todo = <<Tell(e)>> \o Tail(engine.todo),
             engine'.pc = engine.pc, engine'.begun = engine.begun,
             engine'.backend = engine.backend, engine'.target = engine.target,
             e = "RedirectBackendReady" =>
                engine.target # None /\ engine'.candidate = engine.target,
             e # "RedirectBackendReady" => engine'.candidate = engine.candidate
      PROVE  AgreeInv'
  <2>1. e \in Machine!Events
    BY SomeEvents DEF Migrated
  <2>2. Listed' /\ Tells(Word') /\ Awaited' = Awaited /\ Word' = e
    BY <1>5, <1>6, <2>1
  <2>3. Requesting' /\ Redirection'
    BY <1>1, <1>2, <1>3, <1>4, <1>6, <2>2, MigrateStep
  <2> QED BY <1>1, <2>2, <2>3, BesideViews
<1>7. CASE /\ engine.target # None
           /\ engine' = [engine EXCEPT !.candidate = engine.target,
                             !.todo = <<Tell("RedirectBackendReady")>> \o Tail(@)]
  <2> DEFINE t == <<Tell("RedirectBackendReady")>> \o Tail(engine.todo)
  <2>1. engine' = [engine EXCEPT !.candidate = engine.target, !.todo = t]
    BY <1>7
  <2>2. /\ engine'.todo = t /\ engine'.pc = engine.pc /\ engine'.begun = engine.begun
        /\ engine'.backend = engine.backend /\ engine'.target = engine.target
        /\ engine'.candidate = engine.target
    <3> HIDE DEF t
    <3> QED BY <1>1, <2>1 DEF Engines
  <2> QED BY <1>6, <1>7, <2>2 DEF Migrated
<1>8. ASSUME NEW e \in {"RedirectBackendFailed", "BackendIoError"},
             engine' = [engine EXCEPT !.todo = <<Tell(e)>> \o Tail(@)]
      PROVE  AgreeInv'
  <2> DEFINE t == <<Tell(e)>> \o Tail(engine.todo)
  <2>1. engine' = [engine EXCEPT !.todo = t]
    BY <1>8
  <2>2. engine'.todo = t /\ SamePlace
    <3> HIDE DEF t
    <3> QED BY <2>1, EnginePlace
  <2> QED BY <1>6, <1>8, <2>2 DEF Migrated, SamePlace
<1> QED BY <1>1, <1>7, <1>8

-----------------------------------------------------------------------------
(* The engine takes a command *)

\* What an engine that takes commands is at.
LEMMA Receiving ==
    ASSUME Shapes, AgreeInv, Receives
    PROVE  /\ TaskOp \in {"none", "await"} /\ engine.pc \notin {"dial", "done"}
           /\ Over => engine.pc = Draining /\ engine.todo = <<>>
           /\ engine.pc = "held" => engine.todo = <<>>
<1>1. Known /\ Requesting /\ Listed
  BY AgreedSteady DEF Ordering
<1>2. CASE engine.todo # <<>> /\ Head(engine.todo).op = "await"
  <2>1. TaskOp = "await" /\ Awaited \in AwaitSets /\ Awaited # {}
    BY <1>1, <1>2 DEF TaskOp, Known
  <2>2. engine.pc \in {"auth", "idle", "forward", "respond"}
    BY <1>1, <2>1 DEF Requesting, TaskInv, AwaitSets
  <2> QED BY <2>1, <2>2 DEF Over, Draining
<1>3. CASE At("idle") \/ At("held") \/ At(Draining) \/ At("respond")
  BY <1>3 DEF At, TaskOp, Draining, Over
<1> QED BY <1>2, <1>3 DEF Receives

\* The command goes to the engine, and the rest of the session stays.
Delivery ==
    /\ cmds # <<>> /\ cmds' = Tail(cmds)
    /\ UNCHANGED <<fsm, events, control, reports, owner, route, inbox, bounds>>
    /\ loop'.pc = loop.pc /\ loop'.out = loop.out
    /\ loop'.parked = loop.parked /\ loop'.terminal = loop.terminal

LEMMA ReceivedViews ==
    ASSUME Shapes, AgreeInv, Delivery
    PROVE  /\ Aside /\ Queue' = Queue
           /\ Listed' /\ Requesting' /\ Redirection' /\ faults' = {} => AgreeInv'
<1>1. /\ cmds # <<>> /\ cmds' = Tail(cmds) /\ loop'.out = loop.out /\ bounds' = bounds
      /\ owner' = owner /\ route' = route /\ inbox' = inbox /\ reports' = reports
      /\ control' = control /\ events' = events /\ fsm' = fsm /\ loop'.pc = loop.pc
      /\ loop'.parked = loop.parked /\ loop'.terminal = loop.terminal
  BY DEF Delivery
<1>2. (WireOrder => WireOrder') /\ (PrepareOrder => PrepareOrder')
  BY <1>1, WireTaken
<1>3. Redirects' = Redirects
  BY <1>1, DomainsKept
<1>4. SameOwner /\ Redirecting' = Redirecting /\ Queue' = Queue
  BY <1>1, <1>3 DEF SameOwner, Offered, Reported, Redirecting, Queue
<1>5. OneControl' = OneControl /\ OneReport' = OneReport /\ OneOffer' = OneOffer
  BY <1>1 DEF OneControl, OneReport, OneOffer, Owning
<1> QED BY <1>1, <1>2, <1>4, <1>5 DEF Aside, AgreeInv, Ordering

\* The command is the effect x.
LEMMA EffectLeaves ==
    ASSUME Shapes, AgreeInv, Delivery, NEW x \in Machine!SessionEffects,
           Head(cmds) = Effect(x)
    PROVE  /\ x \in Afloat /\ Leaves(x) /\ Prepared' = Prepared
           /\ \A p \in Fsm!Pairs : p[2] = x => p[1] \notin Afloat'
           /\ x \in Followers => Prepared' = {}
<1>1. /\ cmds # <<>> /\ cmds' = Tail(cmds) /\ loop'.out = loop.out /\ bounds' = bounds
      /\ WireOrder /\ PrepareOrder
  BY DEF Delivery, AgreeInv, Ordering
<1>2. /\ \A y : y \in Afloat' => y \in Afloat
      /\ \A y : y \in Afloat /\ Head(cmds) # Effect(y) => y \in Afloat'
      /\ x \in Afloat
      /\ Prepared' \subseteq Prepared
      /\ \A r \in Prepared : Head(cmds) # Prepare(r) => r \in Prepared'
      /\ \A p \in Fsm!Pairs : Head(cmds) = Effect(p[2]) => p[1] \notin Afloat'
      /\ \A y \in Followers : Head(cmds) = Effect(y) => Prepared' = {}
  BY <1>1, WireTaken
<1>3. \A y : Effect(x) = Effect(y) => x = y
  BY EffectsDiffer
<1>4. \A y : Leaving(y, x)
  BY <1>2, <1>3 DEF Leaving
<1>5. Leaves(x)
  BY <1>2, <1>4 DEF Leaves
<1>6. \A r : Effect(x) # Prepare(r)
  BY EffectsDiffer
<1> QED BY <1>2, <1>5, <1>6

\* The pairs that matter here.
LEMMA SomePairs ==
    /\ \A x \in Granted \union Notices \union {"StartRedirectHandshake", "SwapBackend"} :
         <<x, x>> \in Fsm!Pairs
    /\ <<"AttachBackend", "ForwardAuthResultToClient">> \in Fsm!Pairs
    /\ <<"SwapBackend", "ForwardCommandToBackend">> \in Fsm!Pairs
    /\ <<"ResumeHeldRequest", "ForwardCommandToBackend">> \in Fsm!Pairs
    /\ <<"SwapBackend", "NotifyRedirectSucceeded">> \in Fsm!Pairs
    /\ <<"NotifyRedirectSucceeded", "NotifyRedirectFailed">> \in Fsm!Pairs
    /\ <<"NotifyRedirectFailed", "NotifyRedirectSucceeded">> \in Fsm!Pairs
    /\ <<"StartRedirectHandshake", "NotifyRedirectFailed">> \in Fsm!Pairs
BY DEF Fsm!Pairs, Granted, Notices

\* Behind x, none of what goes in front of it is left.
LEMMA Overtaken ==
    ASSUME Shapes, AgreeInv, Delivery, NEW x \in Machine!SessionEffects,
           Head(cmds) = Effect(x), NEW y, <<y, x>> \in Fsm!Pairs
    PROVE  y \notin Afloat'
<1> DEFINE p == <<y, x>>
<1>1. p \in Fsm!Pairs /\ p[1] = y /\ p[2] = x
  OBVIOUS
<1> HIDE DEF p
<1> QED BY <1>1, EffectLeaves

\* What the engine awaited has come.
LEMMA AwaitedKeeps ==
    ASSUME Shapes, AgreeInv, Delivery, Receives, engine.todo # <<>>,
           Head(cmds) = Effect(Head(engine.todo).arg), engine' = Done,
           server' = server, faults' = faults
    PROVE  AgreeInv'
<1> DEFINE x == Head(engine.todo).arg
<1>1. Known /\ Requesting /\ Redirection /\ Listed /\ faults = {}
  BY AgreedSteady DEF Ordering
<1>2. TaskOp = "await"
  <2>1. engine.todo # <<>> => TaskOp # "none"
    BY <1>1, TaskFacts
  <2> QED BY <2>1, Receiving
<1>3. /\ x \in Awaited /\ Awaited \in AwaitSets
      /\ "AttachBackend" \in Awaited => x = "AttachBackend"
  BY <1>1, <1>2, TaskFacts
<1>4. engine'.todo = Tail(engine.todo) /\ SamePlace
  BY EnginePlace DEF Done
<1>5. /\ Listed' /\ TaskOp' \in {"none", "await"} /\ Word' = "" /\ Result' = ""
      /\ Awaited' = Awaited \ {x}
  BY <1>1, <1>2, <1>4, TaskDone
<1> HIDE DEF x
<1>6. x \in Granted /\ x \in Machine!SessionEffects
  BY <1>3, SomeEvents DEF AwaitSets, Granted
<1>7. Head(cmds) = Effect(x)
  BY DEF x
<1>8. x \in Afloat /\ Leaves(x)
  BY <1>6, <1>7, EffectLeaves
<1>9. /\ x \notin Afloat'
      /\ x = "ForwardCommandToBackend" =>
            "SwapBackend" \notin Afloat' /\ "ResumeHeldRequest" \notin Afloat'
  BY <1>6, <1>7, Overtaken, SomePairs
<1>10. TaskOp' = "none" => Awaited' = {}
  BY <1>1, <1>4, ListEnds
<1>11. Aside /\ Queue' = Queue
  BY ReceivedViews
<1>12. Requesting' /\ Redirection'
  BY <1>1, <1>2, <1>3, <1>4, <1>5, <1>6, <1>8, <1>9, <1>10, <1>11, AwaitedStep
<1> QED BY <1>1, <1>5, <1>12, ReceivedViews

\* What is common to the effects: x comes off the wire.
LEMMA EffectViews ==
    ASSUME Shapes, AgreeInv, Delivery, Receives, NEW x \in Machine!SessionEffects,
           Head(cmds) = Effect(x)
    PROVE  /\ Known /\ Requesting /\ Redirection /\ Listed /\ faults = {}
           /\ Aside /\ Queue' = Queue /\ x \in Afloat /\ Leaves(x) /\ Prepared' = Prepared
           /\ TaskOp \in {"none", "await"} /\ engine.pc \notin {"dial", "done"}
           /\ engine \in Engines
<1>1. Known /\ Requesting /\ Redirection /\ Listed /\ faults = {}
  BY AgreedSteady DEF Ordering
<1> QED BY <1>1, ReceivedViews, EffectLeaves, Receiving DEF Shapes

\* The engine closes: on a teardown, or with a session that is over.
LEMMA CloseKeeps ==
    ASSUME Shapes, AgreeInv, Delivery, Receives, NEW x \in Machine!SessionEffects,
           Head(cmds) = Effect(x), x \in TeardownClass \union Granted, ~Live,
           engine' = Closes, server' = server, faults' = faults
    PROVE  AgreeInv'
<1>1. /\ Known /\ Requesting /\ Redirection /\ Listed /\ faults = {}
      /\ Aside /\ Queue' = Queue /\ x \in Afloat /\ Leaves(x) /\ Prepared' = Prepared
      /\ TaskOp \in {"none", "await"} /\ engine.pc \notin {"dial", "done"}
  BY EffectViews
<1>2. engine'.pc = Draining /\ SameEnds /\ engine'.todo = <<>>
  <2> DEFINE none == <<>>
  <2>1. engine' = [engine EXCEPT !.pc = Draining, !.todo = none]
    BY DEF Closes
  <2>2. engine'.pc = Draining /\ engine'.todo = none /\ SameEnds
    <3> HIDE DEF none
    <3> QED BY <2>1, EnginePlace
  <2> QED BY <2>2
<1>3. Free' /\ Listed'
  BY <1>2, FreeThen
<1>4. \A y \in {"NotifyRedirectSucceeded", "NotifyRedirectFailed", "SwapBackend",
                "StartRedirectHandshake", "ResumeHeldRequest"} : y \in Afloat' <=> y \in Afloat
  BY <1>1 DEF Leaves, Leaving, TeardownClass, Granted
<1>5. Requesting' /\ Redirection'
  BY <1>1, <1>2, <1>3, <1>4, CloseStep
<1> QED BY <1>1, <1>3, <1>5, ReceivedViews

\* An effect of a command phase reaches an engine that awaits it, or one that
\* drains.
LEMMA NoStray ==
    ASSUME Shapes, AgreeInv, Delivery, Receives, NEW x \in Granted,
           Head(cmds) = Effect(x),
           ~(engine.todo # <<>> /\ Head(cmds) = Effect(Head(engine.todo).arg))
    PROVE  ~Live /\ engine.pc = Draining
<1>1. x \in Machine!SessionEffects
  BY SomeEvents DEF Granted
<1>2. /\ Known /\ Requesting /\ Redirection /\ Listed
      /\ x \in Afloat /\ Leaves(x) /\ TaskOp \in {"none", "await"}
  BY <1>1, EffectViews
<1>3. ASSUME x \in Awaited PROVE FALSE
  <2>1. TaskOp = "await" /\ engine.todo # <<>>
    BY <1>2, <1>3, TaskFacts
  <2>2. /\ Head(engine.todo).arg \in Awaited /\ Head(engine.todo).arg # x
        /\ "AttachBackend" \in Awaited => Head(engine.todo).arg = "AttachBackend"
        /\ Awaited \in AwaitSets
    BY <1>2, <2>1, TaskFacts
  <2>3. x = "ForwardAuthResultToClient" /\ "AttachBackend" \in Awaited
    BY <1>3, <2>2 DEF AwaitSets
  <2>4. "AttachBackend" \in Afloat
    BY <1>2, <2>3 DEF Requesting, GrantInv
  <2>5. "AttachBackend" \in Afloat'
    BY <1>2, <2>3, <2>4 DEF Leaves, Leaving
  <2>6. "AttachBackend" \notin Afloat'
    BY <1>1, <2>3, Overtaken, SomePairs
  <2> QED BY <2>5, <2>6
<1>4. Over /\ ~Live
  BY <1>2, <1>3 DEF Requesting, GrantInv
<1> QED BY <1>4, Receiving

LEMMA SwapKeeps ==
    ASSUME Shapes, AgreeInv, Delivery, Receives, Head(cmds) = Effect("SwapBackend"),
           SwapBackend
    PROVE  /\ AgreeInv' /\ engine.candidate # None
           /\ ~server.txn /\ ~server.busy
<1>0. "SwapBackend" \in Machine!SessionEffects
  BY DEF Machine!SessionEffects
<1>1. /\ Known /\ Requesting /\ Redirection /\ Listed /\ faults = {}
      /\ Aside /\ Queue' = Queue /\ "SwapBackend" \in Afloat /\ Leaves("SwapBackend")
      /\ TaskOp \in {"none", "await"} /\ engine.pc \notin {"dial", "done"} /\ engine \in Engines
  BY <1>0, EffectViews
<1>2. engine.candidate # None /\ ~server.txn /\ ~server.busy
  BY <1>1 DEF Requesting, MigrationInv, QuietInv
<1>3. /\ engine' = [engine EXCEPT !.backend = engine.candidate, !.candidate = None,
                                  !.target = None]
      /\ server' = [txn |-> FALSE, busy |-> FALSE] /\ faults' = faults
  BY <1>2 DEF SwapBackend
<1>4. /\ engine'.pc = engine.pc /\ engine'.begun = engine.begun /\ engine'.todo = engine.todo
      /\ engine'.backend = engine.candidate /\ engine'.candidate = None
      /\ engine'.target = None
  BY <1>1, <1>3 DEF Engines
<1>5. SameTask /\ Listed'
  BY <1>1, <1>4, TaskKept DEF SameTask
<1>6. Prepared' = {} /\ "SwapBackend" \notin Afloat'
  BY <1>0, EffectLeaves, Overtaken, SomePairs DEF Followers
<1>7. ~server'.txn /\ ~server'.busy
  BY <1>3
<1>8. Requesting' /\ Redirection'
  BY <1>1, <1>4, <1>5, <1>6, <1>7, SwappedStep
<1> QED BY <1>1, <1>2, <1>3, <1>5, <1>8, ReceivedViews

\* Something to do goes in front of what the engine awaits.
LEMMA Pushed ==
    ASSUME Shapes, Listed, TaskOp \in {"none", "await"}, NEW op \in Ops, op.op # "await",
           engine'.todo = <<op>> \o engine.todo
    PROVE  /\ Listed' /\ TaskOp' = op.op /\ Awaited' = Awaited
           /\ Word' = IF op.op \in {"send", "tell"} THEN op.arg ELSE ""
           /\ Result' = IF op.op = "report" THEN op.arg ELSE ""
BY TaskPushed

LEMMA StartKeeps ==
    ASSUME Shapes, AgreeInv, Delivery, Receives,
           Head(cmds) = Effect("StartRedirectHandshake"),
           engine' = Push(Migrate), server' = server, faults' = faults
    PROVE  AgreeInv'
<1> DEFINE x == "StartRedirectHandshake"
<1>0. x \in Machine!SessionEffects
  BY DEF Machine!SessionEffects
<1>1. /\ Known /\ Requesting /\ Redirection /\ Listed /\ faults = {}
      /\ Aside /\ Queue' = Queue /\ x \in Afloat /\ Leaves(x)
      /\ TaskOp \in {"none", "await"}
  BY <1>0, EffectViews
<1>2. engine'.todo = <<Migrate>> \o engine.todo /\ SamePlace
  BY EnginePlace DEF Push
<1>3. Migrate \in Ops /\ Migrate.op = "migrate"
  <2>1. Migrate \in Ops
    BY OpMembers
  <2> QED BY <2>1 DEF Migrate
<1>4. Listed' /\ TaskOp' = "migrate" /\ Word' = "" /\ Result' = "" /\ Awaited' = Awaited
  BY <1>1, <1>2, <1>3, Pushed
<1>5. Prepared' = {} /\ x \notin Afloat'
  BY <1>0, EffectLeaves, Overtaken, SomePairs DEF Followers
<1>6. Requesting' /\ Redirection'
  BY <1>1, <1>2, <1>4, <1>5, StartedStep
<1> QED BY <1>1, <1>4, <1>6, ReceivedViews

LEMMA ReportPushed ==
    ASSUME Shapes, Listed, TaskOp \in {"none", "await"}, NEW x \in {"succeeded", "failed"},
           engine'.todo = <<Report(x)>> \o engine.todo
    PROVE  Listed' /\ TaskOp' = "report" /\ Word' = "" /\ Result' = x /\ Awaited' = Awaited
<1> DEFINE op == Report(x)
<1>1. op \in Ops /\ op.op = "report" /\ op.arg = x
  <2>1. op \in Ops
    BY OpMembers
  <2> QED BY <2>1 DEF Report
<1>2. engine'.todo = <<op>> \o engine.todo
  OBVIOUS
<1> HIDE DEF op
<1> QED BY <1>1, <1>2, Pushed

LEMMA SucceededKeeps ==
    ASSUME Shapes, AgreeInv, Delivery, Receives,
           Head(cmds) = Effect("NotifyRedirectSucceeded"),
           engine' = Push(Report("succeeded")), server' = server, faults' = faults
    PROVE  AgreeInv'
<1> DEFINE x == "NotifyRedirectSucceeded"
<1>0. x \in Machine!SessionEffects
  BY DEF Machine!SessionEffects
<1>1. /\ Known /\ Requesting /\ Redirection /\ Listed /\ faults = {}
      /\ Aside /\ Queue' = Queue /\ x \in Afloat /\ Leaves(x)
      /\ TaskOp \in {"none", "await"}
  BY <1>0, EffectViews
<1>2. engine'.todo = <<Report("succeeded")>> \o engine.todo /\ SamePlace
  BY EnginePlace DEF Push
<1>3. /\ Listed' /\ TaskOp' = "report" /\ Word' = "" /\ Result' = "succeeded"
      /\ Awaited' = Awaited
  BY <1>1, <1>2, ReportPushed
<1>4. /\ Prepared' = {} /\ x \notin Afloat' /\ "SwapBackend" \notin Afloat'
      /\ "NotifyRedirectFailed" \notin Afloat'
  BY <1>0, EffectLeaves, Overtaken, SomePairs DEF Followers, Notices
<1>5. Requesting' /\ Redirection'
  BY <1>1, <1>2, <1>3, <1>4, SucceededStep
<1> QED BY <1>1, <1>3, <1>5, ReceivedViews

LEMMA FailedKeeps ==
    ASSUME Shapes, AgreeInv, Delivery, Receives,
           Head(cmds) = Effect("NotifyRedirectFailed"),
           engine' = [Push(Report("failed")) EXCEPT !.candidate = None, !.target = None],
           server' = server, faults' = faults
    PROVE  AgreeInv'
<1> DEFINE x == "NotifyRedirectFailed"
<1>0. x \in Machine!SessionEffects
  BY DEF Machine!SessionEffects
<1>1. /\ Known /\ Requesting /\ Redirection /\ Listed /\ faults = {}
      /\ Aside /\ Queue' = Queue /\ x \in Afloat /\ Leaves(x)
      /\ TaskOp \in {"none", "await"} /\ engine \in Engines
  BY <1>0, EffectViews
<1>2. /\ engine'.todo = <<Report("failed")>> \o engine.todo
      /\ engine'.pc = engine.pc /\ engine'.begun = engine.begun
      /\ engine'.backend = engine.backend /\ engine'.candidate = None
      /\ engine'.target = None
  <2> DEFINE t == <<Report("failed")>> \o engine.todo
             e == [engine EXCEPT !.todo = t]
  <2>1. engine' = [e EXCEPT !.candidate = None, !.target = None]
    BY DEF Push
  <2> HIDE DEF t
  <2>2. /\ e.todo = t /\ e.pc = engine.pc /\ e.begun = engine.begun
        /\ e.backend = engine.backend
        /\ DOMAIN e = {"pc", "todo", "in_txn", "target", "candidate", "backend", "request",
                       "begun"}
    BY <1>1 DEF Engines
  <2> HIDE DEF e
  <2>3. /\ engine'.todo = t /\ engine'.pc = engine.pc /\ engine'.begun = engine.begun
        /\ engine'.backend = engine.backend /\ engine'.candidate = None
        /\ engine'.target = None
    BY <2>1, <2>2
  <2> QED BY <2>3 DEF t
<1>3. /\ Listed' /\ TaskOp' = "report" /\ Word' = "" /\ Result' = "failed"
      /\ Awaited' = Awaited
  BY <1>1, <1>2, ReportPushed
<1>4. /\ Prepared' = {} /\ x \notin Afloat' /\ "StartRedirectHandshake" \notin Afloat'
      /\ "NotifyRedirectSucceeded" \notin Afloat'
  BY <1>0, EffectLeaves, Overtaken, SomePairs DEF Followers, Notices
<1>5. Requesting' /\ Redirection'
  BY <1>1, <1>2, <1>3, <1>4, FailedStep
<1> QED BY <1>1, <1>3, <1>5, ReceivedViews

LEMMA ResumeKeeps ==
    ASSUME Shapes, AgreeInv, Delivery, Receives, Head(cmds) = Effect("ResumeHeldRequest"),
           engine' = ResumeHeld, server' = server, faults' = faults
    PROVE  AgreeInv'
<1> DEFINE x == "ResumeHeldRequest"
           t == <<Send("ClientCommand"), Await("ForwardCommandToBackend")>>
<1>0. x \in Machine!SessionEffects
  BY DEF Machine!SessionEffects
<1>1. /\ Known /\ Requesting /\ Redirection /\ Listed /\ faults = {}
      /\ Aside /\ Queue' = Queue /\ x \in Afloat /\ Leaves(x) /\ engine \in Engines
  BY <1>0, EffectViews
<1>2. CASE engine.pc = "held"
  <2>1. engine' = [engine EXCEPT !.pc = "forward", !.request = "replay", !.todo = t]
    BY <1>2 DEF ResumeHeld
  <2>2. engine'.pc = "forward" /\ engine'.todo = t /\ SameEnds
    <3> HIDE DEF t
    <3> QED BY <1>1, <2>1 DEF Engines, SameEnds
  <2>3. Listed' /\ Asks("ClientCommand", {"ForwardCommandToBackend"})
    BY <2>2, TaskSent, SomeEvents DEF Asks
  <2>4. Free
    BY <1>2, Receiving, FreeNow
  <2>5. Requesting' /\ Redirection'
    BY <1>1, <1>2, <2>2, <2>3, <2>4, ReplayStep
  <2> QED BY <1>1, <2>3, <2>5, ReceivedViews
<1>3. CASE engine.pc # "held"
  <2>1. engine' = engine
    BY <1>3 DEF ResumeHeld
  <2>2. SameTask /\ SamePlace /\ Listed'
    BY <1>1, <2>1, TaskKept DEF SameTask, SamePlace
  <2>3. Requesting' /\ Redirection'
    BY <1>1, <2>2, ResumedStep
  <2> QED BY <1>1, <2>2, <2>3, ReceivedViews
<1> QED BY <1>2, <1>3

LEMMA TimerKeeps ==
    ASSUME Shapes, AgreeInv, Delivery, Receives, Head(cmds) = Effect("BeginDrainTimer"),
           engine' = engine, server' = server, faults' = faults
    PROVE  AgreeInv'
<1>0. "BeginDrainTimer" \in Machine!SessionEffects
  BY DEF Machine!SessionEffects
<1>1. /\ Known /\ Requesting /\ Redirection /\ Listed /\ faults = {}
      /\ Aside /\ Queue' = Queue /\ Leaves("BeginDrainTimer")
  BY <1>0, EffectViews
<1>2. SameTask /\ SamePlace /\ Listed'
  BY <1>1, TaskKept DEF SameTask, SamePlace
<1>3. Requesting' /\ Redirection'
  BY <1>1, <1>2, TimerStep
<1> QED BY <1>1, <1>2, <1>3, ReceivedViews

LEMMA EffectKeeps ==
    ASSUME Shapes, AgreeInv, Delivery, Receives, NEW x \in Machine!SessionEffects,
           Head(cmds) = Effect(x), HandleEffect(x),
           ~(engine.todo # <<>> /\ Head(cmds) = Effect(Head(engine.todo).arg))
    PROVE  AgreeInv'
<1>1. CASE x = "SwapBackend" /\ SwapBackend
  BY <1>1, SwapKeeps
<1>2. CASE x = "BeginDrainTimer" /\ UNCHANGED <<engine, server, faults>>
  BY <1>2, TimerKeeps
<1>3. CASE x = "StartRedirectHandshake" /\ engine' = Push(Migrate) /\ UNCHANGED <<server, faults>>
  BY <1>3, StartKeeps
<1>4. CASE /\ x = "NotifyRedirectSucceeded" /\ engine' = Push(Report("succeeded"))
           /\ UNCHANGED <<server, faults>>
  BY <1>4, SucceededKeeps
<1>5. CASE /\ x = "NotifyRedirectFailed"
           /\ engine' = [Push(Report("failed")) EXCEPT !.candidate = None, !.target = None]
           /\ UNCHANGED <<server, faults>>
  BY <1>5, FailedKeeps
<1>6. CASE x = "ResumeHeldRequest" /\ engine' = ResumeHeld /\ UNCHANGED <<server, faults>>
  BY <1>6, ResumeKeeps
<1>7. CASE x \in TeardownClass /\ engine' = Closes /\ UNCHANGED <<server, faults>>
  <2>1. ~Live
    BY <1>7, EffectViews DEF Requesting, GrantInv
  <2> QED BY <1>7, <2>1, CloseKeeps
<1>8. CASE /\ x \in Granted /\ engine' = Closes /\ server' = server
           /\ faults' = faults \union (IF engine.pc = Draining THEN {} ELSE {"stray effect"})
  <2>1. ~Live /\ engine.pc = Draining
    BY <1>8, NoStray
  <2>2. faults' = faults
    BY <1>8, <2>1
  <2> QED BY <1>8, <2>1, <2>2, CloseKeeps
<1> QED BY <1>1, <1>2, <1>3, <1>4, <1>5, <1>6, <1>7, <1>8 DEF HandleEffect, Granted

\* A probe, or the target of a redirect, comes off the wire.
LEMMA OtherLeaves ==
    ASSUME Shapes, AgreeInv, Delivery, \A x : Head(cmds) # Effect(x)
    PROVE  Afloat' = Afloat /\ Prepared' \subseteq Prepared
<1>1. cmds # <<>> /\ cmds' = Tail(cmds) /\ loop'.out = loop.out /\ bounds' = bounds
  BY DEF Delivery
<1> QED BY <1>1, WireTaken

LEMMA ProbeTakenKeeps ==
    ASSUME Shapes, AgreeInv, Delivery, Head(cmds) = Probe,
           engine' = engine, server' = server, faults' = faults
    PROVE  AgreeInv'
<1>1. Known /\ Requesting /\ Redirection /\ Listed /\ faults = {}
  BY AgreedSteady DEF Ordering
<1>2. Afloat' = Afloat /\ Prepared' \subseteq Prepared
  BY OtherLeaves, EffectsDiffer
<1>3. Leaves("BeginDrainTimer")
  BY <1>2 DEF Leaves, Leaving
<1>4. SameTask /\ SamePlace /\ Listed' /\ Aside /\ Queue' = Queue
  BY <1>1, TaskKept, ReceivedViews DEF SameTask, SamePlace
<1>5. Requesting' /\ Redirection'
  BY <1>1, <1>3, <1>4, TimerStep
<1> QED BY <1>1, <1>4, <1>5, ReceivedViews

LEMMA TargetTakenKeeps ==
    ASSUME Shapes, AgreeInv, Delivery, NEW r \in Redirects, Head(cmds) = Prepare(r),
           engine' = IF engine.target = None /\ engine.candidate = None
                     THEN [engine EXCEPT !.target = r] ELSE engine,
           server' = server, faults' = faults
    PROVE  AgreeInv'
<1>1. /\ Known /\ Requesting /\ Redirection /\ Listed /\ faults = {} /\ engine \in Engines
      /\ r # None
  BY AgreedSteady, Members DEF Ordering, Shapes
<1>2. Afloat' = Afloat /\ Prepared' \subseteq Prepared
  BY OtherLeaves, EffectsDiffer
<1>3. r \in Prepared
  BY WireTaken DEF Delivery
<1>4. /\ engine'.pc = engine.pc /\ engine'.begun = engine.begun /\ engine'.todo = engine.todo
      /\ engine'.backend = engine.backend /\ engine'.candidate = engine.candidate
      /\ engine'.target = IF engine.target = None /\ engine.candidate = None
                          THEN r ELSE engine.target
  BY <1>1 DEF Engines
<1>5. SameTask /\ Listed' /\ Aside /\ Queue' = Queue
  BY <1>1, <1>4, TaskKept, ReceivedViews DEF SameTask
<1>6. Requesting' /\ Redirection'
  BY <1>1, <1>2, <1>3, <1>4, <1>5, PreparedStep
<1> QED BY <1>1, <1>5, <1>6, ReceivedViews

LEMMA EngineReceivesKeeps == ASSUME Shapes, AgreeInv, EngineReceives PROVE AgreeInv'
<1> DEFINE c == Head(cmds)
           awaited == engine.todo # <<>> /\ c = Effect(Head(engine.todo).arg)
<1>1. /\ cmds # <<>> /\ cmds' = Tail(cmds) /\ Receives
      /\ UNCHANGED <<fsm, events, control, reports, owner, route, inbox, bounds>>
      /\ \/ awaited /\ engine' = Done /\ UNCHANGED <<loop, server, faults>>
         \/ ~awaited /\ HandleCmd(c)
  BY DEF EngineReceives
<1>2. c \in Cmds
  BY <1>1, ChannelTail, CapacityAssumption DEF Shapes
<1>3. loop' = loop => Delivery
  BY <1>1 DEF Delivery
<1>4. CASE awaited /\ engine' = Done /\ UNCHANGED <<loop, server, faults>>
  BY <1>1, <1>3, <1>4, AwaitedKeeps
<1>5. CASE ~awaited /\ HandleCmd(c)
  <2>1. CASE c.cmd = "probe"
    <3>1. UNCHANGED <<engine, server, faults>> /\ \E reply : loop' = [loop EXCEPT !.reply = reply]
      BY <1>5, <2>1 DEF HandleCmd, EngineUnchanged
    <3>2. /\ loop'.pc = loop.pc /\ loop'.out = loop.out
          /\ loop'.parked = loop.parked /\ loop'.terminal = loop.terminal
      BY <3>1 DEF Shapes, Loops
    <3>3. Delivery
      BY <1>1, <3>2 DEF Delivery
    <3>4. c = Probe
      <4>1. (\A x : Effect(x).cmd = "effect") /\ (\A r : Prepare(r).cmd = "prepare")
        BY DEF Effect, Prepare
      <4> QED BY <1>2, <2>1, <4>1 DEF Cmds
    <3> QED BY <3>1, <3>3, <3>4, ProbeTakenKeeps
  <2>2. CASE c.cmd = "prepare"
    <3>1. /\ engine' = IF engine.target = None /\ engine.candidate = None
                       THEN [engine EXCEPT !.target = c.to] ELSE engine
          /\ UNCHANGED <<loop, server, faults>>
      BY <1>5, <2>2 DEF HandleCmd
    <3>2. c.to \in Redirects /\ c = Prepare(c.to)
      <4>1. (\A x : Effect(x).cmd = "effect") /\ Probe.cmd = "probe"
        BY DEF Effect, Probe
      <4>2. \A r : Prepare(r).to = r
        BY DEF Prepare
      <4> QED BY <1>2, <2>2, <4>1, <4>2 DEF Cmds
    <3> QED BY <1>3, <3>1, <3>2, TargetTakenKeeps
  <2>3. CASE c.cmd = "effect"
    <3>1. c.arg \in Machine!SessionEffects /\ c = Effect(c.arg)
      BY <1>2, <2>3, Members DEF Shapes
    <3>2. HandleEffect(c.arg) /\ loop' = loop
      BY <1>5, <2>3 DEF HandleCmd
    <3> QED BY <1>1, <1>3, <1>5, <3>1, <3>2, EffectKeeps
  <2> QED BY <1>5, <2>1, <2>2, <2>3 DEF HandleCmd
<1> QED BY <1>1, <1>4, <1>5

-----------------------------------------------------------------------------
(* The engine's fast path *)

\* Nobody else has anything to do: the wire, the slot and the park are empty.
LEMMA QuietViews ==
    ASSUME Shapes, OthersQuiet
    PROVE  Queue = "" /\ loop.parked = "" /\ Afloat = {}
<1>1. /\ events = <<>> /\ cmds = <<>> /\ loop.parked = "" /\ loop.out = <<>>
  BY DEF OthersQuiet, Shapes
<1> QED BY <1>1, WireSilent DEF Queue

\* A command goes to the machine, or to the loop.
LEMMA ClientEndsKeeps ==
    ASSUME Shapes, AgreeInv, NEW request, ClientEnds(request)
    PROVE  AgreeInv'
<1> DEFINE t == <<Send("ClientCommand"), Await("ForwardCommandToBackend")>>
           q == <<Send("ClientCommandQuit")>>
<1>1. /\ Beside /\ server' = server /\ engine.pc = "reading" /\ engine.todo = <<>>
      /\ engine \in Engines
  BY DEF ClientEnds, CoreUnchanged, Beside, At, Shapes
<1>2. /\ Known /\ Requesting /\ Redirection /\ Free /\ fsm \in Fsm!Machines
  BY <1>1, AgreedSteady, FreeNow
<1>3. /\ SameOwner /\ Redirecting' = Redirecting /\ Queue' = Queue /\ SameWire
      /\ loop' = loop
      /\ fsm' = fsm => Aside
  BY <1>1, BesideViews
<1>4. CASE engine' = [engine EXCEPT !.pc = Draining, !.todo = q] /\ fsm' = fsm
  <2>1. engine'.pc = Draining /\ engine'.todo = q /\ SameEnds
    <3> HIDE DEF q
    <3> QED BY <1>4, EnginePlace
  <2>2. Listed' /\ Asks("ClientCommandQuit", {})
    BY <2>1, TaskSent, SomeEvents DEF Asks
  <2>3. Requesting' /\ Redirection'
    BY <1>1, <1>2, <1>3, <1>4, <2>1, <2>2, QuitStep
  <2> QED BY <1>1, <2>2, <2>3, BesideViews
<1>5. CASE /\ engine' = [engine EXCEPT !.pc = "forward", !.request = request, !.todo = t]
           /\ fsm' = fsm
  <2>1. engine'.pc = "forward" /\ engine'.todo = t /\ SameEnds
    <3> HIDE DEF t
    <3> QED BY <1>1, <1>5 DEF Engines, SameEnds
  <2>2. Listed' /\ Asks("ClientCommand", {"ForwardCommandToBackend"})
    BY <2>1, TaskSent, SomeEvents DEF Asks
  <2>3. Requesting' /\ Redirection'
    BY <1>1, <1>2, <1>3, <1>5, <2>1, <2>2, CommandSentStep
  <2> QED BY <1>1, <2>2, <2>3, BesideViews
<1>6. CASE /\ engine' = [engine EXCEPT !.pc = "forward", !.request = request]
           /\ fsm.state = "Ready" /\ OthersQuiet /\ CommitInline("ClientCommand")
  <2>1. engine'.pc = "forward" /\ engine'.todo = <<>> /\ SameEnds
    BY <1>1, <1>6 DEF Engines, SameEnds
  <2>2. Free' /\ Listed'
    BY <2>1, FreeThen
  <2>3. PICK o \in Fsm!OnEvent(fsm, "ClientCommand") : fsm' = o.fsm
    BY <1>6, SameMachine DEF CommitInline
  <2>4. Fsm!Moves(fsm.flags, o, "Command", {"ForwardCommandToBackend"})
    BY <1>2, <1>6, Fsm!CommandOutcome
  <2>5. fsm'.state = "Command" /\ SameFlags
    BY <2>3, <2>4 DEF Fsm!Moves, SameFlags
  <2>6. Queue = "" /\ Queue' = "" /\ loop.parked = "" /\ Afloat = {}
    BY <1>3, <1>6, QuietViews
  <2>7. Requesting' /\ Redirection'
    BY <1>1, <1>2, <1>3, <1>6, <2>1, <2>2, <2>5, <2>6, CommandInlineStep
  <2> QED BY <1>1, <2>2, <2>7, BesideViews
<1> QED BY <1>4, <1>5, <1>6 DEF ClientEnds, CanCommitInline

\* A response in an inline commit finds the machine serving.
LEMMA InlineServes ==
    ASSUME Shapes, AgreeInv, engine.pc = "respond", OthersQuiet,
           NEW e \in Completions \union {"BackendResponsePart"},
           \E o \in Machine!OnEvent(fsm, e) : o.effects = <<"ForwardResponseToClient">>
    PROVE  Live /\ fsm.state \in Serving
<1>1. PICK o \in Fsm!OnEvent(fsm, e) : o.effects = <<"ForwardResponseToClient">>
  BY SameMachine
<1>2. <<"ForwardResponseToClient">> # <<>>
  OBVIOUS
<1>3. Live
  BY <1>1, <1>2, Fsm!SilentInClosing DEF Live, Completions
<1>4. ~Over /\ Serves
  BY DEF Over, Draining, Serves, Working
<1>5. PhaseInv
  BY AgreedSteady DEF Requesting
<1> QED BY <1>3, <1>4, <1>5 DEF PhaseInv

LEMMA BackendBeginsKeeps == ASSUME Shapes, AgreeInv, BackendBegins PROVE AgreeInv'
<1> DEFINE e == "BackendResponsePart"
           t == <<Send(e), Await("ForwardResponseToClient")>>
           next == [engine EXCEPT !.begun = TRUE]
<1>1. /\ Beside /\ server' = server /\ engine.pc = "respond" /\ engine.todo = <<>>
      /\ engine \in Engines /\ Responds(e, next)
  BY DEF BackendBegins, CoreUnchanged, Beside, At, Shapes
<1>2. /\ Known /\ Requesting /\ Redirection /\ Free /\ fsm \in Fsm!Machines
  BY <1>1, AgreedSteady, FreeNow
<1>3. /\ SameOwner /\ Redirecting' = Redirecting /\ Queue' = Queue /\ SameWire
      /\ loop' = loop
      /\ fsm' = fsm => Aside
  BY <1>1, BesideViews
<1>4. CASE engine' = [next EXCEPT !.todo = t] /\ fsm' = fsm
  <2>1. engine'.pc = "respond" /\ engine'.begun /\ engine'.todo = t /\ SameEnds
    <3> HIDE DEF t
    <3> QED BY <1>1, <1>4 DEF Engines, SameEnds
  <2>2. Listed' /\ Asks(e, {"ForwardResponseToClient"})
    BY <2>1, TaskSent, SomeEvents DEF Asks
  <2>3. Requesting' /\ Redirection'
    BY <1>1, <1>2, <1>3, <1>4, <2>1, <2>2, PartSentStep
  <2> QED BY <1>1, <2>2, <2>3, BesideViews
<1>5. CASE CanCommitInline(e, "ForwardResponseToClient") /\ CommitInline(e) /\ engine' = next
  <2>1. engine'.pc = "respond" /\ engine'.todo = <<>> /\ SameEnds
    BY <1>1, <1>5 DEF Engines, SameEnds
  <2>2. Free' /\ Listed'
    BY <2>1, FreeThen
  <2>3. Queue = "" /\ Queue' = "" /\ loop.parked = "" /\ Afloat = {}
    BY <1>3, <1>5, QuietViews DEF CanCommitInline
  <2>4. Live /\ fsm.state \in Serving
    BY <1>1, <1>5, InlineServes DEF CanCommitInline
  <2>5. PICK o \in Fsm!OnEvent(fsm, e) : fsm' = o.fsm
    BY <1>5, SameMachine DEF CommitInline
  <2>6. Fsm!Moves(fsm.flags, o, "Response", {"ForwardResponseToClient"})
    BY <1>2, <2>4, Fsm!AnswerOutcome DEF Serving
  <2>7. fsm'.state = "Response" /\ SameFlags
    BY <2>5, <2>6 DEF Fsm!Moves, SameFlags
  <2>8. Requesting' /\ Redirection'
    BY <1>1, <1>2, <1>3, <2>1, <2>2, <2>3, <2>4, <2>7, PartInlineStep
  <2> QED BY <1>1, <2>2, <2>8, BesideViews
<1> QED BY <1>1, <1>4, <1>5 DEF Responds

\* The end of a response, whatever it says of the transaction.
LEMMA CompletionKeeps ==
    ASSUME Shapes, AgreeInv, Beside, engine.pc = "respond", engine.todo = <<>>,
           NEW e \in Completions, NEW next \in Engines, Responds(e, next),
           next.pc = "idle", next.todo = <<>>, next.backend = engine.backend,
           next.target = engine.target, next.candidate = engine.candidate,
           ~server'.busy,
           e = "BackendResponseTxnOpen" => server'.txn,
           e = "BackendResponseTxnDone" => ~server'.txn,
           e = "BackendResponseErrorComplete" => (server'.txn => server.txn)
    PROVE  AgreeInv'
<1> DEFINE t == <<Send(e), Await("ForwardResponseToClient")>>
           X == {"ForwardResponseToClient"}
<1>0. e \in Machine!Events
  BY SomeEvents DEF Completions
<1>1. Known /\ Requesting /\ Redirection /\ Free /\ fsm \in Fsm!Machines
  BY AgreedSteady, FreeNow
<1>2. /\ SameOwner /\ Redirecting' = Redirecting /\ Queue' = Queue /\ SameWire
      /\ loop' = loop
      /\ fsm' = fsm => Aside
  BY BesideViews
<1>3. CASE engine' = [next EXCEPT !.todo = t] /\ fsm' = fsm
  <2>1. engine'.pc = "idle" /\ engine'.todo = t /\ SameEnds
    <3> HIDE DEF t
    <3> QED BY <1>3 DEF Engines, SameEnds
  <2>2. Listed' /\ Asks(e, {"ForwardResponseToClient"})
    BY <1>0, <2>1, TaskSent DEF Asks
  <2>3. Requesting' /\ Redirection'
    BY <1>1, <1>2, <1>3, <2>1, <2>2, AnswerSentStep
  <2> QED BY <2>2, <2>3, BesideViews
<1>4. CASE CanCommitInline(e, "ForwardResponseToClient") /\ CommitInline(e) /\ engine' = next
  <2> DEFINE f == fsm.flags
             g == IF e = "BackendResponseErrorComplete" THEN f
                  ELSE Fsm!WithStatus(f, e = "BackendResponseTxnDone")
  <2>1. engine'.pc = "idle" /\ engine'.todo = <<>> /\ SameEnds
    BY <1>4 DEF SameEnds
  <2>2. Free' /\ Listed'
    BY <2>1, FreeThen
  <2>3. Queue = "" /\ Queue' = "" /\ loop.parked = "" /\ Afloat = {}
    BY <1>2, <1>4, QuietViews DEF CanCommitInline
  <2>4. Live /\ fsm.state \in Serving
    BY <1>4, InlineServes DEF CanCommitInline
  <2>5. PICK o \in Fsm!OnEvent(fsm, e) : fsm' = o.fsm
    BY <1>4, SameMachine DEF CommitInline
  <2>6. PICK p \in Fsm!OnEvent(fsm, e) : p.effects = <<"ForwardResponseToClient">>
    BY <1>4, SameMachine DEF CanCommitInline
  <2>7. \A r \in Fsm!OnEvent(fsm, e) : Fsm!Finishes(g, r, X)
    <3>1. CASE e = "BackendResponseErrorComplete"
      BY <1>1, <2>4, <3>1, Fsm!AnswerOutcome DEF Serving
    <3>2. CASE e = "BackendResponseTxnDone"
      <4>1. \A r \in Fsm!OnEvent(fsm, e) : Fsm!Finishes(Fsm!WithStatus(f, TRUE), r, X)
        BY <1>1, <2>4, <3>2, Fsm!AnswerOutcome DEF Serving
      <4>2. g = Fsm!WithStatus(f, TRUE)
        BY <3>2
      <4> QED BY <4>1, <4>2
    <3>3. CASE e = "BackendResponseTxnOpen"
      <4>1. \A r \in Fsm!OnEvent(fsm, e) : Fsm!Finishes(Fsm!WithStatus(f, FALSE), r, X)
        BY <1>1, <2>4, <3>3, Fsm!AnswerOutcome DEF Serving
      <4>2. g = Fsm!WithStatus(f, FALSE)
        BY <3>3
      <4> QED BY <4>1, <4>2
    <3> QED BY <3>1, <3>2, <3>3 DEF Completions
  <2>8. /\ g.redirect_pending = f.redirect_pending /\ g.authenticated = f.authenticated
        /\ e = "BackendResponseErrorComplete" => g.in_txn = f.in_txn
        /\ e = "BackendResponseTxnOpen" => g.in_txn
    <3>1. CASE e = "BackendResponseErrorComplete"
      BY <3>1
    <3>2. CASE e # "BackendResponseErrorComplete"
      <4>1. (e = "BackendResponseTxnDone") \in BOOLEAN
        OBVIOUS
      <4>2. g = Fsm!WithStatus(f, e = "BackendResponseTxnDone")
        BY <3>2
      <4> QED BY <1>1, <3>2, <4>1, <4>2, StatusFlags
    <3> QED BY <3>1, <3>2
  <2> HIDE DEF g
  <2>9. Fsm!Moves(g, o, "Ready", X) \/ Fsm!Moves(g, o, "Draining", X)
    BY <2>5, <2>6, <2>7, Fsm!FinishesPlainly
  <2>10. /\ fsm'.state \in {"Ready", "Draining"}
         /\ fsm'.flags.redirect_pending = f.redirect_pending
         /\ fsm'.flags.authenticated = f.authenticated
         /\ e = "BackendResponseTxnOpen" => fsm'.flags.in_txn
         /\ e = "BackendResponseErrorComplete" => fsm'.flags.in_txn = f.in_txn
    BY <2>5, <2>8, <2>9 DEF Fsm!Moves
  <2>11. Requesting' /\ Redirection'
    BY <1>1, <1>2, <2>1, <2>2, <2>3, <2>4, <2>10, AnswerInlineStep
  <2> QED BY <2>2, <2>11, BesideViews
<1> QED BY <1>3, <1>4 DEF Responds

LEMMA BackendAnswersKeeps == ASSUME Shapes, AgreeInv, BackendAnswers PROVE AgreeInv'
<1>1. /\ Beside /\ engine.pc = "respond" /\ engine.todo = <<>> /\ engine \in Engines
      /\ server \in Servers
  BY DEF BackendAnswers, CoreUnchanged, Beside, At, Shapes
<1>2. /\ Answered \in Engines /\ Answered.pc = "idle" /\ Answered.todo = <<>>
      /\ Answered.backend = engine.backend
      /\ Answered.target = engine.target /\ Answered.candidate = engine.candidate
  BY <1>1 DEF Answered, Engines, EnginePcs
<1>3. ASSUME NEW txn \in BOOLEAN, server' = [txn |-> txn, busy |-> FALSE],
             Responds(IF txn THEN "BackendResponseTxnOpen" ELSE "BackendResponseTxnDone",
                      [Answered EXCEPT !.in_txn = txn])
      PROVE  AgreeInv'
  <2> DEFINE next == [Answered EXCEPT !.in_txn = txn]
             e == IF txn THEN "BackendResponseTxnOpen" ELSE "BackendResponseTxnDone"
  <2>1. /\ next \in Engines /\ next.pc = "idle" /\ next.todo = <<>>
        /\ next.backend = engine.backend
        /\ next.target = engine.target /\ next.candidate = engine.candidate
    BY <1>2 DEF Engines
  <2>2. /\ e \in Completions /\ ~server'.busy
        /\ e = "BackendResponseTxnOpen" => server'.txn
        /\ e = "BackendResponseTxnDone" => ~server'.txn
        /\ e # "BackendResponseErrorComplete"
    BY <1>3 DEF Completions
  <2>3. Responds(e, next)
    BY <1>3
  <2> HIDE DEF next, e
  <2> QED BY <1>1, <2>1, <2>2, <2>3, CompletionKeeps
<1>4. ASSUME NEW txn \in {FALSE, server.txn}, server' = [txn |-> txn, busy |-> FALSE],
             Responds("BackendResponseErrorComplete", Answered)
      PROVE  AgreeInv'
  <2>1. ~server'.busy /\ (server'.txn => server.txn)
    BY <1>4
  <2> QED BY <1>1, <1>2, <1>4, <2>1, CompletionKeeps DEF Completions
<1>5. \/ \E txn \in BOOLEAN :
           /\ server' = [txn |-> txn, busy |-> FALSE]
           /\ Responds(IF txn THEN "BackendResponseTxnOpen" ELSE "BackendResponseTxnDone",
                       [Answered EXCEPT !.in_txn = txn])
      \/ \E txn \in {FALSE, server.txn} :
           /\ server' = [txn |-> txn, busy |-> FALSE]
           /\ Responds("BackendResponseErrorComplete", Answered)
  BY DEF BackendAnswers
<1> QED BY <1>3, <1>4, <1>5

-----------------------------------------------------------------------------
(* The channels of the owner *)

\* The first of a sequence is taken.
LEMMA SequenceTail ==
    ASSUME NEW S, NEW q \in Seq(S), q # <<>>
    PROVE  /\ Head(q) \in S /\ Tail(q) \in Seq(S)
           /\ Len(q) \in Nat \ {0} /\ DOMAIN q = 1 .. Len(q)
           /\ DOMAIN Tail(q) = 1 .. Len(q) - 1
           /\ \A i \in 1 .. Len(q) - 1 : Tail(q)[i] = q[i + 1]
           /\ Head(q) = q[1]
OBVIOUS

LEMMA TailMembers ==
    ASSUME NEW S, NEW q \in Seq(S), q # <<>>
    PROVE  \A x :
             /\ (\E i \in DOMAIN Tail(q) : Tail(q)[i] = x) => \E i \in DOMAIN q : q[i] = x
             /\ (\E i \in DOMAIN q : q[i] = x) /\ x # Head(q) =>
                  \E i \in DOMAIN Tail(q) : Tail(q)[i] = x
             /\ x = Head(q) => \E i \in DOMAIN q : q[i] = x
<1> TAKE x
<1> DEFINE t == Tail(q)
<1>1. /\ Len(q) \in Nat \ {0} /\ DOMAIN q = 1 .. Len(q)
      /\ DOMAIN t = 1 .. Len(q) - 1
      /\ \A i \in 1 .. Len(q) - 1 : t[i] = q[i + 1]
      /\ Head(q) = q[1]
  BY SequenceTail
<1> HIDE DEF t
<1>2. ASSUME NEW i \in DOMAIN t, t[i] = x PROVE \E j \in DOMAIN q : q[j] = x
  <2>1. i + 1 \in DOMAIN q /\ q[i + 1] = x
    BY <1>1, <1>2
  <2> QED BY <2>1
<1>3. ASSUME NEW i \in DOMAIN q, q[i] = x, x # Head(q) PROVE \E j \in DOMAIN t : t[j] = x
  <2>1. i - 1 \in 1 .. Len(q) - 1 /\ (i - 1) + 1 = i
    BY <1>1, <1>3
  <2>2. t[i - 1] = q[(i - 1) + 1]
    BY <1>1, <2>1
  <2> QED BY <1>1, <1>3, <2>1, <2>2
<1>4. x = Head(q) => \E i \in DOMAIN q : q[i] = x
  BY <1>1
<1> QED BY <1>2, <1>3, <1>4 DEF t

LEMMA InboxTail ==
    ASSUME Shapes, inbox # <<>>, inbox' = Tail(inbox), bounds' = bounds,
           Owning' => Owning, OneOffer
    PROVE  /\ Head(inbox) \in Targets /\ OneOffer'
           /\ \A x : x \in Offered' => x \in Offered
           /\ \A x : x \in Offered /\ x # Head(inbox) => x \in Offered'
           /\ Head(inbox) # None => Head(inbox) \in Offered
           /\ Head(inbox) # None /\ Owning => Head(inbox) \notin Offered'
           /\ Head(inbox) = None => Offered' = Offered
<1>1. inbox \in Seq(Targets) /\ Redirects' = Redirects /\ None \notin Redirects
      /\ \A r \in Targets : r # None => r \in Redirects
  BY DomainsKept, Members DEF Shapes
<1>2. /\ Head(inbox) \in Targets
      /\ Len(inbox) \in Nat \ {0} /\ DOMAIN inbox = 1 .. Len(inbox)
      /\ DOMAIN inbox' = 1 .. Len(inbox) - 1
      /\ \A i \in 1 .. Len(inbox) - 1 : inbox'[i] = inbox[i + 1]
      /\ Head(inbox) = inbox[1]
  BY <1>1, SequenceTail
<1>3. \A x : /\ (\E i \in DOMAIN inbox' : inbox'[i] = x) => \E i \in DOMAIN inbox : inbox[i] = x
             /\ (\E i \in DOMAIN inbox : inbox[i] = x) /\ x # Head(inbox) =>
                  \E i \in DOMAIN inbox' : inbox'[i] = x
             /\ x = Head(inbox) => \E i \in DOMAIN inbox : inbox[i] = x
  <2> DEFINE t == Tail(inbox)
  <2>1. \A x : /\ (\E i \in DOMAIN t : t[i] = x) => \E i \in DOMAIN inbox : inbox[i] = x
               /\ (\E i \in DOMAIN inbox : inbox[i] = x) /\ x # Head(inbox) =>
                    \E i \in DOMAIN t : t[i] = x
               /\ x = Head(inbox) => \E i \in DOMAIN inbox : inbox[i] = x
    BY <1>1, TailMembers, Zenon
  <2>2. inbox' = t
    OBVIOUS
  <2> HIDE DEF t
  <2> QED BY <2>1, <2>2
<1>4. /\ \A x : x \in Offered' => x \in Offered
      /\ \A x : x \in Offered /\ x # Head(inbox) => x \in Offered'
      /\ Head(inbox) # None => Head(inbox) \in Offered
  BY <1>1, <1>2, <1>3 DEF Offered
<1>5. Head(inbox) = None => Offered' = Offered
  <2>1. None \notin Offered
    BY <1>1 DEF Offered
  <2> QED BY <1>4, <2>1
<1>6. OneOffer'
  <2> SUFFICES ASSUME Owning, NEW i \in DOMAIN inbox', NEW j \in DOMAIN inbox',
                      inbox'[i] # None, inbox'[i] = inbox'[j]
               PROVE  i = j
    BY DEF OneOffer
  <2>1. i + 1 \in DOMAIN inbox /\ j + 1 \in DOMAIN inbox
        /\ inbox[i + 1] = inbox'[i] /\ inbox[j + 1] = inbox'[j]
    BY <1>2
  <2>2. i + 1 = j + 1
    BY <2>1 DEF OneOffer
  <2> QED BY <1>2, <2>2
<1>7. ASSUME Head(inbox) # None, Owning, Head(inbox) \in Offered' PROVE FALSE
  <2>1. PICK i \in DOMAIN inbox' : inbox'[i] = Head(inbox)
    BY <1>7 DEF Offered
  <2>2. i + 1 \in DOMAIN inbox /\ inbox[i + 1] = inbox[1] /\ 1 \in DOMAIN inbox /\ i + 1 # 1
    BY <1>2, <2>1
  <2> QED BY <1>2, <1>7, <2>2 DEF OneOffer
<1> QED BY <1>2, <1>4, <1>5, <1>6, <1>7

LEMMA InboxAppended ==
    ASSUME Shapes, NEW r \in Targets, inbox' = inbox \o <<r>>, bounds' = bounds,
           Owning' => Owning, OneOffer, Owning => r \notin Offered
    PROVE  /\ OneOffer'
           /\ r = None => Offered' = Offered
           /\ r # None => Offered' = Offered \union {r}
<1>1. inbox \in Seq(Targets) /\ Redirects' = Redirects /\ None \notin Redirects
      /\ (r # None => r \in Redirects)
  BY DomainsKept, Members DEF Shapes
<1>2. /\ \A x : (\E i \in DOMAIN inbox' : inbox'[i] = x) <=>
                (\E i \in DOMAIN inbox : inbox[i] = x) \/ x = r
      /\ Len(inbox) \in Nat /\ DOMAIN inbox = 1 .. Len(inbox)
      /\ DOMAIN inbox' = 1 .. Len(inbox) + 1
      /\ \A i \in 1 .. Len(inbox) : inbox'[i] = inbox[i]
      /\ inbox'[Len(inbox) + 1] = r
  <2> DEFINE t == inbox'
  <2>1. inbox \in Seq(Targets) /\ r \in Targets /\ t = inbox \o <<r>>
    BY <1>1
  <2> HIDE DEF t
  <2>2. /\ Len(inbox) \in Nat /\ DOMAIN inbox = 1 .. Len(inbox)
        /\ DOMAIN t = 1 .. Len(inbox) + 1
        /\ \A i \in 1 .. Len(inbox) : t[i] = inbox[i]
        /\ t[Len(inbox) + 1] = r
    BY <2>1
  <2>3. \A x : (\E i \in DOMAIN t : t[i] = x) <=> (\E i \in DOMAIN inbox : inbox[i] = x) \/ x = r
    BY <2>2
  <2> QED BY <2>2, <2>3 DEF t
<1>3. /\ r = None => Offered' = Offered
      /\ r # None => Offered' = Offered \union {r}
  BY <1>1, <1>2 DEF Offered
<1>4. OneOffer'
  <2> SUFFICES ASSUME Owning, NEW i \in DOMAIN inbox', NEW j \in DOMAIN inbox',
                      inbox'[i] # None, inbox'[i] = inbox'[j]
               PROVE  i = j
    BY DEF OneOffer
  <2>1. ASSUME NEW k \in DOMAIN inbox, inbox[k] = r, r # None PROVE FALSE
    BY <1>1, <2>1 DEF Offered
  <2> QED BY <1>2, <2>1 DEF OneOffer
<1> QED BY <1>3, <1>4

LEMMA ReportTail ==
    ASSUME Shapes, OneReport, reports # <<>>, reports' = Tail(reports)
    PROVE  /\ OneReport'
           /\ Head(reports) = "commands" => Reported' = Reported
           /\ Head(reports) # "commands" =>
                Reported = {Head(reports)} /\ Reported' = {}
                /\ Head(reports) \in {"succeeded", "failed"}
<1>1. reports \in Seq(ReportSet)
  BY DEF Shapes, Channel
<1>2. /\ Head(reports) \in ReportSet
      /\ Len(reports) \in Nat \ {0} /\ DOMAIN reports = 1 .. Len(reports)
      /\ DOMAIN reports' = 1 .. Len(reports) - 1
      /\ \A i \in 1 .. Len(reports) - 1 : reports'[i] = reports[i + 1]
      /\ Head(reports) = reports[1]
  BY <1>1, SequenceTail
<1>3. \A x : /\ (\E i \in DOMAIN reports' : reports'[i] = x) =>
                  \E i \in DOMAIN reports : reports[i] = x
             /\ (\E i \in DOMAIN reports : reports[i] = x) /\ x # Head(reports) =>
                  \E i \in DOMAIN reports' : reports'[i] = x
             /\ x = Head(reports) => \E i \in DOMAIN reports : reports[i] = x
  <2> DEFINE t == Tail(reports)
  <2>1. \A x : /\ (\E i \in DOMAIN t : t[i] = x) => \E i \in DOMAIN reports : reports[i] = x
               /\ (\E i \in DOMAIN reports : reports[i] = x) /\ x # Head(reports) =>
                    \E i \in DOMAIN t : t[i] = x
               /\ x = Head(reports) => \E i \in DOMAIN reports : reports[i] = x
    BY <1>1, TailMembers, Zenon
  <2>2. reports' = t
    OBVIOUS
  <2> HIDE DEF t
  <2> QED BY <2>1, <2>2
<1>4. OneReport'
  <2> SUFFICES ASSUME NEW i \in DOMAIN reports', NEW j \in DOMAIN reports',
                      reports'[i] # "commands", reports'[j] # "commands"
               PROVE  i = j
    BY DEF OneReport
  <2>1. i + 1 \in DOMAIN reports /\ j + 1 \in DOMAIN reports
        /\ reports[i + 1] = reports'[i] /\ reports[j + 1] = reports'[j]
    BY <1>2
  <2>2. i + 1 = j + 1
    BY <2>1 DEF OneReport
  <2> QED BY <1>2, <2>2
<1>5. Head(reports) = "commands" => Reported' = Reported
  BY <1>3 DEF Reported
<1>6. ASSUME Head(reports) # "commands"
      PROVE  Reported = {Head(reports)} /\ Reported' = {}
             /\ Head(reports) \in {"succeeded", "failed"}
  <2>1. Head(reports) \in {"succeeded", "failed"}
    BY <1>2, <1>6 DEF ReportSet
  <2>2. ASSUME NEW i \in DOMAIN reports, reports[i] # "commands" PROVE i = 1
    <3>1. 1 \in DOMAIN reports /\ reports[1] # "commands"
      BY <1>2, <1>6
    <3> QED BY <2>2, <3>1 DEF OneReport
  <2>3. ASSUME NEW i \in DOMAIN reports' PROVE reports'[i] = "commands"
    <3>1. i + 1 \in DOMAIN reports /\ reports[i + 1] = reports'[i] /\ i + 1 # 1
      BY <1>2, <2>3
    <3> QED BY <2>2, <3>1
  <2>4. Reported' = {}
    BY <2>3 DEF Reported
  <2>5. Reported = {Head(reports)}
    BY <1>2, <2>1, <2>2, <1>3 DEF Reported
  <2> QED BY <2>1, <2>4, <2>5
<1> QED BY <1>4, <1>5, <1>6

LEMMA ControlAppended ==
    ASSUME Shapes, OneControl, NEW m \in Controls, m = "ControlRedirect" => ~Redirecting,
           control' = control \o <<m>>
    PROVE  OneControl' /\ (Redirecting' <=> Redirecting \/ m = "ControlRedirect")
<1>1. control \in Seq(Controls)
  BY DEF Shapes, Channel
<1>2. /\ \A x : (\E i \in DOMAIN control' : control'[i] = x) <=>
                (\E i \in DOMAIN control : control[i] = x) \/ x = m
      /\ Len(control) \in Nat /\ DOMAIN control = 1 .. Len(control)
      /\ DOMAIN control' = 1 .. Len(control) + 1
      /\ \A i \in 1 .. Len(control) : control'[i] = control[i]
      /\ control'[Len(control) + 1] = m
  <2> DEFINE t == control'
  <2>1. control \in Seq(Controls) /\ m \in Controls /\ t = control \o <<m>>
    BY <1>1
  <2> HIDE DEF t
  <2>2. /\ Len(control) \in Nat /\ DOMAIN control = 1 .. Len(control)
        /\ DOMAIN t = 1 .. Len(control) + 1
        /\ \A i \in 1 .. Len(control) : t[i] = control[i]
        /\ t[Len(control) + 1] = m
    BY <2>1
  <2>3. \A x : (\E i \in DOMAIN t : t[i] = x) <=> (\E i \in DOMAIN control : control[i] = x) \/ x = m
    BY <2>2
  <2> QED BY <2>2, <2>3 DEF t
<1>3. Redirecting' <=> Redirecting \/ m = "ControlRedirect"
  BY <1>2 DEF Redirecting
<1>4. OneControl'
  <2> SUFFICES ASSUME NEW i \in DOMAIN control', NEW j \in DOMAIN control',
                      control'[i] = "ControlRedirect", control'[j] = "ControlRedirect"
               PROVE  i = j
    BY DEF OneControl
  <2>1. CASE m = "ControlRedirect"
    <3>1. \A k \in DOMAIN control : control[k] # "ControlRedirect"
      BY <2>1 DEF Redirecting
    <3> QED BY <1>2, <3>1
  <2>2. CASE m # "ControlRedirect"
    BY <1>2, <2>2 DEF OneControl
  <2> QED BY <2>1, <2>2
<1> QED BY <1>3, <1>4

-----------------------------------------------------------------------------
(* The owner and the router, as the invariant sees them *)

\* What they leave alone.
Held == /\ fsm' = fsm /\ loop' = loop /\ bounds' = bounds
        /\ SameTask /\ SamePlace /\ Afloat' = Afloat

\* The ledger settles the redirect r.
SettledAs(r, success) ==
    IF route.stage = "active" /\ route.pending = r
    THEN /\ route'.stage = "active" /\ route'.pending = None
         /\ route'.account = IF success THEN r ELSE route.account
    ELSE route' = route

\* The owner learns that commands are served, or orders the drain.
LEMMA CommandsReadStep ==
    ASSUME Requesting, Redirection, Known, Held,
           Prepared' = Prepared,
           Redirecting' = Redirecting,
           Reported' = Reported,
           Offered' = Offered,
           route' = route,
           owner'.pc = owner.pc,
           owner'.redirect = owner.redirect,
           owner'.closing = owner.closing
    PROVE  Redirection'
<1> USE DEF Redirection, Held, SameTask, SamePlace, Ordered, Noticed, Announced, Answering,
            Owning, Swapped, Steering, Aimless, SettledAs
<1>1. TokenInv'
  BY DEF TokenInv, Known
<1>2. EarlyInv'
  BY DEF EarlyInv, TokenInv, LedgerInv, Live
<1>3. TargetInv'
  BY DEF TargetInv, TokenInv, Requesting, MigrationInv, Known
<1>4. LedgerInv'
  BY DEF LedgerInv, TokenInv, Requesting, MigrationInv, Known
<1>5. EndInv'
  BY DEF EndInv, Live
<1> QED BY <1>1, <1>2, <1>3, <1>4, <1>5

\* The result of the redirect reaches the ledger.
LEMMA ResultReadStep ==
    ASSUME Requesting, Redirection, Known, Held,
           Prepared' = Prepared,
           Redirecting' = Redirecting,
           NEW x \in {"succeeded", "failed"},
           Reported = {x},
           Reported' = {},
           Offered' = Offered,
           owner.pc = "select",
           owner'.pc = owner.pc,
           owner'.closing = owner.closing,
           owner'.redirect = None,
           IF owner.redirect = None THEN route' = route
           ELSE SettledAs(owner.redirect, x = "succeeded")
    PROVE  Redirection'
<1> USE DEF Redirection, Held, SameTask, SamePlace, Ordered, Noticed, Announced, Answering,
            Owning, Swapped, Steering, Aimless, SettledAs
<1>1. TokenInv'
  BY DEF TokenInv, Known
<1>2. EarlyInv'
  BY DEF EarlyInv, TokenInv, LedgerInv, Live
<1>3. TargetInv'
  BY DEF TargetInv, TokenInv, Requesting, MigrationInv, Known
<1>4. LedgerInv'
  BY DEF LedgerInv, TokenInv, Requesting, MigrationInv, Known
<1>5. EndInv'
  BY DEF EndInv, Live
<1> QED BY <1>1, <1>2, <1>3, <1>4, <1>5

\* A redirect is refused.
LEMMA RefusedStep ==
    ASSUME Requesting, Redirection, Known, Held,
           Prepared' = Prepared,
           Redirecting' = Redirecting,
           Reported' = Reported,
           NEW r \in Offered,
           r # None,
           \A y : y \in Offered' => y \in Offered,
           \A y : y \in Offered /\ y # r => y \in Offered',
           Owning => r \notin Offered',
           owner' = owner,
           SettledAs(r, FALSE)
    PROVE  Redirection'
<1> USE DEF Redirection, Held, SameTask, SamePlace, Ordered, Noticed, Announced, Answering,
            Owning, Swapped, Steering, Aimless, SettledAs
<1>1. TokenInv'
  BY DEF TokenInv, Known
<1>2. EarlyInv'
  BY DEF EarlyInv, TokenInv, LedgerInv, Live
<1>3. TargetInv'
  BY DEF TargetInv, TokenInv, Requesting, MigrationInv, Known
<1>a. Owning => route.pending = r /\ route.stage = "active" /\ owner.redirect = None
  BY DEF LedgerInv
<1>b. Owning => Offered' = {}
  BY <1>a DEF LedgerInv
<1>c. Owning => route'.pending = None /\ route'.stage = "active" /\ route'.account = route.account
  BY <1>a
<1>d. route'.stage = "active" /\ route'.pending # None =>
        route' = route /\ route.pending # r
  OBVIOUS
<1>e. route'.stage # "active" => route' = route
  OBVIOUS
<1>f. Swapped' = Swapped
  OBVIOUS
<1>4. LedgerInv'
  BY <1>a, <1>b, <1>c, <1>d, <1>e, <1>f DEF LedgerInv
<1>5. EndInv'
  BY DEF EndInv, Live
<1> QED BY <1>1, <1>2, <1>3, <1>4, <1>5

\* A redirect is accepted.
LEMMA AcceptedStep ==
    ASSUME Requesting, Redirection, Known, Held,
           Prepared' = Prepared,
           Redirecting' = Redirecting,
           Reported' = Reported,
           NEW r \in Offered,
           r # None,
           \A y : y \in Offered' => y \in Offered,
           Owning => r \notin Offered',
           owner.pc = "select",
           owner.redirect = None,
           ~owner.closing,
           owner'.pc = "prepare",
           owner'.redirect = r,
           owner'.closing = owner.closing,
           route' = route
    PROVE  Redirection'
<1> USE DEF Redirection, Held, SameTask, SamePlace, Ordered, Noticed, Announced, Answering,
            Owning, Swapped, Steering, Aimless, SettledAs
<1>1. TokenInv'
  BY DEF TokenInv, Known
<1>2. EarlyInv'
  BY DEF EarlyInv, TokenInv, LedgerInv, Live
<1>3. TargetInv'
  BY DEF TargetInv, TokenInv, Requesting, MigrationInv, Known
<1>a. route.pending = r /\ route.stage = "active" /\ Owning
  BY DEF LedgerInv
<1>b. Offered' = {}
  BY <1>a DEF LedgerInv
<1>c. ~Swapped /\ ~Swapped'
  BY <1>a DEF TokenInv, Known
<1>4. LedgerInv'
  BY <1>a, <1>b, <1>c DEF LedgerInv
<1>5. EndInv'
  BY DEF EndInv, Live
<1> QED BY <1>1, <1>2, <1>3, <1>4, <1>5

\* The target goes to the engine.
LEMMA PreparesStep ==
    ASSUME Requesting, Redirection, Known, Held,
           Prepared' = Prepared \union {owner.redirect},
           Redirecting' = Redirecting,
           Reported' = Reported,
           Offered' = Offered,
           owner.pc = "prepare",
           owner'.pc = "control",
           owner'.redirect = owner.redirect,
           owner'.closing = owner.closing,
           route' = route
    PROVE  Redirection'
<1> USE DEF Redirection, Held, SameTask, SamePlace, Ordered, Noticed, Announced, Answering,
            Owning, Swapped, Steering, Aimless, SettledAs
<1>1. TokenInv'
  BY DEF TokenInv, Known
<1>2. EarlyInv'
  BY DEF EarlyInv, TokenInv, LedgerInv, Live
<1>3. TargetInv'
  BY DEF TargetInv, TokenInv, Requesting, MigrationInv, Known
<1>4. LedgerInv'
  BY DEF LedgerInv, TokenInv, Requesting, MigrationInv, Known
<1>5. EndInv'
  BY DEF EndInv, Live
<1> QED BY <1>1, <1>2, <1>3, <1>4, <1>5

\* The redirect becomes a control.
LEMMA OrderedStep ==
    ASSUME Requesting, Redirection, Known, Held,
           Prepared' = Prepared,
           Redirecting',
           Reported' = Reported,
           Offered' = Offered,
           owner.pc = "control",
           owner'.pc = "select",
           owner'.redirect = owner.redirect,
           owner'.closing = owner.closing,
           route' = route
    PROVE  Redirection'
<1> USE DEF Redirection, Held, SameTask, SamePlace, Ordered, Noticed, Announced, Answering,
            Owning, Swapped, Steering, Aimless, SettledAs
<1>1. TokenInv'
  BY DEF TokenInv, Known
<1>2. EarlyInv'
  BY DEF EarlyInv, TokenInv, LedgerInv, Live
<1>3. TargetInv'
  BY DEF TargetInv, TokenInv, Requesting, MigrationInv, Known
<1>4. LedgerInv'
  BY DEF LedgerInv, TokenInv, Requesting, MigrationInv, Known
<1>5. EndInv'
  BY DEF EndInv, Live
<1> QED BY <1>1, <1>2, <1>3, <1>4, <1>5

\* The loop has ended before the control: the redirect has failed.
LEMMA LateStep ==
    ASSUME Requesting, Redirection, Known, Held,
           Prepared' = Prepared,
           Redirecting' = Redirecting,
           Reported' = Reported,
           Offered' = Offered,
           loop.pc = "ended",
           owner.pc = "control",
           owner'.pc = "select",
           owner'.redirect = None,
           owner'.closing = owner.closing,
           SettledAs(owner.redirect, FALSE)
    PROVE  Redirection'
<1> USE DEF Redirection, Held, SameTask, SamePlace, Ordered, Noticed, Announced, Answering,
            Owning, Swapped, Steering, Aimless, SettledAs
<1>1. TokenInv'
  BY DEF TokenInv, Known
<1>2. EarlyInv'
  BY DEF EarlyInv, TokenInv, LedgerInv, Live
<1>3. TargetInv'
  BY DEF TargetInv, TokenInv, Requesting, MigrationInv, Known
<1>4. LedgerInv'
  BY DEF LedgerInv, TokenInv, Requesting, MigrationInv, Known
<1>5. EndInv'
  BY DEF EndInv, Live
<1> QED BY <1>1, <1>2, <1>3, <1>4, <1>5

\* A force close, or the end of the loop, takes the redirect from the owner.
LEMMA ForcedStep ==
    ASSUME Requesting, Redirection, Known, Held,
           Prepared' = Prepared,
           Redirecting' = Redirecting,
           Reported' = Reported,
           Offered' = Offered,
           owner.pc = "select",
           owner'.pc \in {"select", "join"},
           ~Owning',
           owner'.pc = "join" => loop.pc = "ended",
           owner'.redirect = None,
           SettledAs(owner.redirect, FALSE) \/ (route'.stage = "closed" /\ route'.pending = None)
    PROVE  Redirection'
<1> USE DEF Redirection, Held, SameTask, SamePlace, Ordered, Noticed, Announced, Answering,
            Owning, Swapped, Steering, Aimless, SettledAs
<1>1. TokenInv'
  BY DEF TokenInv, Known
<1>2. EarlyInv'
  BY DEF EarlyInv, TokenInv, LedgerInv, Live
<1>3. TargetInv'
  BY DEF TargetInv, TokenInv, Requesting, MigrationInv, Known
<1>4. LedgerInv'
  BY DEF LedgerInv, TokenInv, Requesting, MigrationInv, Known
<1>5. EndInv'
  BY DEF EndInv, Live
<1> QED BY <1>1, <1>2, <1>3, <1>4, <1>5

\* The owner ends.
LEMMA FinishedStep ==
    ASSUME Requesting, Redirection, Known, Held,
           Prepared' = Prepared,
           Redirecting' = Redirecting,
           Reported' = {},
           Offered' = Offered,
           owner.pc = "join",
           owner'.pc = "done",
           owner'.redirect = owner.redirect,
           owner'.closing = owner.closing,
           route' = route
    PROVE  Redirection'
<1> USE DEF Redirection, Held, SameTask, SamePlace, Ordered, Noticed, Announced, Answering,
            Owning, Swapped, Steering, Aimless, SettledAs
<1>1. TokenInv'
  BY DEF TokenInv, Known
<1>2. EarlyInv'
  BY DEF EarlyInv, TokenInv, LedgerInv, Live
<1>3. TargetInv'
  BY DEF TargetInv, TokenInv, Requesting, MigrationInv, Known
<1>4. LedgerInv'
  BY DEF LedgerInv, TokenInv, Requesting, MigrationInv, Known
<1>5. EndInv'
  BY DEF EndInv, Live
<1> QED BY <1>1, <1>2, <1>3, <1>4, <1>5

\* A redirect is offered.
LEMMA OfferedStep ==
    ASSUME Requesting, Redirection, Known, Held,
           Prepared' = Prepared,
           Redirecting' = Redirecting,
           Reported' = Reported,
           NEW r,
           r # None,
           Offered' = Offered \union {r},
           None \notin Offered,
           owner' = owner,
           route.stage = "active",
           route.pending = None,
           bounds.early \/ fsm.flags.authenticated,
           route'.stage = "active",
           route'.pending = r,
           route'.account = route.account
    PROVE  Redirection'
<1> USE DEF Redirection, Held, SameTask, SamePlace, Ordered, Noticed, Announced, Answering,
            Owning, Swapped, Steering, Aimless, SettledAs
<1>1. TokenInv'
  BY DEF TokenInv, Known
<1>2. EarlyInv'
  BY DEF EarlyInv, TokenInv, LedgerInv, Live
<1>3. TargetInv'
  BY DEF TargetInv, TokenInv, Requesting, MigrationInv, Known
<1>4. LedgerInv'
  BY DEF LedgerInv, TokenInv, Requesting, MigrationInv, Known
<1>5. EndInv'
  BY DEF EndInv, Live
<1> QED BY <1>1, <1>2, <1>3, <1>4, <1>5

\* A close is ordered.
LEMMA ClosedStep ==
    ASSUME Requesting, Redirection, Known, Held,
           Prepared' = Prepared,
           Redirecting' = Redirecting,
           Reported' = Reported,
           Offered' = Offered,
           owner' = owner,
           route'.stage = route.stage,
           route'.pending = route.pending,
           route'.account = route.account
    PROVE  Redirection'
<1> USE DEF Redirection, Held, SameTask, SamePlace, Ordered, Noticed, Announced, Answering,
            Owning, Swapped, Steering, Aimless, SettledAs
<1>1. TokenInv'
  BY DEF TokenInv, Known
<1>2. EarlyInv'
  BY DEF EarlyInv, TokenInv, LedgerInv, Live
<1>3. TargetInv'
  BY DEF TargetInv, TokenInv, Requesting, MigrationInv, Known
<1>4. LedgerInv'
  BY DEF LedgerInv, TokenInv, Requesting, MigrationInv, Known
<1>5. EndInv'
  BY DEF EndInv, Live
<1> QED BY <1>1, <1>2, <1>3, <1>4, <1>5
-----------------------------------------------------------------------------
(* The steps of the owner and the router *)

OwnerSide == UNCHANGED <<fsm, events, loop, engine, server, faults, bounds>>

LEMMA OwnerViews ==
    ASSUME Shapes, AgreeInv, OwnerSide
    PROVE  /\ Requesting /\ Redirection /\ Known /\ Ordering
           /\ Afloat' = Afloat => Held
           /\ cmds' = cmds => Afloat' = Afloat /\ Prepared' = Prepared /\ WireOrder' /\ PrepareOrder'
           /\ control' = control => Redirecting' = Redirecting /\ OneControl'
           /\ reports' = reports => Reported' = Reported /\ OneReport'
           /\ inbox' = inbox => Offered' = Offered /\ ((Owning' => Owning) => OneOffer')
           /\ (/\ Afloat' = Afloat /\ (route'.stage = "active" => route.stage = "active")
               /\ WireOrder' /\ PrepareOrder' /\ OneControl' /\ OneReport' /\ OneOffer'
               /\ Redirection') => AgreeInv'
<1>1. /\ fsm' = fsm /\ events' = events /\ loop' = loop /\ engine' = engine
      /\ server' = server /\ faults' = faults /\ bounds' = bounds
  BY DEF OwnerSide
<1>2. Requesting /\ Redirection /\ Known /\ Ordering /\ faults = {}
  BY AgreedSteady
<1>3. SameTask /\ SamePlace /\ Listed' = Listed /\ Queue' = Queue
  BY <1>1, TaskKept DEF SameTask, SamePlace, Queue
<1>4. Redirects' = Redirects
  BY <1>1, DomainsKept
<1>5. cmds' = cmds => Afloat' = Afloat /\ Prepared' = Prepared /\ WireOrder' /\ PrepareOrder'
  BY <1>1, <1>2, WireKept DEF Ordering
<1>6. control' = control => Redirecting' = Redirecting /\ OneControl'
  BY <1>2 DEF Redirecting, OneControl, Ordering
<1>7. reports' = reports => Reported' = Reported /\ OneReport'
  BY <1>2 DEF Reported, OneReport, Ordering
<1>8. inbox' = inbox => Offered' = Offered /\ ((Owning' => Owning) => OneOffer')
  BY <1>2, <1>4 DEF Offered, OneOffer, Ordering
<1>9. Afloat' = Afloat /\ (route'.stage = "active" => route.stage = "active") => Requesting'
  BY <1>1, <1>2, <1>3, RequestingKept
<1>10. Afloat' = Afloat => Held
  BY <1>1, <1>3 DEF Held
<1> QED BY <1>1, <1>2, <1>3, <1>5, <1>6, <1>7, <1>8, <1>9, <1>10 DEF AgreeInv, Ordering

\* What finish_redirect does to the ledger.
LEMMA Settling ==
    ASSUME Shapes, NEW r, NEW success
    PROVE  /\ route' = Settled(r, success) => SettledAs(r, success)
           /\ SettledAs(r, success) => (route'.stage = "active" => route.stage = "active")
<1>1. route \in Routes
  BY DEF Shapes
<1>2. route' = Settled(r, success) => SettledAs(r, success)
  <2>1. CASE route.stage = "active" /\ route.pending = r
    <3> DEFINE account == IF success THEN r ELSE route.account
    <3>1. route' = Settled(r, success) => route' = [route EXCEPT !.pending = None, !.account = account]
      BY <2>1 DEF Settled
    <3> HIDE DEF account
    <3>2. route' = [route EXCEPT !.pending = None, !.account = account] =>
            route'.stage = "active" /\ route'.pending = None /\ route'.account = account
      BY <1>1, <2>1 DEF Routes
    <3> QED BY <2>1, <3>1, <3>2 DEF SettledAs, account
  <2>2. CASE ~(route.stage = "active" /\ route.pending = r)
    BY <2>2 DEF Settled, SettledAs
  <2> QED BY <2>1, <2>2
<1> QED BY <1>2 DEF SettledAs

LEMMA OwnerReadsKeeps == ASSUME Shapes, AgreeInv, OwnerReads PROVE AgreeInv'
<1>1. /\ OwnerSide /\ cmds' = cmds /\ control' = control /\ inbox' = inbox
      /\ reports # <<>> /\ reports' = Tail(reports) /\ owner.pc = "select" /\ owner \in Owners
  BY DEF OwnerReads, OwnerUnchanged, OwnerSide, Shapes
<1>2. /\ Requesting /\ Redirection /\ Known /\ OneReport /\ Held
      /\ Afloat' = Afloat /\ Prepared' = Prepared /\ Redirecting' = Redirecting
      /\ Offered' = Offered
  BY <1>1, OwnerViews DEF Ordering
<1>3. /\ OneReport'
      /\ Head(reports) = "commands" => Reported' = Reported
      /\ Head(reports) # "commands" =>
           Reported = {Head(reports)} /\ Reported' = {}
           /\ Head(reports) \in {"succeeded", "failed"}
  BY <1>1, <1>2, ReportTail
<1>4. CASE Head(reports) = "commands"
  <2>1. owner' = [owner EXCEPT !.commands = TRUE] /\ route' = route
    BY <1>4 DEF OwnerReads
  <2>2. /\ owner'.pc = owner.pc /\ owner'.redirect = owner.redirect
        /\ owner'.closing = owner.closing
    BY <1>1, <2>1 DEF Owners
  <2>3. Redirection'
    BY <1>2, <1>3, <1>4, <2>1, <2>2, CommandsReadStep
  <2>4. Owning' => Owning
    BY <2>2 DEF Owning
  <2> QED BY <1>1, <1>2, <1>3, <2>1, <2>3, <2>4, OwnerViews
<1>5. CASE Head(reports) # "commands"
  <2> DEFINE x == Head(reports)
  <2>1. /\ owner' = [owner EXCEPT !.redirect = None]
        /\ route' = IF owner.redirect = None THEN route
                    ELSE Settled(owner.redirect, x = "succeeded")
    BY <1>5 DEF OwnerReads
  <2>2. /\ owner'.pc = owner.pc /\ owner'.redirect = None /\ owner'.closing = owner.closing
    BY <1>1, <2>1 DEF Owners
  <2>3. Reported = {x} /\ Reported' = {} /\ x \in {"succeeded", "failed"}
    BY <1>3, <1>5
  <2> HIDE DEF x
  <2>4. /\ IF owner.redirect = None THEN route' = route
           ELSE SettledAs(owner.redirect, x = "succeeded")
        /\ route'.stage = "active" => route.stage = "active"
    BY <2>1, Settling
  <2>5. Redirection'
    BY <1>1, <1>2, <2>2, <2>3, <2>4, ResultReadStep
  <2>6. Owning' => Owning
    BY <2>2 DEF Owning
  <2> QED BY <1>1, <1>2, <1>3, <2>4, <2>5, <2>6, OwnerViews
<1> QED BY <1>4, <1>5

LEMMA OwnerTakesRedirectKeeps == ASSUME Shapes, AgreeInv, OwnerTakesRedirect PROVE AgreeInv'
<1> DEFINE r == Head(inbox)
<1>1. /\ OwnerSide /\ cmds' = cmds /\ control' = control /\ reports' = reports
      /\ inbox # <<>> /\ r # None /\ inbox' = Tail(inbox) /\ owner.pc = "select"
      /\ owner \in Owners /\ bounds' = bounds
      /\ \/ route' = Settled(r, FALSE) /\ owner' = owner
         \/ /\ ~owner.closing /\ owner.redirect = None /\ route' = route
            /\ owner' = [owner EXCEPT !.pc = "prepare", !.redirect = r]
  BY DEF OwnerTakesRedirect, OwnerUnchanged, OwnerSide, Shapes
<1>2. /\ Requesting /\ Redirection /\ Known /\ OneOffer /\ Held
      /\ Afloat' = Afloat /\ Prepared' = Prepared /\ Redirecting' = Redirecting
      /\ Reported' = Reported /\ WireOrder' /\ PrepareOrder' /\ OneControl' /\ OneReport'
  BY <1>1, OwnerViews DEF Ordering
<1>3. ASSUME Owning' => Owning
      PROVE  /\ OneOffer' /\ r \in Offered
             /\ \A y : y \in Offered' => y \in Offered
             /\ \A y : y \in Offered /\ y # r => y \in Offered'
             /\ Owning => r \notin Offered'
  BY <1>1, <1>2, <1>3, InboxTail
<1> HIDE DEF r
<1>4. CASE route' = Settled(r, FALSE) /\ owner' = owner
  <2>1. SettledAs(r, FALSE) /\ (route'.stage = "active" => route.stage = "active")
    BY <1>4, Settling
  <2>2. Owning' => Owning
    BY <1>4 DEF Owning
  <2>3. Redirection'
    BY <1>1, <1>2, <1>3, <1>4, <2>1, <2>2, RefusedStep
  <2> QED BY <1>1, <1>2, <1>3, <2>1, <2>2, <2>3, OwnerViews
<1>5. CASE /\ ~owner.closing /\ owner.redirect = None /\ route' = route
           /\ owner' = [owner EXCEPT !.pc = "prepare", !.redirect = r]
  <2>1. owner'.pc = "prepare" /\ owner'.redirect = r /\ owner'.closing = owner.closing
    BY <1>1, <1>5 DEF Owners
  <2>2. Owning' => Owning
    BY <1>1, <1>5, <2>1 DEF Owning
  <2>3. Redirection'
    BY <1>1, <1>2, <1>3, <1>5, <2>1, <2>2, AcceptedStep
  <2> QED BY <1>1, <1>2, <1>3, <1>5, <2>2, <2>3, OwnerViews
<1> QED BY <1>1, <1>4, <1>5

LEMMA OwnerPreparesKeeps == ASSUME Shapes, AgreeInv, OwnerPrepares PROVE AgreeInv'
<1>1. /\ OwnerSide /\ control' = control /\ reports' = reports /\ inbox' = inbox
      /\ route' = route /\ owner.pc = "prepare" /\ owner \in Owners
      /\ owner' = [owner EXCEPT !.pc = "control"]
      /\ cmds' = cmds \o <<Prepare(owner.redirect)>> /\ bounds' = bounds
      /\ loop'.out = loop.out /\ owner.redirect # None
  BY DEF OwnerPrepares, OwnerUnchanged, OwnerSide, Shapes
<1>2. owner'.pc = "control" /\ owner'.redirect = owner.redirect /\ owner'.closing = owner.closing
  BY <1>1 DEF Owners
<1>3. owner.redirect \in Redirects
  BY <1>1, Members DEF Shapes, Owners
<1>4. Requesting /\ Redirection /\ Known /\ WireOrder /\ PrepareOrder
  BY <1>1, OwnerViews DEF Ordering
<1>5. Followers \cap Afloat = {}
  BY <1>1, <1>4 DEF Followers, Notices, Redirection, Requesting, TokenInv, MigrationInv,
                    Ordered, Answering, Noticed, Started
<1>6. /\ Afloat' = Afloat /\ Prepared' = Prepared \union {owner.redirect}
      /\ WireOrder' /\ PrepareOrder'
  BY <1>1, <1>3, <1>4, <1>5, WirePrepared
<1>7. Owning' => Owning
  BY <1>1, <1>2 DEF Owning
<1>8. /\ Held /\ Redirecting' = Redirecting /\ OneControl' /\ Reported' = Reported
      /\ OneReport' /\ Offered' = Offered /\ OneOffer'
  BY <1>1, <1>6, <1>7, OwnerViews
<1>9. Redirection'
  BY <1>1, <1>2, <1>4, <1>6, <1>8, PreparesStep
<1> QED BY <1>1, <1>6, <1>8, <1>9, OwnerViews

LEMMA OwnerRedirectsKeeps == ASSUME Shapes, AgreeInv, OwnerRedirects PROVE AgreeInv'
<1>1. /\ OwnerSide /\ cmds' = cmds /\ reports' = reports /\ inbox' = inbox
      /\ owner.pc = "control" /\ owner \in Owners
  BY DEF OwnerRedirects, OwnerUnchanged, OwnerSide, Shapes
<1>2. /\ Requesting /\ Redirection /\ Known /\ OneControl /\ Held
      /\ Afloat' = Afloat /\ Prepared' = Prepared /\ Reported' = Reported
      /\ Offered' = Offered /\ WireOrder' /\ PrepareOrder' /\ OneReport'
  BY <1>1, OwnerViews DEF Ordering
<1>3. CASE loop.pc = "ended"
  <2>1. /\ control' = control /\ route' = Settled(owner.redirect, FALSE)
        /\ owner' = [owner EXCEPT !.pc = "select", !.redirect = None]
    BY <1>3 DEF OwnerRedirects, SendControl
  <2>2. owner'.pc = "select" /\ owner'.redirect = None /\ owner'.closing = owner.closing
    BY <1>1, <2>1 DEF Owners
  <2>3. Owning' => Owning
    BY <1>1, <2>2 DEF Owning
  <2>4. Redirecting' = Redirecting /\ OneControl' /\ OneOffer'
    BY <1>1, <2>1, <2>3, OwnerViews
  <2>5. /\ SettledAs(owner.redirect, FALSE)
        /\ route'.stage = "active" => route.stage = "active"
    BY <2>1, Settling
  <2>6. Redirection'
    BY <1>1, <1>2, <1>3, <2>2, <2>4, <2>5, LateStep
  <2> QED BY <1>1, <1>2, <2>4, <2>5, <2>6, OwnerViews
<1>4. CASE loop.pc # "ended"
  <2>1. /\ control' = control \o <<"ControlRedirect">> /\ route' = route
        /\ owner' = [owner EXCEPT !.pc = "select"]
    BY <1>4 DEF OwnerRedirects, SendControl
  <2>2. /\ owner'.pc = "select" /\ owner'.redirect = owner.redirect
        /\ owner'.closing = owner.closing
    BY <1>1, <2>1 DEF Owners
  <2>3. Owning' => Owning
    BY <1>1, <2>2 DEF Owning
  <2>4. ~Redirecting
    BY <1>1, <1>2 DEF Redirection, TokenInv, Ordered
  <2>5. OneControl' /\ Redirecting'
    BY <1>2, <2>1, <2>4, ControlAppended DEF Controls
  <2>6. Redirection'
    BY <1>1, <1>2, <2>1, <2>2, <2>5, OrderedStep
  <2> QED BY <1>1, <1>2, <2>1, <2>3, <2>5, <2>6, OwnerViews
<1> QED BY <1>3, <1>4

\* Any other control, whether it is sent or not.
LEMMA ControlSent ==
    ASSUME Shapes, OneControl, NEW m \in Controls, m # "ControlRedirect", SendControl(m)
    PROVE  OneControl' /\ Redirecting' = Redirecting
<1>1. CASE control' = control \o <<m>>
  <2>1. OneControl' /\ (Redirecting' <=> Redirecting \/ m = "ControlRedirect")
    BY <1>1, ControlAppended
  <2> QED BY <2>1 DEF Redirecting
<1>2. CASE control' = control
  BY <1>2 DEF OneControl, Redirecting
<1> QED BY <1>1, <1>2 DEF SendControl

LEMMA OwnerTakesCloseKeeps == ASSUME Shapes, AgreeInv, OwnerTakesClose PROVE AgreeInv'
<1>1. /\ OwnerSide /\ cmds' = cmds /\ reports' = reports
      /\ owner.pc = "select" /\ owner \in Owners /\ bounds' = bounds
      /\ inbox # <<>> /\ Head(inbox) = None /\ inbox' = Tail(inbox)
      /\ owner' = [owner EXCEPT !.closing = TRUE, !.redirect = None]
      /\ route' = IF owner.redirect = None THEN route ELSE Settled(owner.redirect, FALSE)
      /\ SendControl("ControlCloseImmediate")
  BY DEF OwnerTakesClose, OwnerUnchanged, OwnerSide, Shapes
<1>2. /\ Requesting /\ Redirection /\ Known /\ OneControl /\ OneOffer /\ Held
      /\ Afloat' = Afloat /\ Prepared' = Prepared /\ Reported' = Reported
      /\ WireOrder' /\ PrepareOrder' /\ OneReport'
  BY <1>1, OwnerViews DEF Ordering
<1>3. owner'.pc = "select" /\ owner'.redirect = None /\ owner'.closing
  BY <1>1 DEF Owners
<1>4. ~Owning'
  BY <1>3 DEF Owning
<1>5. OneControl' /\ Redirecting' = Redirecting
  BY <1>1, <1>2, ControlSent DEF Controls
<1>6. OneOffer' /\ Offered' = Offered
  BY <1>1, <1>2, <1>4, InboxTail
<1>7. /\ SettledAs(owner.redirect, FALSE)
      /\ route'.stage = "active" => route.stage = "active"
  BY <1>1, Settling DEF SettledAs
<1>8. Redirection'
  BY <1>1, <1>2, <1>3, <1>4, <1>5, <1>6, <1>7, ForcedStep
<1> QED BY <1>1, <1>2, <1>5, <1>6, <1>7, <1>8, OwnerViews

LEMMA OwnerDrainsKeeps == ASSUME Shapes, AgreeInv, OwnerDrains PROVE AgreeInv'
<1>1. /\ OwnerSide /\ cmds' = cmds /\ reports' = reports /\ inbox' = inbox
      /\ route' = route /\ owner \in Owners
      /\ owner' = [owner EXCEPT !.drained = TRUE] /\ SendControl("ControlGracefulClose")
  BY DEF OwnerDrains, OwnerUnchanged, OwnerSide, Shapes
<1>2. /\ owner'.pc = owner.pc /\ owner'.redirect = owner.redirect
      /\ owner'.closing = owner.closing
  BY <1>1 DEF Owners
<1>3. Owning' => Owning
  BY <1>2 DEF Owning
<1>4. /\ Requesting /\ Redirection /\ Known /\ OneControl /\ Held
      /\ Afloat' = Afloat /\ Prepared' = Prepared /\ Reported' = Reported
      /\ Offered' = Offered /\ WireOrder' /\ PrepareOrder' /\ OneReport' /\ OneOffer'
  BY <1>1, <1>3, OwnerViews DEF Ordering
<1>5. OneControl' /\ Redirecting' = Redirecting
  BY <1>1, <1>4, ControlSent DEF Controls
<1>6. Redirection'
  BY <1>1, <1>2, <1>4, <1>5, CommandsReadStep
<1> QED BY <1>1, <1>4, <1>5, <1>6, OwnerViews

LEMMA OwnerJoinsKeeps == ASSUME Shapes, AgreeInv, OwnerJoins PROVE AgreeInv'
<1> DEFINE settled == IF owner.redirect = None THEN route ELSE Settled(owner.redirect, FALSE)
<1>1. /\ OwnerSide /\ cmds' = cmds /\ control' = control /\ reports' = reports
      /\ inbox' = inbox /\ owner.pc = "select" /\ owner \in Owners /\ loop.pc = "ended"
      /\ owner' = [owner EXCEPT !.pc = "join", !.redirect = None]
      /\ route' = IF owner.closing
                  THEN [settled EXCEPT !.stage = "closed", !.pending = None]
                  ELSE settled
  BY DEF OwnerJoins, OwnerUnchanged, OwnerSide, Shapes
<1>2. owner'.pc = "join" /\ owner'.redirect = None
  BY <1>1 DEF Owners
<1>3. ~Owning'
  BY <1>2 DEF Owning
<1>4. /\ Requesting /\ Redirection /\ Known /\ Held
      /\ Afloat' = Afloat /\ Prepared' = Prepared /\ Reported' = Reported
      /\ Redirecting' = Redirecting /\ Offered' = Offered
      /\ WireOrder' /\ PrepareOrder' /\ OneControl' /\ OneReport' /\ OneOffer'
  BY <1>1, <1>3, OwnerViews
<1>5. route' = settled => /\ SettledAs(owner.redirect, FALSE)
                          /\ route'.stage = "active" => route.stage = "active"
  BY Settling DEF SettledAs
<1>6. settled \in Routes
  BY OwnerSettles
<1> HIDE DEF settled
<1>7. owner.closing => route'.stage = "closed" /\ route'.pending = None
  BY <1>1, <1>6 DEF Routes
<1>8. Redirection'
  BY <1>1, <1>2, <1>3, <1>4, <1>5, <1>7, ForcedStep
<1> QED BY <1>1, <1>4, <1>5, <1>7, <1>8, OwnerViews

LEMMA OwnerFinishesKeeps == ASSUME Shapes, AgreeInv, OwnerFinishes PROVE AgreeInv'
<1>1. /\ OwnerSide /\ cmds' = cmds /\ control' = control /\ reports' = <<>>
      /\ inbox' = inbox /\ route' = route /\ owner.pc = "join" /\ owner \in Owners
      /\ owner' = [owner EXCEPT !.pc = "done"]
  BY DEF OwnerFinishes, OwnerUnchanged, OwnerSide, Shapes
<1>2. owner'.pc = "done" /\ owner'.redirect = owner.redirect /\ owner'.closing = owner.closing
  BY <1>1 DEF Owners
<1>3. ~Owning'
  BY <1>2 DEF Owning
<1>4. /\ Requesting /\ Redirection /\ Known /\ Held
      /\ Afloat' = Afloat /\ Prepared' = Prepared
      /\ Redirecting' = Redirecting /\ Offered' = Offered
      /\ WireOrder' /\ PrepareOrder' /\ OneControl' /\ OneOffer'
  BY <1>1, <1>3, OwnerViews
<1>5. Reported' = {} /\ OneReport'
  BY <1>1 DEF Reported, OneReport
<1>6. Redirection'
  BY <1>1, <1>2, <1>4, <1>5, FinishedStep
<1> QED BY <1>1, <1>4, <1>5, <1>6, OwnerViews

LEMMA RouterRedirectsKeeps == ASSUME Shapes, AgreeInv, RouterRedirects PROVE AgreeInv'
<1> DEFINE r == route.offered + 2
           n == route.offered + 1
<1>1. /\ OwnerSide /\ cmds' = cmds /\ control' = control /\ reports' = reports
      /\ owner' = owner /\ inbox' = inbox \o <<r>> /\ route \in Routes /\ bounds' = bounds
      /\ route.stage = "active" /\ route.pending = None
      /\ bounds.early \/ fsm.flags.authenticated
      /\ route' = [route EXCEPT !.pending = r, !.offered = n]
  BY DEF RouterRedirects, EnvironmentUnchanged, OwnerSide, Shapes
<1>2. r \in Redirects
  BY Members DEF RouterRedirects, Redirects, Routes, Offers, Shapes
<1>3. r \in Targets /\ r # None
  BY <1>2, Members DEF Shapes
<1> HIDE DEF r, n
<1>4. /\ route'.stage = "active" /\ route'.pending = r /\ route'.account = route.account
  BY <1>1 DEF Routes
<1>5. /\ Requesting /\ Redirection /\ Known /\ Held /\ OneOffer
      /\ Afloat' = Afloat /\ Prepared' = Prepared /\ Reported' = Reported
      /\ Redirecting' = Redirecting
      /\ WireOrder' /\ PrepareOrder' /\ OneControl' /\ OneReport'
  BY <1>1, OwnerViews DEF Ordering
<1>6. None \notin Offered
  BY Members DEF Offered, Shapes
<1>7. Owning => r \notin Offered
  BY <1>1, <1>3, <1>5 DEF Redirection, LedgerInv
<1>8. Owning' => Owning
  BY <1>1 DEF Owning
<1>9. OneOffer' /\ Offered' = Offered \union {r}
  BY <1>1, <1>3, <1>5, <1>7, <1>8, InboxAppended
<1>10. Redirection'
  BY <1>1, <1>3, <1>4, <1>5, <1>6, <1>9, OfferedStep
<1> QED BY <1>1, <1>5, <1>9, <1>10, OwnerViews

LEMMA RouterClosesKeeps == ASSUME Shapes, AgreeInv, RouterCloses PROVE AgreeInv'
<1>1. /\ OwnerSide /\ cmds' = cmds /\ control' = control /\ reports' = reports
      /\ owner' = owner /\ inbox' = inbox \o <<None>> /\ route \in Routes
      /\ bounds' = bounds /\ route' = [route EXCEPT !.closing = TRUE]
  BY DEF RouterCloses, EnvironmentUnchanged, OwnerSide, Shapes
<1>2. /\ route'.stage = route.stage /\ route'.pending = route.pending
      /\ route'.account = route.account
  BY <1>1 DEF Routes
<1>3. /\ Requesting /\ Redirection /\ Known /\ Held /\ OneOffer
      /\ Afloat' = Afloat /\ Prepared' = Prepared /\ Reported' = Reported
      /\ Redirecting' = Redirecting
      /\ WireOrder' /\ PrepareOrder' /\ OneControl' /\ OneReport'
  BY <1>1, OwnerViews DEF Ordering
<1>4. None \notin Offered /\ None \in Targets
  BY Members DEF Offered, Shapes
<1>5. Owning' => Owning
  BY <1>1 DEF Owning
<1>6. OneOffer' /\ Offered' = Offered
  BY <1>1, <1>3, <1>4, <1>5, InboxAppended
<1>7. Redirection'
  BY <1>1, <1>2, <1>3, <1>6, ClosedStep
<1> QED BY <1>1, <1>2, <1>3, <1>6, <1>7, OwnerViews

\* An aborted engine leaves nothing behind: the machine has closed.
LEMMA AbortStep ==
    ASSUME Redirection, Known, fsm' = fsm, loop' = loop, owner' = owner, bounds' = bounds,
           Offered' = {}, Reported' = Reported, Redirecting' = Redirecting,
           Afloat' = {}, Prepared' = {}, SameEnds, Free', server' = server, Queue' = Queue,
           engine'.pc = "done", owner.pc = "join", ~Live,
           Queue \in {"", "ClientEof", "BackendIoError"} \union Migrated \union RequestEvents,
           route'.stage = "closed", route'.pending = None
    PROVE  Requesting' /\ Redirection'
<1> USE DEF Requesting, Live, Over, Draining, Told, Resting, Serving, Granted, Completions,
            Committed, Commands, Migrated, RequestEvents, Ending, Working, Serves,
            Redirection, Ordered, Noticed, Announced, Answering, Owning, Swapped,
            Steering, Aimless, SameEnds, Free
<1>0. fsm.state \in {"Closing", "Closed"}
  OBVIOUS
<1>1. TaskInv'
  BY DEF TaskInv
<1>2. GrantInv'
  BY DEF GrantInv, TeardownClass
<1>3. StateInv' /\ PhaseInv' /\ QueueInv' /\ AnswerInv'
  BY <1>0 DEF StateInv, PhaseInv, QueueInv, AnswerInv
<1>4. QuietInv'
  BY <1>0 DEF QuietInv
<1>5. MigrationInv'
  BY <1>0 DEF MigrationInv, Started, Migrating
<1>6. TokenInv'
  BY DEF TokenInv
<1>7. EarlyInv'
  BY <1>0 DEF EarlyInv
<1>8. TargetInv'
  BY DEF TargetInv
<1>9. LedgerInv'
  BY DEF LedgerInv
<1>10. EndInv'
  BY DEF EndInv
<1> QED BY <1>1, <1>2, <1>3, <1>4, <1>5, <1>6, <1>7, <1>8, <1>9, <1>10

LEMMA OwnerAbortsKeeps == ASSUME Shapes, AgreeInv, OwnerAborts PROVE AgreeInv'
<1>1. /\ fsm' = fsm /\ events' = events /\ control' = control /\ reports' = reports
      /\ loop' = loop /\ owner' = owner /\ server' = server /\ faults' = faults
      /\ bounds' = bounds /\ owner.pc = "join" /\ route \in Routes
      /\ engine' = [engine EXCEPT !.pc = "done", !.todo = <<>>] /\ cmds' = <<>>
      /\ route' = [route EXCEPT !.stage = "closed", !.pending = None] /\ inbox' = <<>>
  BY DEF OwnerAborts, Shapes, ReleaseLease
<1>2. /\ Requesting /\ Redirection /\ Known /\ Ordering /\ faults = {}
  BY AgreedSteady
<1>3. engine'.pc = "done" /\ engine'.todo = <<>> /\ SameEnds
  <2> DEFINE t == <<>>
  <2>1. engine' = [engine EXCEPT !.pc = "done", !.todo = t]
    BY <1>1
  <2> HIDE DEF t
  <2>2. engine'.pc = "done" /\ engine'.todo = t /\ SameEnds
    BY <2>1, EnginePlace
  <2> QED BY <2>2 DEF t
<1>4. route'.stage = "closed" /\ route'.pending = None
  BY <1>1 DEF Routes
<1>5. loop.pc = "ended" /\ ~Live /\ loop.out = <<>>
  BY <1>1, <1>2 DEF Redirection, EndInv, Shapes
<1>6. Free' /\ Listed'
  BY <1>3, FreeThen
<1>7. /\ Afloat' = {} /\ Prepared' = {}
  BY <1>1, <1>5 DEF Afloat, Prepared, InCmds, InOut
<1>8. WireOrder' /\ PrepareOrder'
  BY <1>1, <1>2, WireEmptied DEF Ordering
<1>9. Offered' = {} /\ OneOffer'
  BY <1>1 DEF Offered, OneOffer
<1>10. Reported' = Reported /\ Redirecting' = Redirecting /\ Queue' = Queue
  BY <1>1 DEF Reported, Redirecting, Queue
<1>11. OneControl' /\ OneReport'
  BY <1>1, <1>2 DEF OneControl, OneReport, Ordering
<1>12. Queue \in {"", "ClientEof", "BackendIoError"} \union Migrated \union RequestEvents
  BY <1>2 DEF Requesting, TaskInv
<1>13. Requesting' /\ Redirection'
  BY <1>1, <1>2, <1>3, <1>4, <1>5, <1>6, <1>7, <1>9, <1>10, <1>12, AbortStep
<1> QED BY <1>1, <1>2, <1>6, <1>8, <1>9, <1>11, <1>13 DEF AgreeInv, Ordering

-----------------------------------------------------------------------------
(* The invariant holds *)

LEMMA InitAgrees == ASSUME Init PROVE AgreeInv
<1>1. /\ events = <<>> /\ cmds = <<>> /\ control = <<>> /\ reports = <<"commands">>
      /\ inbox = <<>> /\ loop.out = <<>> /\ engine.todo = <<>>
  BY DEF Init
<1>2. /\ loop.pc = "select" /\ loop.parked = "" /\ ~loop.terminal
      /\ engine.pc = "dial" /\ engine.backend = None /\ engine.target = None
      /\ engine.candidate = None /\ owner.pc = "select" /\ owner.redirect = None
      /\ route.stage = "dialing" /\ route.pending = None
      /\ ~server.txn /\ ~server.busy /\ faults = {}
  BY DEF Init
<1>3. /\ fsm.state = "FrontendHandshake" /\ ~fsm.flags.redirect_pending
      /\ ~fsm.flags.authenticated
  BY DEF Init, Machine!NewFsm
<1>4. Queue = "" /\ ~Redirecting /\ Offered = {} /\ OneControl /\ OneOffer
  BY <1>1 DEF Queue, Redirecting, Offered, OneControl, OneOffer
<1>5. Reported = {} /\ OneReport
  <2>1. \A i \in DOMAIN reports : i = 1 /\ reports[i] = "commands"
    BY <1>1
  <2> QED BY <2>1 DEF Reported, OneReport
<1>6. Free
  BY <1>1, FreeNow
<1>7. Listed
  <2>1. <<>> \in Waits
    BY DEF Waits
  <2> QED BY <1>1, <2>1 DEF Listed, IsList
<1>8. Afloat = {} /\ Prepared = {}
  BY <1>1, WireSilent
<1>9. WireOrder /\ PrepareOrder
  BY <1>1 DEF WireOrder, PrepareOrder, Before, InCmds, InOut
<1>10. Requesting
  <2> USE <1>2, <1>3, <1>4, <1>6, <1>8
      DEF Live, Over, Draining, Told, Resting, Serving, Granted, Completions, Committed,
          Commands, Migrated, RequestEvents, Ending, Working, Serves, Free
  <2>1. TaskInv /\ GrantInv
    BY DEF TaskInv, GrantInv, TeardownClass
  <2>2. StateInv /\ PhaseInv /\ QueueInv
    BY DEF StateInv, Fits, PhaseInv, QueueInv
  <2>3. AnswerInv /\ QuietInv /\ MigrationInv
    BY DEF AnswerInv, QuietInv, MigrationInv, Started, Migrating
  <2> QED BY <2>1, <2>2, <2>3 DEF Requesting
<1>11. Redirection
  BY <1>2, <1>3, <1>4, <1>5, <1>6, <1>8
     DEF Redirection, TokenInv, EarlyInv, TargetInv, LedgerInv, EndInv, Ordered, Noticed,
         Announced, Answering, Owning, Swapped, Steering, Aimless, Free, Live
<1> QED BY <1>2, <1>4, <1>5, <1>7, <1>9, <1>10, <1>11 DEF AgreeInv, Ordering

LEMMA NextAgrees == ASSUME IInv, AgreeInv, [Next]_vars PROVE AgreeInv'
<1>0. Shapes
  BY DEF IInv
<1>1. CASE LoopStep
  BY <1>0, <1>1, LoopControlKeeps, LoopEventKeeps, LoopUnparkKeeps, LoopEffectKeeps,
     LoopProbedKeeps, LoopShutdownKeeps, LoopTeardownKeeps DEF LoopStep
<1>2. CASE LoopDeadline \/ LoopProbe
  BY <1>0, <1>2, LoopDeadlineKeeps, LoopProbeKeeps
<1>3. CASE RelaySeals \/ ServerShutsDown \/ Terminated \/ UNCHANGED vars
  <2>1. UNCHANGED <<fsm, events, cmds, control, reports, loop, engine, owner, route,
                    inbox, server, faults, bounds>>
    BY <1>3 DEF RelaySeals, ServerShutsDown, EnvironmentUnchanged, Terminated, vars
  <2> QED BY <1>0, <2>1, StillKeeps
<1>4. CASE EngineStep
  BY <1>0, <1>4, EngineSendsKeeps, EngineReportsKeeps, EngineReceivesKeeps,
     EngineForwardsKeeps, EngineExitsKeeps DEF EngineStep
<1>5. CASE EngineConnects \/ EngineAuthenticates
  BY <1>0, <1>5, EngineConnectsKeeps, EngineAuthenticatesKeeps
<1>6. CASE ClientBegins \/ ClientStep \/ ClientLeaves
  BY <1>0, <1>6, ClientBeginsKeeps, ClientEndsKeeps, ClientLeavesKeeps DEF ClientStep
<1>7. CASE BackendStep \/ BackendBegins \/ BackendBreaks
  BY <1>0, <1>7, EngineMigratesKeeps, BackendCommitsKeeps, BackendAnswersKeeps,
     BackendBeginsKeeps, BackendBreaksKeeps DEF BackendStep
<1>8. CASE OwnerStep \/ OwnerDrains \/ OwnerAborts
  BY <1>0, <1>8, OwnerReadsKeeps, OwnerTakesRedirectKeeps, OwnerPreparesKeeps,
     OwnerRedirectsKeeps, OwnerTakesCloseKeeps, OwnerJoinsKeeps, OwnerFinishesKeeps,
     OwnerDrainsKeeps, OwnerAbortsKeeps DEF OwnerStep
<1>9. CASE RouterRedirects \/ RouterCloses
  BY <1>0, <1>9, RouterRedirectsKeeps, RouterClosesKeeps
<1> QED BY <1>1, <1>2, <1>3, <1>4, <1>5, <1>6, <1>7, <1>8, <1>9 DEF Next

\* IInv and AgreeInv together are an invariant of the session runtime: the event,
\* the effects and the redirect under way between its tasks fit the place each
\* task is at.
THEOREM Agreement == Spec => [](IInv /\ AgreeInv)
<1>1. Init => IInv /\ AgreeInv
  BY InitHolds, InitAgrees
<1>2. IInv /\ AgreeInv /\ [Next]_vars => (IInv /\ AgreeInv)'
  BY NextKeeps, NextAgrees
<1> QED BY <1>1, <1>2, PTL DEF Spec

LEMMA AgreeingLedger == ASSUME Shapes, AgreeInv PROVE LedgerAgrees
<1>1. Known /\ Redirection
  BY AgreedSteady
<1> SUFFICES ASSUME route.stage = "active", route.pending = None, owner.pc = "select",
                    ~owner.closing, engine.pc # "done"
             PROVE  engine.backend = route.account
  BY DEF LedgerAgrees
<1>2. Owning
  BY DEF Owning
<1>3. owner.redirect = None
  BY <1>1, <1>2 DEF Redirection, LedgerInv
<1>4. ~Swapped
  BY <1>1, <1>2, <1>3 DEF Redirection, TokenInv, Answering, Noticed, Announced, Swapped, Known
<1> QED BY <1>1, <1>2, <1>4 DEF Redirection, LedgerInv

LEMMA ProgressingRedirect == ASSUME Shapes, AgreeInv, ~bounds.early PROVE RedirectInProgress
<1>1. Known /\ Redirection /\ Listed
  BY AgreedSteady DEF Ordering
<1>2. ASSUME route.stage = "active", route.pending # None
      PROVE  \/ owner.redirect = route.pending
             \/ \E i \in DOMAIN inbox : inbox[i] = route.pending
  BY <1>1, <1>2 DEF Redirection, LedgerInv, Offered
<1>3. ASSUME owner.redirect # None, owner.pc = "select", loop.pc # "ended"
      PROVE  \/ \E i \in DOMAIN control : control[i] = "ControlRedirect"
             \/ fsm.flags.redirect_pending
             \/ \E x \in {"NotifyRedirectSucceeded", "NotifyRedirectFailed"} :
                   \/ Machine!Emits(loop.out, x)
                   \/ Machine!Emits(cmds, Effect(x))
             \/ \E x \in {"succeeded", "failed"} :
                   Machine!Emits(engine.todo, Report(x)) \/ Machine!Emits(reports, x)
  <2>1. Redirecting \/ fsm.flags.redirect_pending \/ Answering
    BY <1>1, <1>3 DEF Redirection, EarlyInv
  <2>2. ASSUME NEW x \in {"NotifyRedirectSucceeded", "NotifyRedirectFailed"}, x \in Afloat
        PROVE  Machine!Emits(loop.out, x) \/ Machine!Emits(cmds, Effect(x))
    BY <2>2, EffectsDiffer DEF Afloat, InCmds, InOut, Machine!Emits
  <2>3. ASSUME Announced
        PROVE  \E x \in {"succeeded", "failed"} : Machine!Emits(engine.todo, Report(x))
    <3>1. engine.todo # <<>> /\ Head(engine.todo).op = "report" /\ engine.todo \in Seq(Ops)
      BY <2>3 DEF Announced, TaskOp, Shapes, Engines, OpSeqs
    <3>2. Head(engine.todo) \in Ops /\ 1 \in DOMAIN engine.todo
          /\ engine.todo[1] = Head(engine.todo)
      BY <3>1
    <3>3. Migrate.op = "migrate"
      BY DEF Migrate
    <3>4. Head(engine.todo) \in {Report("succeeded"), Report("failed")}
      BY <3>1, <3>2, <3>3 DEF Ops
    <3> QED BY <3>2, <3>4 DEF Machine!Emits
  <2>4. ASSUME NEW x \in Reported
        PROVE  x \in {"succeeded", "failed"} /\ Machine!Emits(reports, x)
    BY <2>4 DEF Reported, Machine!Emits
  <2>5. Noticed \/ Announced \/ Reported # {} \/ Redirecting \/ fsm.flags.redirect_pending
    BY <2>1 DEF Answering
  <2> QED BY <2>2, <2>3, <2>4, <2>5 DEF Noticed, Redirecting
<1> QED BY <1>2, <1>3 DEF RedirectInProgress

\* The parts of a session agree at every instant, whatever the capacities of the
\* channels, the number of commands and redirects and the orders that end it:
\* no event of the engine is rejected and no effect finds an engine that does
\* not await it (event_loop, handle_effect), the ledger charges the backend the
\* session talks to (consume_report, finish_redirect), and a redirect the
\* ledger waits for is in somebody's hands.
THEOREM Consistency == Spec => []SessionConsistent
<1>1. ASSUME IInv, AgreeInv, TypeOK PROVE SessionConsistent
  BY <1>1, AgreeingLedger, ProgressingRedirect DEF IInv, AgreeInv, SessionConsistent, NoFaults
<1> QED BY <1>1, Agreement, Types, PTL

\* What moves the session to another backend: the first dial and the swap.
LEMMA BackendMoves ==
    ASSUME engine \in Engines, [Next]_vars, engine'.backend # engine.backend
    PROVE  \/ EngineConnects
           \/ /\ EngineReceives /\ loop' = loop
              /\ Head(cmds).cmd = "effect" /\ Head(cmds).arg = "SwapBackend" /\ SwapBackend
<1>1. CASE LoopStep \/ LoopDeadline \/ LoopProbe \/ RelaySeals
  BY <1>1 DEF LoopStep, LoopControl, LoopEvent, LoopUnpark, LoopEffect, LoopProbed,
     LoopShutdown, LoopTeardown, LoopDeadline, LoopProbe, RelaySeals
<1>2. CASE OwnerStep \/ OwnerDrains \/ RouterRedirects \/ RouterCloses \/ ServerShutsDown
           \/ Terminated \/ UNCHANGED vars
  BY <1>2 DEF OwnerStep, OwnerReads, OwnerTakesRedirect, OwnerPrepares, OwnerRedirects,
     OwnerTakesClose, OwnerJoins, OwnerFinishes, OwnerDrains, OwnerUnchanged,
     RouterRedirects, RouterCloses, ServerShutsDown, EnvironmentUnchanged, Terminated, vars
<1>3. CASE OwnerAborts \/ EngineExits \/ EngineSends \/ EngineReports \/ EngineForwards
           \/ EngineAuthenticates \/ EngineMigrates
  BY <1>3 DEF OwnerAborts, EngineExits, EngineSends, EngineReports, EngineForwards,
     EngineAuthenticates, EngineMigrates, GivesUp, Closes, Done, Engines
<1>4. CASE ClientBegins \/ ClientStep \/ ClientLeaves
  BY <1>4 DEF ClientBegins, ClientStep, ClientEnds, ClientLeaves, GivesUp, Engines
<1>5. CASE BackendCommits \/ BackendBreaks
  BY <1>5 DEF BackendCommits, BackendBreaks, GivesUp, Engines
<1>6. CASE BackendBegins \/ BackendAnswers
  <2>1. ASSUME NEW e, NEW next \in Engines, Responds(e, next)
        PROVE  engine'.backend = next.backend
    BY <2>1 DEF Responds, Engines
  <2>2. Answered \in Engines /\ Answered.backend = engine.backend
    BY DEF Answered, Engines, EnginePcs
  <2>3. \A b \in BOOLEAN : /\ [Answered EXCEPT !.in_txn = b] \in Engines
                           /\ [Answered EXCEPT !.in_txn = b].backend = engine.backend
    <3> DEFINE a == Answered
    <3>1. a \in Engines /\ a.backend = engine.backend
      BY <2>2
    <3> HIDE DEF a
    <3>2. \A b \in BOOLEAN : /\ [a EXCEPT !.in_txn = b] \in Engines
                             /\ [a EXCEPT !.in_txn = b].backend = engine.backend
      BY <3>1 DEF Engines
    <3> QED BY <3>2 DEF a
  <2>4. [engine EXCEPT !.begun = TRUE] \in Engines
        /\ [engine EXCEPT !.begun = TRUE].backend = engine.backend
    BY DEF Engines
  <2>5. CASE BackendBegins
    BY <2>1, <2>4, <2>5 DEF BackendBegins
  <2>6. CASE BackendAnswers
    <3>1. \/ \E txn \in BOOLEAN : \E e : Responds(e, [Answered EXCEPT !.in_txn = txn])
          \/ \E e : Responds(e, Answered)
      BY <2>6 DEF BackendAnswers
    <3> QED BY <2>1, <2>2, <2>3, <3>1
  <2> QED BY <1>6, <2>5, <2>6
<1>7. CASE EngineReceives
  <2>1. CASE engine' = Done
    BY <2>1 DEF Done, Engines
  <2>2. CASE HandleCmd(Head(cmds))
    <3>1. \A op : Push(op).backend = engine.backend
      BY DEF Push, Engines
    <3>2. CASE Head(cmds).cmd = "effect" /\ Head(cmds).arg = "SwapBackend"
      BY <1>7, <2>2, <3>2 DEF HandleCmd, HandleEffect
    <3>3. CASE ~(Head(cmds).cmd = "effect" /\ Head(cmds).arg = "SwapBackend")
      <4>1. [Push(Report("failed")) EXCEPT !.candidate = None, !.target = None].backend
              = engine.backend
        BY DEF Push, Engines
      <4>2. Closes.backend = engine.backend /\ ResumeHeld.backend = engine.backend
        BY DEF Closes, ResumeHeld, Engines
      <4>3. \A r : [engine EXCEPT !.target = r].backend = engine.backend
        BY DEF Engines
      <4> QED BY <2>2, <3>1, <3>3, <4>1, <4>2, <4>3 DEF HandleCmd, HandleEffect, EngineUnchanged
    <3> QED BY <3>2, <3>3
  <2> QED BY <1>7, <2>1, <2>2 DEF EngineReceives
<1> QED BY <1>1, <1>2, <1>3, <1>4, <1>5, <1>6, <1>7 DEF Next, EngineStep, BackendStep

\* The backend is exchanged between requests and outside transactions only,
\* whatever the loop, the fast path, a held BEGIN and the router do in between:
\* what the machine knows is never more permissive than the connection
\* (at_migration_boundary, swap_backend).
THEOREM QuietSwaps == Spec => SwapIsQuiet
<1>1. ASSUME IInv, AgreeInv, [Next]_vars, engine.backend # None,
             engine'.backend # engine.backend
      PROVE  ~server.txn /\ ~server.busy
  <2>0. Shapes /\ engine \in Engines
    BY <1>1 DEF IInv, Shapes
  <2>1. ~EngineConnects
    BY <1>1 DEF EngineConnects, At, AgreeInv, Requesting, TaskInv
  <2>2. /\ EngineReceives /\ loop' = loop
        /\ Head(cmds).cmd = "effect" /\ Head(cmds).arg = "SwapBackend" /\ SwapBackend
    BY <1>1, <2>0, <2>1, BackendMoves
  <2>3. cmds # <<>> /\ Receives /\ Delivery
    BY <2>2 DEF EngineReceives, Delivery
  <2>4. Head(cmds) = Effect("SwapBackend")
    <3>1. Head(cmds) \in Cmds
      BY <2>0, <2>3, ChannelTail, CapacityAssumption DEF Shapes
    <3> QED BY <2>0, <2>2, <3>1, Members DEF Shapes
  <2> QED BY <1>1, <2>0, <2>2, <2>3, <2>4, SwapKeeps
<1>2. IInv /\ AgreeInv /\ [Next]_vars =>
        [engine.backend # None /\ engine'.backend # engine.backend =>
            ~server.txn /\ ~server.busy]_vars
  BY <1>1
<1> QED BY <1>2, Agreement, PTL DEF Spec, SwapIsQuiet
=============================================================================
