----------------------------- MODULE SessionFsm -----------------------------
(***************************************************************************)
(* The session state machine of rust/crates/session-core/src/fsm.rs.       *)
(*                                                                         *)
(* SessionFsm::on_event is a pure function: it takes one classified event  *)
(* (packets, control commands, timers, EOF, errors: no payload), changes   *)
(* the state and eight flags and returns the effects the runtime executes, *)
(* in order; an illegal event changes nothing.  OnEvent below is the same  *)
(* function over records [state, flags].  It returns the set of outcomes:  *)
(* one for a legal event, none for an illegal one.  The gate of the data   *)
(* plane runs it speculatively on a clone of the machine, which is why it  *)
(* is an operator and not an action.                                       *)
(*                                                                         *)
(* owners and owed are what the two parties outside the machine see: the   *)
(* runtime, which attaches and releases backends as the effects say, and   *)
(* the control plane, which is owed one result per redirect it sent.       *)
(***************************************************************************)
EXTENDS Integers, Sequences

VARIABLES
    fsm,      \* SessionFsm: its state and its flags
    effects,  \* the effects returned by the last legal event, in order
    owners,   \* backends the runtime holds as owner, by the effects it ran
    owed      \* redirects the machine took minus results it reported

vars == <<fsm, effects, owners, owed>>

-----------------------------------------------------------------------------
(* SessionState, SessionEvent, SessionFlags *)

States ==
    {"Accept", "Greeting", "SslRequest", "FrontendHandshake",
     "BackendHandshake", "Ready", "Command", "Response", "LocalInfile",
     "RedirectPending", "Draining", "Closing", "Closed"}

\* Events of the connection phase, up to authentication.
HandshakeEvents ==
    {"ConnectionAccepted", "BackendGreetingReceived", "ClientSslRequest",
     "TlsActivated", "ClientHandshakeResponse", "BackendAuthOk",
     "BackendAuthFailed"}

\* Completions and parts of commands: the ones sent by the client, and the
\* COMMIT the proxy sends on its own (Internal...).
CommandEvents ==
    {"ClientCommand", "ClientCommandQuit", "NoResponseCommandComplete",
     "BackendResponsePart", "BackendResponseTxnDone",
     "BackendResponseTxnOpen", "BackendResponsePartTxnDone",
     "BackendResponsePartTxnOpen", "BackendResponseErrorComplete",
     "InternalResponseTxnDone", "InternalResponseTxnOpen",
     "InternalResponseError", "BackendLocalInfileRequest",
     "ClientInfileChunk", "ClientInfileEnd"}

\* Knowledge about prepared statements and about the backend.
KnowledgeEvents ==
    {"PreparedStatePending", "PreparedStateClear", "BackendStateUnknown"}

ClientGone  == {"ClientEof", "ClientIoError"}
BackendGone == {"BackendEof", "BackendIoError"}

Events ==
    HandshakeEvents \cup CommandEvents \cup KnowledgeEvents
    \cup ClientGone \cup BackendGone
    \cup {"ControlRedirect", "ControlGracefulClose", "ControlCloseImmediate",
          "RedirectBackendReady", "RedirectBackendFailed",
          "HandshakeTimerExpired", "DrainTimerExpired", "TeardownComplete"}

\* SessionEffect: what the runtime is told to do.
SessionEffects ==
    {"SendProxyGreeting", "DialBackend", "ActivateFrontendTls",
     "ForwardHandshakeToBackend", "ForwardAuthResultToClient",
     "AttachBackend", "SwapBackend", "ReleaseBackend",
     "ForwardCommandToBackend", "ForwardResponseToClient",
     "RequestLocalInfileFromClient", "ForwardInfileChunkToBackend",
     "ForwardInfileEndToBackend", "StartRedirectHandshake",
     "NotifyRedirectSucceeded", "NotifyRedirectFailed", "ResumeHeldRequest",
     "BeginDrainTimer", "CloseClient", "CloseBackend", "ClassifySessionEnd"}

Flags ==
    [authenticated        : BOOLEAN,
     backend_owner        : BOOLEAN,
     in_txn               : BOOLEAN,
     prepared_pending     : BOOLEAN,
     txn_unknown          : BOOLEAN,
     redirect_pending     : BOOLEAN,
     draining             : BOOLEAN,
     late_redirect_result : BOOLEAN]

Machines == [state : States, flags : Flags]

\* SessionFsm::new
NewFsm ==
    [state |-> "Accept",
     flags |-> [authenticated |-> FALSE, backend_owner |-> FALSE,
                in_txn |-> FALSE, prepared_pending |-> FALSE,
                txn_unknown |-> FALSE, redirect_pending |-> FALSE,
                draining |-> FALSE, late_redirect_result |-> FALSE]]

\* Some((next, effects)); an arm of a match, which yields nothing when its
\* guard is false: the arms of one match have disjoint guards.
Go(next, f, eff) == {[fsm |-> [state |-> next, flags |-> f], effects |-> eff]}
When(guard, outcomes) == IF guard THEN outcomes ELSE {}

-----------------------------------------------------------------------------
(* Shared pieces of the handlers *)

\* Mutants of TeardownEffects: the pending redirect is dropped without its
\* result; the owner is not released.
TeardownEffectsSilent(f) ==
    (IF f.backend_owner THEN <<"ReleaseBackend">> ELSE <<>>)
    \o <<"CloseBackend", "CloseClient", "ClassifySessionEnd">>
TeardownEffectsLeak(f) ==
    (IF f.redirect_pending THEN <<"NotifyRedirectFailed">> ELSE <<>>)
    \o <<"CloseBackend", "CloseClient", "ClassifySessionEnd">>

\* What teardown returns: the one failure of a redirect still pending, the
\* release of the owner, and the close of both sides.
TeardownEffects(f) ==
    (IF f.redirect_pending THEN <<"NotifyRedirectFailed">> ELSE <<>>)
    \o (IF f.backend_owner THEN <<"ReleaseBackend">> ELSE <<>>)
    \o <<"CloseBackend", "CloseClient", "ClassifySessionEnd">>

\* teardown, after the effects eff of the same transition.
Teardown(f, eff) ==
    Go("Closing",
       [f EXCEPT !.redirect_pending = FALSE, !.backend_owner = FALSE],
       eff \o TeardownEffects(f))

\* Mutant of AtBoundary: an open transaction is overlooked.
AtBoundaryInTxn(f) == ~f.prepared_pending /\ ~f.txn_unknown

\* flags_permit_boundary and at_migration_boundary: no open transaction, no
\* pending prepared statement, no unknown backend state.
AtBoundary(f) == ~f.in_txn /\ ~f.prepared_pending /\ ~f.txn_unknown

\* is_safe_boundary
IsSafeBoundary(m) == m.state \in {"Ready", "Draining"} /\ AtBoundary(m.flags)

\* Mutants of FinishCommand: a pending redirect is looked at before the close;
\* a close that still waits for the boundary is forgotten.
FinishCommandRedirectFirst(f, eff) ==
    When(AtBoundary(f) /\ f.redirect_pending,
         Go("RedirectPending", f, eff \o <<"StartRedirectHandshake">>))
    \cup When(AtBoundary(f) /\ ~f.redirect_pending /\ f.draining,
              Teardown(f, eff))
    \cup When(~AtBoundary(f) /\ f.draining, Go("Draining", f, eff))
    \cup When(~f.draining /\ ~(AtBoundary(f) /\ f.redirect_pending),
              Go("Ready", f, eff))
FinishCommandForgetsDrain(f, eff) ==
    When(AtBoundary(f) /\ f.draining, Teardown(f, eff))
    \cup When(AtBoundary(f) /\ ~f.draining /\ f.redirect_pending,
              Go("RedirectPending", f, eff \o <<"StartRedirectHandshake">>))
    \cup When(~AtBoundary(f) \/ (~f.draining /\ ~f.redirect_pending),
              Go("Ready", f, eff))

\* finish_command: a graceful close wins over a pending redirect.
FinishCommand(f, eff) ==
    When(AtBoundary(f) /\ f.draining, Teardown(f, eff))
    \cup When(AtBoundary(f) /\ ~f.draining /\ f.redirect_pending,
              Go("RedirectPending", f, eff \o <<"StartRedirectHandshake">>))
    \cup When(~AtBoundary(f) /\ f.draining, Go("Draining", f, eff))
    \cup When(~f.draining /\ ~(AtBoundary(f) /\ f.redirect_pending),
              Go("Ready", f, eff))

\* An authoritative server status says whether the transaction is finished,
\* and restores the knowledge of it.
WithStatus(f, txnDone) == [f EXCEPT !.in_txn = ~txnDone, !.txn_unknown = FALSE]

\* response_complete
ResponseComplete(f, txnDone) ==
    FinishCommand(WithStatus(f, txnDone), <<"ForwardResponseToClient">>)

\* internal_response_complete: nothing is forwarded; a COMMIT that left the
\* transaction open lets a held request go ahead unless a close is pending.
InternalResponseComplete(f, txnDone) ==
    {[o EXCEPT !.effects =
        IF ~txnDone /\ ~f.draining THEN @ \o <<"ResumeHeldRequest">> ELSE @] :
     o \in FinishCommand(WithStatus(f, txnDone), <<>>)}

\* error_response_complete and internal_error_complete: an ERR carries no
\* status, so the boundary is decided on the flags as they are.
ErrorResponseComplete(f) == FinishCommand(f, <<"ForwardResponseToClient">>)
InternalErrorComplete(f) == FinishCommand(f, <<>>)

\* part_status: the status of one result of a command that goes on.
PartStatus(f, txnDone) ==
    Go("Response", WithStatus(f, txnDone), <<"ForwardResponseToClient">>)

\* Mutant of QueueRedirect: a second redirect is taken while one is pending.
QueueRedirectTwice(s, f) ==
    Go(s, [f EXCEPT !.redirect_pending = TRUE], <<>>)

\* A redirect that waits for the next boundary: a second one is illegal.
QueueRedirect(s, f) ==
    When(~f.redirect_pending, Go(s, [f EXCEPT !.redirect_pending = TRUE], <<>>))

\* A graceful close that waits for the command in flight.
QueueDrain(s, f) == Go(s, [f EXCEPT !.draining = TRUE], <<"BeginDrainTimer">>)

\* drain_deadline
DrainDeadline(f) == When(f.draining, Teardown(f, <<>>))

-----------------------------------------------------------------------------
(* One operator per handler *)

CloseDuringHandshake ==
    ClientGone \cup {"ControlGracefulClose", "ControlCloseImmediate",
                     "HandshakeTimerExpired"}

OnAccept(f, e) ==
    When(e = "ConnectionAccepted", Go("Greeting", f, <<"SendProxyGreeting">>))
    \cup When(e \in CloseDuringHandshake, Teardown(f, <<>>))

OnGreeting(f, e) ==
    When(e = "ClientSslRequest", Go("SslRequest", f, <<"ActivateFrontendTls">>))
    \cup When(e = "ClientHandshakeResponse",
              Go("FrontendHandshake", f, <<"DialBackend">>))
    \cup When(e \in CloseDuringHandshake, Teardown(f, <<>>))

OnSslRequest(f, e) ==
    When(e = "TlsActivated", Go("Greeting", f, <<>>))
    \cup When(e \in CloseDuringHandshake, Teardown(f, <<>>))

OnFrontendHandshake(f, e) ==
    When(e = "BackendGreetingReceived",
         Go("BackendHandshake", f, <<"ForwardHandshakeToBackend">>))
    \cup When(e \in CloseDuringHandshake \cup BackendGone, Teardown(f, <<>>))

OnBackendHandshake(f, e) ==
    When(e = "BackendAuthOk",
         Go("Ready", [f EXCEPT !.authenticated = TRUE, !.backend_owner = TRUE],
            <<"AttachBackend", "ForwardAuthResultToClient">>))
    \cup When(e = "BackendAuthFailed",
              Teardown(f, <<"ForwardAuthResultToClient">>))
    \cup When(e \in CloseDuringHandshake \cup BackendGone, Teardown(f, <<>>))

CloseNow == ClientGone \cup BackendGone \cup {"ControlCloseImmediate"}

\* A redirect or graceful close between commands acts at once at a boundary.
OnReady(f, e) ==
    When(e = "ClientCommand", Go("Command", f, <<"ForwardCommandToBackend">>))
    \cup When(e = "ControlRedirect" /\ AtBoundary(f) /\ ~f.redirect_pending,
              Go("RedirectPending", [f EXCEPT !.redirect_pending = TRUE],
                 <<"StartRedirectHandshake">>))
    \cup When(e = "ControlRedirect" /\ ~AtBoundary(f), QueueRedirect("Ready", f))
    \cup When(e = "ControlGracefulClose" /\ AtBoundary(f), Teardown(f, <<>>))
    \cup When(e = "ControlGracefulClose" /\ ~AtBoundary(f),
              QueueDrain("Draining", f))
    \cup When(e \in CloseNow \cup {"ClientCommandQuit"}, Teardown(f, <<>>))

\* What Command, Response and LocalInfile have in common: control waits.
OnBusy(s, f, e) ==
    When(e = "ControlRedirect", QueueRedirect(s, f))
    \cup When(e = "ControlGracefulClose", QueueDrain(s, f))
    \cup When(e \in CloseNow, Teardown(f, <<>>))
    \cup When(e = "DrainTimerExpired", DrainDeadline(f))

\* What Command and Response have in common: the backend's answer.
OnAnswer(f, e) ==
    When(e = "BackendResponsePart",
         Go("Response", f, <<"ForwardResponseToClient">>))
    \cup When(e = "BackendResponseTxnDone", ResponseComplete(f, TRUE))
    \cup When(e = "BackendResponseTxnOpen", ResponseComplete(f, FALSE))
    \cup When(e = "BackendResponsePartTxnDone", PartStatus(f, TRUE))
    \cup When(e = "BackendResponsePartTxnOpen", PartStatus(f, FALSE))
    \cup When(e = "BackendResponseErrorComplete", ErrorResponseComplete(f))
    \cup When(e = "BackendLocalInfileRequest",
              Go("LocalInfile", f, <<"RequestLocalInfileFromClient">>))

OnCommand(f, e) ==
    When(e = "NoResponseCommandComplete", FinishCommand(f, <<>>))
    \cup When(e = "InternalResponseTxnDone", InternalResponseComplete(f, TRUE))
    \cup When(e = "InternalResponseTxnOpen", InternalResponseComplete(f, FALSE))
    \cup When(e = "InternalResponseError", InternalErrorComplete(f))
    \cup OnAnswer(f, e)
    \cup OnBusy("Command", f, e)

OnResponse(f, e) == OnAnswer(f, e) \cup OnBusy("Response", f, e)

OnLocalInfile(f, e) ==
    When(e = "ClientInfileChunk",
         Go("LocalInfile", f, <<"ForwardInfileChunkToBackend">>))
    \cup When(e = "ClientInfileEnd",
              Go("Response", f, <<"ForwardInfileEndToBackend">>))
    \cup OnBusy("LocalInfile", f, e)

\* The target's handshake is in flight; closing now reports the failure and
\* leaves one late result to be swallowed in Closing.
OnRedirectPending(f, e) ==
    When(e = "RedirectBackendReady",
         Go("Ready", [f EXCEPT !.redirect_pending = FALSE],
            <<"SwapBackend", "NotifyRedirectSucceeded", "ResumeHeldRequest">>))
    \cup When(e = "RedirectBackendFailed",
              Go("Ready", [f EXCEPT !.redirect_pending = FALSE],
                 <<"NotifyRedirectFailed", "ResumeHeldRequest">>))
    \cup When(e \in CloseNow \cup {"ControlGracefulClose"},
              Teardown([f EXCEPT !.late_redirect_result = TRUE], <<>>))

OnDraining(f, e) ==
    When(e = "ClientCommand", Go("Command", f, <<"ForwardCommandToBackend">>))
    \cup When(e = "ControlRedirect", Go("Draining", f, <<"NotifyRedirectFailed">>))
    \cup When(e \in CloseNow \cup {"ClientCommandQuit", "DrainTimerExpired"},
              Teardown(f, <<>>))

\* Events of the session's past that are let through while it closes.
ToleratedInClosing ==
    CommandEvents \cup KnowledgeEvents \cup CloseNow
    \cup {"ControlGracefulClose", "HandshakeTimerExpired",
          "DrainTimerExpired"}

OnClosing(f, e) ==
    When(e = "TeardownComplete", Go("Closed", f, <<>>))
    \cup When(/\ e \in {"RedirectBackendReady", "RedirectBackendFailed"}
              /\ f.late_redirect_result,
              Go("Closing", [f EXCEPT !.late_redirect_result = FALSE], <<>>))
    \cup When(e = "ControlRedirect", Go("Closing", f, <<"NotifyRedirectFailed">>))
    \cup When(e \in ToleratedInClosing, Go("Closing", f, <<>>))

-----------------------------------------------------------------------------
(* on_event *)

TakesKnowledge ==
    {"Ready", "Command", "Response", "LocalInfile", "Draining"}

\* Knowledge events are taken in every live state between authentication and
\* close except RedirectPending, and only set a flag.
OnKnowledge(m, e) ==
    When(e = "PreparedStatePending",
         Go(m.state, [m.flags EXCEPT !.prepared_pending = TRUE], <<>>))
    \cup When(e = "PreparedStateClear",
              Go(m.state, [m.flags EXCEPT !.prepared_pending = FALSE], <<>>))
    \cup When(e = "BackendStateUnknown",
              Go(m.state, [m.flags EXCEPT !.txn_unknown = TRUE], <<>>))

\* Closed takes no event.
OnEvent(m, e) ==
    When(m.state \in TakesKnowledge, OnKnowledge(m, e))
    \cup When(m.state = "Accept", OnAccept(m.flags, e))
    \cup When(m.state = "Greeting", OnGreeting(m.flags, e))
    \cup When(m.state = "SslRequest", OnSslRequest(m.flags, e))
    \cup When(m.state = "FrontendHandshake", OnFrontendHandshake(m.flags, e))
    \cup When(m.state = "BackendHandshake", OnBackendHandshake(m.flags, e))
    \cup When(m.state = "Ready", OnReady(m.flags, e))
    \cup When(m.state = "Command", OnCommand(m.flags, e))
    \cup When(m.state = "Response", OnResponse(m.flags, e))
    \cup When(m.state = "LocalInfile", OnLocalInfile(m.flags, e))
    \cup When(m.state = "RedirectPending", OnRedirectPending(m.flags, e))
    \cup When(m.state = "Draining", OnDraining(m.flags, e))
    \cup When(m.state = "Closing", OnClosing(m.flags, e))

-----------------------------------------------------------------------------
(* The specification: any event at any time, as the repository's own       *)
(* exhaustive test drives the machine.                                     *)

Emits(eff, x) == \E i \in DOMAIN eff : eff[i] = x
Ran(eff, x) == IF Emits(eff, x) THEN 1 ELSE 0

Init ==
    /\ fsm = NewFsm
    /\ effects = <<>>
    /\ owners = 0
    /\ owed = 0

\* One legal event.
Take(e) ==
    \E o \in OnEvent(fsm, e) :
        /\ fsm' = o.fsm
        /\ effects' = o.effects
        /\ owners' = owners + Ran(o.effects, "AttachBackend")
                            - Ran(o.effects, "ReleaseBackend")
        /\ owed' = owed + (IF e = "ControlRedirect" THEN 1 ELSE 0)
                        - Ran(o.effects, "NotifyRedirectSucceeded")
                        - Ran(o.effects, "NotifyRedirectFailed")

\* Closed is terminal: every event is illegal from there on.
Terminated == fsm.state = "Closed" /\ UNCHANGED vars

Next == (\E e \in Events : Take(e)) \/ Terminated

Spec == Init /\ [][Next]_vars

-----------------------------------------------------------------------------
(* Properties *)

LiveStates ==
    {"Ready", "Command", "Response", "LocalInfile", "RedirectPending",
     "Draining"}

\* The machine stays in its declared states, the runtime never holds more
\* than one owner, and the control plane is never owed more than one result.
TypeOK ==
    /\ fsm \in Machines
    /\ effects \in Seq(SessionEffects)
    /\ owners \in 0..1
    /\ owed \in 0..1

\* Every redirect the machine takes is answered by exactly one
\* NotifyRedirectSucceeded or NotifyRedirectFailed: between the two the flag
\* redirect_pending is up, and a refused redirect (Draining, Closing) is
\* answered at once (module comment, teardown, on_draining, on_closing).
RedirectAnsweredOnce ==
    /\ owed = IF fsm.flags.redirect_pending THEN 1 ELSE 0
    /\ fsm.state \in {"Closing", "Closed"} => owed = 0

\* The owner the runtime holds by AttachBackend and ReleaseBackend is the one
\* the flag backend_owner records, and it exists exactly from authentication
\* to teardown: no session runs commands without a backend or keeps one after
\* its close.
OwnerWhileLive ==
    /\ owners = IF fsm.flags.backend_owner THEN 1 ELSE 0
    /\ owners = 1 <=> fsm.state \in LiveStates

\* A target handshake runs only for a redirect still owed its result, with
\* every boundary condition clear and no graceful close pending: the drain
\* deadline is never armed in RedirectPending (on_redirect_pending).
MigrationIsQuiet ==
    fsm.state = "RedirectPending" =>
        /\ fsm.flags.redirect_pending
        /\ AtBoundary(fsm.flags)
        /\ ~fsm.flags.draining

\* A session told to close gracefully never goes back to Ready and never
\* starts or completes a migration: the close wins over the redirect
\* (finish_command), whatever commands run in between.
DrainWins ==
    [][fsm.flags.draining =>
        /\ fsm'.flags.draining
        /\ fsm'.state \notin {"Ready", "RedirectPending"}
        /\ \A x \in {"StartRedirectHandshake", "SwapBackend",
                     "ResumeHeldRequest"} : ~Emits(effects', x)]_vars
=============================================================================
