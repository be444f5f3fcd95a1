-------------------------- MODULE SessionFsmProofs --------------------------
(***************************************************************************)
(* Proofs about SessionFsm.  The invariants relate the flags of the        *)
(* machine to what its effects told the outside world, so the induction    *)
(* is on the machine: MachineInv says which flags each state allows, and   *)
(* Accounts says that one event changes the flags exactly as its effects   *)
(* tell.  Both are proved handler by handler.                              *)
(***************************************************************************)
EXTENDS SessionFsm, TLAPS

EffectSeqs == Seq(SessionEffects)

Num(b) == IF b THEN 1 ELSE 0

\* The flags each state allows.
MachineInv(m) ==
    /\ m.flags.backend_owner <=> m.state \in LiveStates
    /\ m.flags.redirect_pending => m.state \in LiveStates
    /\ m.state = "RedirectPending" =>
          m.flags.redirect_pending /\ AtBoundary(m.flags)
    /\ m.flags.draining =>
          m.state \in {"Command", "Response", "LocalInfile", "Draining",
                       "Closing", "Closed"}

\* The flags f and those of the outcome o differ by what the effects report.
Accounts(f, e, o) ==
    /\ Num(o.fsm.flags.backend_owner) =
          Num(f.backend_owner) + Ran(o.effects, "AttachBackend")
                               - Ran(o.effects, "ReleaseBackend")
    /\ Num(o.fsm.flags.redirect_pending) =
          Num(f.redirect_pending)
          + Num(e = "ControlRedirect")
          - Ran(o.effects, "NotifyRedirectSucceeded")
          - Ran(o.effects, "NotifyRedirectFailed")

Sound(f, e, o) ==
    /\ o.fsm \in Machines
    /\ o.effects \in EffectSeqs
    /\ MachineInv(o.fsm)
    /\ Accounts(f, e, o)

\* An effect of a concatenation is an effect of one of the parts.
LEMMA EmitsConcat ==
    ASSUME NEW s \in EffectSeqs, NEW t \in EffectSeqs
    PROVE  /\ s \o t \in EffectSeqs
           /\ \A x : Emits(s \o t, x) <=> Emits(s, x) \/ Emits(t, x)
<1> USE DEF EffectSeqs
<1> SUFFICES ASSUME NEW x
             PROVE  /\ s \o t \in EffectSeqs
                    /\ Emits(s \o t, x) <=> Emits(s, x) \/ Emits(t, x)
  OBVIOUS
<1>0. s \o t \in EffectSeqs
  OBVIOUS
<1>1. Emits(s \o t, x) => Emits(s, x) \/ Emits(t, x)
  BY DEF Emits
<1>2. Emits(s, x) => Emits(s \o t, x)
  BY DEF Emits
<1>3. Emits(t, x) => Emits(s \o t, x)
  <2> SUFFICES ASSUME NEW i \in DOMAIN t, t[i] = x
               PROVE  Emits(s \o t, x)
    BY DEF Emits
  <2>1. Len(s) + i \in DOMAIN (s \o t) /\ (s \o t)[Len(s) + i] = t[i]
    OBVIOUS
  <2> QED BY <2>1 DEF Emits
<1> QED BY <1>0, <1>1, <1>2, <1>3

\* What the literal sequences of the handlers emit.
LEMMA EmitsNone == <<>> \in EffectSeqs /\ \A x : ~Emits(<<>>, x)
BY DEF Emits, EffectSeqs

LEMMA EmitsOne ==
    ASSUME NEW a \in SessionEffects
    PROVE  <<a>> \in EffectSeqs /\ \A x : Emits(<<a>>, x) <=> x = a
<1>1. <<a>> \in EffectSeqs
  BY DEF EffectSeqs
<1>2. DOMAIN <<a>> = {1} /\ <<a>>[1] = a
  OBVIOUS
<1> QED BY <1>1, <1>2 DEF Emits

LEMMA EmitsTwo ==
    ASSUME NEW a \in SessionEffects, NEW b \in SessionEffects
    PROVE  /\ <<a, b>> \in EffectSeqs
           /\ \A x : Emits(<<a, b>>, x) <=> x \in {a, b}
<1>1. <<a, b>> \in EffectSeqs
  BY DEF EffectSeqs
<1>2. DOMAIN <<a, b>> = {1, 2} /\ <<a, b>>[1] = a /\ <<a, b>>[2] = b
  OBVIOUS
<1> QED BY <1>1, <1>2 DEF Emits

LEMMA EmitsThree ==
    ASSUME NEW a \in SessionEffects, NEW b \in SessionEffects,
           NEW c \in SessionEffects
    PROVE  /\ <<a, b, c>> \in EffectSeqs
           /\ \A x : Emits(<<a, b, c>>, x) <=> x \in {a, b, c}
<1>1. <<a, b, c>> \in EffectSeqs
  BY DEF EffectSeqs
<1>2. /\ DOMAIN <<a, b, c>> = {1, 2, 3}
      /\ <<a, b, c>>[1] = a /\ <<a, b, c>>[2] = b /\ <<a, b, c>>[3] = c
  OBVIOUS
<1> QED BY <1>1, <1>2 DEF Emits

\* What a teardown emits after the effects eff.
LEMMA EmitsTeardown ==
    ASSUME NEW f \in Flags, NEW eff \in EffectSeqs
    PROVE  /\ eff \o TeardownEffects(f) \in EffectSeqs
           /\ \A x : Emits(eff \o TeardownEffects(f), x) <=>
                \/ Emits(eff, x)
                \/ f.redirect_pending /\ x = "NotifyRedirectFailed"
                \/ f.backend_owner /\ x = "ReleaseBackend"
                \/ x \in {"CloseBackend", "CloseClient", "ClassifySessionEnd"}
<1> DEFINE r == IF f.redirect_pending THEN <<"NotifyRedirectFailed">> ELSE <<>>
           o == IF f.backend_owner THEN <<"ReleaseBackend">> ELSE <<>>
           c == <<"CloseBackend", "CloseClient", "ClassifySessionEnd">>
<1>0. /\ "NotifyRedirectFailed" \in SessionEffects
      /\ "ReleaseBackend" \in SessionEffects
      /\ "CloseBackend" \in SessionEffects
      /\ "CloseClient" \in SessionEffects
      /\ "ClassifySessionEnd" \in SessionEffects
  BY DEF SessionEffects
<1>1. /\ r \in EffectSeqs
      /\ \A x : Emits(r, x) <=> f.redirect_pending /\ x = "NotifyRedirectFailed"
  BY <1>0, EmitsNone, EmitsOne
<1>2. /\ o \in EffectSeqs
      /\ \A x : Emits(o, x) <=> f.backend_owner /\ x = "ReleaseBackend"
  BY <1>0, EmitsNone, EmitsOne
<1>3. /\ c \in EffectSeqs
      /\ \A x : Emits(c, x) <=>
            x \in {"CloseBackend", "CloseClient", "ClassifySessionEnd"}
  BY <1>0, EmitsThree
<1>4. TeardownEffects(f) = (r \o o) \o c
  BY DEF TeardownEffects
<1> HIDE DEF r, o, c
<1>5. /\ r \o o \in EffectSeqs
      /\ \A x : Emits(r \o o, x) <=> Emits(r, x) \/ Emits(o, x)
  BY <1>1, <1>2, EmitsConcat
<1>6. /\ TeardownEffects(f) \in EffectSeqs
      /\ \A x : Emits(TeardownEffects(f), x) <=> Emits(r \o o, x) \/ Emits(c, x)
  BY <1>3, <1>4, <1>5, EmitsConcat
<1>7. /\ eff \o TeardownEffects(f) \in EffectSeqs
      /\ \A x : Emits(eff \o TeardownEffects(f), x) <=>
            Emits(eff, x) \/ Emits(TeardownEffects(f), x)
  BY <1>6, EmitsConcat
<1> QED BY <1>1, <1>2, <1>3, <1>5, <1>6, <1>7

\* Effects that say nothing of owners and redirects.
Plain(eff) ==
    /\ eff \in EffectSeqs
    /\ \A x \in {"AttachBackend", "ReleaseBackend", "NotifyRedirectSucceeded",
                 "NotifyRedirectFailed"} : ~Emits(eff, x)

LEMMA PlainLiterals ==
    /\ Plain(<<>>)
    /\ \A a \in SessionEffects \ {"AttachBackend", "ReleaseBackend",
          "NotifyRedirectSucceeded", "NotifyRedirectFailed"} : Plain(<<a>>)
BY EmitsNone, EmitsOne DEF Plain

\* Closing settles both accounts.
LEMMA TeardownSound ==
    ASSUME NEW f \in Flags, NEW eff, Plain(eff), NEW e, e # "ControlRedirect",
           NEW o \in Teardown(f, eff)
    PROVE  Sound(f, e, o)
<1> DEFINE g == [f EXCEPT !.redirect_pending = FALSE, !.backend_owner = FALSE]
<1>0. g \in Flags /\ ~g.redirect_pending /\ ~g.backend_owner
  BY DEF Flags
<1> HIDE DEF g
<1>a. /\ o.fsm = [state |-> "Closing", flags |-> g]
      /\ o.effects = eff \o TeardownEffects(f)
  BY DEF Teardown, Go, g
<1>1. /\ o.fsm \in Machines
      /\ o.fsm.state = "Closing"
      /\ ~o.fsm.flags.redirect_pending /\ ~o.fsm.flags.backend_owner
      /\ o.effects = eff \o TeardownEffects(f)
  BY <1>0, <1>a DEF Machines, States
<1>2. MachineInv(o.fsm)
  BY <1>1 DEF MachineInv, LiveStates
<1>3. /\ o.effects \in EffectSeqs
      /\ ~Emits(o.effects, "AttachBackend")
      /\ ~Emits(o.effects, "NotifyRedirectSucceeded")
      /\ Emits(o.effects, "ReleaseBackend") <=> f.backend_owner
      /\ Emits(o.effects, "NotifyRedirectFailed") <=> f.redirect_pending
  BY <1>1, EmitsTeardown DEF Plain
<1>4. Accounts(f, e, o)
  BY <1>1, <1>3 DEF Accounts, Num, Ran, Flags
<1> QED BY <1>1, <1>2, <1>3, <1>4 DEF Sound

\* A step between states with the same owner and the same pending redirect.
LEMMA GoSound ==
    ASSUME NEW f \in Flags, NEW g \in Flags, NEW s \in States,
           NEW eff, Plain(eff), NEW e, e # "ControlRedirect",
           g.redirect_pending = f.redirect_pending,
           g.backend_owner = f.backend_owner,
           MachineInv([state |-> s, flags |-> g]),
           NEW o \in Go(s, g, eff)
    PROVE  Sound(f, e, o)
<1>1. /\ o.fsm = [state |-> s, flags |-> g]
      /\ o.effects = eff
  BY DEF Go
<1>2. o.fsm \in Machines
  BY <1>1 DEF Machines
<1>3. Accounts(f, e, o)
  BY <1>1 DEF Accounts, Num, Ran, Plain, Flags
<1> QED BY <1>1, <1>2, <1>3 DEF Sound, Plain

LEMMA FinishSound ==
    ASSUME NEW f \in Flags, NEW g \in Flags, f.backend_owner,
           g.redirect_pending = f.redirect_pending,
           g.backend_owner = f.backend_owner,
           NEW eff, Plain(eff),
           NEW e, e # "ControlRedirect", NEW o \in FinishCommand(g, eff)
    PROVE  Sound(f, e, o)
<1>1. CASE AtBoundary(g) /\ g.draining
  <2>1. o \in Teardown(g, eff)
    BY <1>1 DEF FinishCommand, When
  <2>2. Sound(g, e, o)
    BY <2>1, TeardownSound
  <2> QED BY <2>2 DEF Sound, Accounts, Num
<1>2. CASE AtBoundary(g) /\ ~g.draining /\ g.redirect_pending
  <2>1. o \in Go("RedirectPending", g, eff \o <<"StartRedirectHandshake">>)
    BY <1>2 DEF FinishCommand, When
  <2>2. Plain(eff \o <<"StartRedirectHandshake">>)
    BY EmitsConcat, EmitsOne DEF Plain, SessionEffects
  <2>3. MachineInv([state |-> "RedirectPending", flags |-> g])
    BY <1>2 DEF MachineInv, LiveStates
  <2> QED BY <2>1, <2>2, <2>3, GoSound DEF States
<1>3. CASE ~AtBoundary(g) /\ g.draining
  <2>1. o \in Go("Draining", g, eff)
    BY <1>3 DEF FinishCommand, When
  <2>2. MachineInv([state |-> "Draining", flags |-> g])
    BY <1>3 DEF MachineInv, LiveStates
  <2> QED BY <2>1, <2>2, GoSound DEF States
<1>4. CASE ~g.draining /\ ~(AtBoundary(g) /\ g.redirect_pending)
  <2>1. o \in Go("Ready", g, eff)
    BY <1>4 DEF FinishCommand, When
  <2>2. MachineInv([state |-> "Ready", flags |-> g])
    BY <1>4 DEF MachineInv, LiveStates
  <2> QED BY <2>1, <2>2, GoSound DEF States
<1> QED BY <1>1, <1>2, <1>3, <1>4

\* The three handshake states before a backend is dialled, and the two after.
LEMMA HandshakeSound ==
    ASSUME NEW m \in Machines, MachineInv(m), NEW e \in Events,
           m.state \in {"Accept", "Greeting", "SslRequest",
                        "FrontendHandshake", "BackendHandshake"},
           NEW o \in OnEvent(m, e)
    PROVE  Sound(m.flags, e, o)
<1> DEFINE f == m.flags
<1>0. /\ f \in Flags /\ ~f.backend_owner /\ ~f.redirect_pending /\ ~f.draining
      /\ m.state \notin TakesKnowledge
  BY DEF MachineInv, Machines, LiveStates, TakesKnowledge
<1>1. ASSUME NEW s \in {"Greeting", "SslRequest", "FrontendHandshake",
                        "BackendHandshake"},
             NEW eff, Plain(eff), o \in Go(s, f, eff), e # "ControlRedirect"
      PROVE  Sound(f, e, o)
  <2>1. MachineInv([state |-> s, flags |-> f])
    BY <1>0 DEF MachineInv, LiveStates
  <2> QED BY <2>1, <1>0, <1>1, GoSound DEF States
<1>2. ASSUME NEW eff, Plain(eff), o \in Teardown(f, eff), e # "ControlRedirect"
      PROVE  Sound(f, e, o)
  BY <1>0, <1>2, TeardownSound
<1>3. CASE m.state = "Accept"
  <2>1. o \in OnAccept(f, e)
    BY <1>0, <1>3 DEF OnEvent, When
  <2> QED BY <2>1, <1>1, <1>2, PlainLiterals
          DEF OnAccept, When, CloseDuringHandshake, ClientGone, SessionEffects
<1>4. CASE m.state = "Greeting"
  <2>1. o \in OnGreeting(f, e)
    BY <1>0, <1>4 DEF OnEvent, When
  <2> QED BY <2>1, <1>1, <1>2, PlainLiterals
          DEF OnGreeting, When, CloseDuringHandshake, ClientGone, SessionEffects
<1>5. CASE m.state = "SslRequest"
  <2>1. o \in OnSslRequest(f, e)
    BY <1>0, <1>5 DEF OnEvent, When
  <2> QED BY <2>1, <1>1, <1>2, PlainLiterals
          DEF OnSslRequest, When, CloseDuringHandshake, ClientGone, SessionEffects
<1>6. CASE m.state = "FrontendHandshake"
  <2>1. o \in OnFrontendHandshake(f, e)
    BY <1>0, <1>6 DEF OnEvent, When
  <2> QED BY <2>1, <1>1, <1>2, PlainLiterals
          DEF OnFrontendHandshake, When, CloseDuringHandshake, ClientGone,
              BackendGone, SessionEffects
<1>7. CASE m.state = "BackendHandshake"
  <2>1. o \in OnBackendHandshake(f, e)
    BY <1>0, <1>7 DEF OnEvent, When
  <2>2. CASE e = "BackendAuthOk"
    <3> DEFINE g == [f EXCEPT !.authenticated = TRUE, !.backend_owner = TRUE]
               a == <<"AttachBackend", "ForwardAuthResultToClient">>
    <3>1. /\ g \in Flags /\ g.backend_owner
          /\ ~g.redirect_pending /\ ~g.draining
      BY <1>0 DEF Flags
    <3>2. a \in EffectSeqs
          /\ \A x : Emits(a, x) <=>
                x \in {"AttachBackend", "ForwardAuthResultToClient"}
      BY EmitsTwo, SMTT(20) DEF SessionEffects
    <3> HIDE DEF g, a
    <3>3. o.fsm = [state |-> "Ready", flags |-> g] /\ o.effects = a
      BY <2>1, <2>2 DEF OnBackendHandshake, When, Go, g, a,
             CloseDuringHandshake, ClientGone, BackendGone
    <3>4. o.fsm \in Machines /\ MachineInv(o.fsm)
      BY <3>1, <3>3 DEF Machines, States, MachineInv, LiveStates
    <3>5. Accounts(f, e, o)
      BY <1>0, <2>2, <3>1, <3>2, <3>3 DEF Accounts, Num, Ran
    <3> QED BY <3>2, <3>3, <3>4, <3>5 DEF Sound
  <2>3. CASE e # "BackendAuthOk"
    BY <2>1, <2>3, <1>2, PlainLiterals
    DEF OnBackendHandshake, When, CloseDuringHandshake, ClientGone,
        BackendGone, SessionEffects
  <2> QED BY <2>2, <2>3
<1> QED BY <1>3, <1>4, <1>5, <1>6, <1>7

\* Knowledge events move no account.
LEMMA KnowledgeSound ==
    ASSUME NEW m \in Machines, MachineInv(m), NEW e \in Events,
           m.state \in TakesKnowledge, NEW o \in OnKnowledge(m, e)
    PROVE  Sound(m.flags, e, o)
<1>1. PICK g \in Flags :
        /\ o \in Go(m.state, g, <<>>)
        /\ g.redirect_pending = m.flags.redirect_pending
        /\ g.backend_owner = m.flags.backend_owner
        /\ g.draining = m.flags.draining
        /\ e # "ControlRedirect"
  BY DEF OnKnowledge, When, Machines, Flags
<1>2. MachineInv([state |-> m.state, flags |-> g])
  BY <1>1 DEF MachineInv, TakesKnowledge, LiveStates
<1> QED BY <1>1, <1>2, GoSound, PlainLiterals DEF Machines

\* A redirect taken and not yet answered.
LEMMA QueueRedirectSound ==
    ASSUME NEW m \in Machines, MachineInv(m), m.state \in LiveStates,
           m.state # "RedirectPending", NEW o \in QueueRedirect(m.state, m.flags)
    PROVE  Sound(m.flags, "ControlRedirect", o)
<1> DEFINE g == [m.flags EXCEPT !.redirect_pending = TRUE]
<1>1. /\ g \in Flags /\ m.flags \in Flags
      /\ g.redirect_pending /\ ~m.flags.redirect_pending
      /\ g.backend_owner = m.flags.backend_owner
      /\ g.draining = m.flags.draining
  BY DEF QueueRedirect, When, Machines, Flags
<1>a. o \in Go(m.state, g, <<>>)
  BY DEF QueueRedirect, When
<1> HIDE DEF g
<1>2. o.fsm = [state |-> m.state, flags |-> g] /\ o.effects = <<>>
  BY <1>a DEF Go
<1>3. o.fsm \in Machines /\ MachineInv(o.fsm)
  BY <1>1, <1>2 DEF Machines, MachineInv, LiveStates
<1>4. Accounts(m.flags, "ControlRedirect", o)
  BY <1>1, <1>2, EmitsNone DEF Accounts, Num, Ran, Flags
<1> QED BY <1>2, <1>3, <1>4, EmitsNone DEF Sound

LEMMA BusySound ==
    ASSUME NEW m \in Machines, MachineInv(m), NEW e \in Events,
           m.state \in {"Command", "Response", "LocalInfile"},
           NEW o \in OnBusy(m.state, m.flags, e)
    PROVE  Sound(m.flags, e, o)
<1> USE DEF Machines
<1>1. CASE e = "ControlRedirect"
  <2>1. o \in QueueRedirect(m.state, m.flags)
    BY <1>1 DEF OnBusy, When, CloseNow, ClientGone, BackendGone
  <2> QED BY <1>1, <2>1, QueueRedirectSound DEF LiveStates
<1>2. CASE e = "ControlGracefulClose"
  <2> DEFINE g == [m.flags EXCEPT !.draining = TRUE]
  <2>1. /\ g \in Flags /\ g.redirect_pending = m.flags.redirect_pending
        /\ g.backend_owner = m.flags.backend_owner
    BY DEF Flags
  <2>2. o \in Go(m.state, g, <<"BeginDrainTimer">>)
    BY <1>2 DEF OnBusy, When, QueueDrain, CloseNow, ClientGone, BackendGone
  <2> HIDE DEF g
  <2>3. MachineInv([state |-> m.state, flags |-> g])
    BY <2>1 DEF MachineInv, LiveStates
  <2> QED BY <1>2, <2>1, <2>2, <2>3, GoSound, PlainLiterals DEF SessionEffects
<1>3. CASE e \notin {"ControlRedirect", "ControlGracefulClose"}
  <2>1. o \in Teardown(m.flags, <<>>)
    BY <1>3 DEF OnBusy, When, DrainDeadline
  <2> QED BY <1>3, <2>1, TeardownSound, PlainLiterals
<1> QED BY <1>1, <1>2, <1>3

LEMMA AnswerSound ==
    ASSUME NEW m \in Machines, MachineInv(m), NEW e \in Events,
           m.state \in {"Command", "Response"},
           NEW o \in OnAnswer(m.flags, e)
    PROVE  Sound(m.flags, e, o)
<1> DEFINE f == m.flags
<1>0. f \in Flags /\ f.backend_owner /\ e # "ControlRedirect"
  BY DEF OnAnswer, When, Machines, MachineInv, LiveStates
<1>1. ASSUME NEW d \in BOOLEAN
      PROVE  /\ WithStatus(f, d) \in Flags
             /\ WithStatus(f, d).redirect_pending = f.redirect_pending
             /\ WithStatus(f, d).backend_owner = f.backend_owner
             /\ WithStatus(f, d).draining = f.draining
  BY <1>0 DEF WithStatus, Flags
<1>2. ASSUME NEW s \in {"Response", "LocalInfile"}, NEW g \in Flags,
             g.redirect_pending = f.redirect_pending,
             g.backend_owner = f.backend_owner,
             g.draining = f.draining,
             NEW eff, Plain(eff), o \in Go(s, g, eff)
      PROVE  Sound(f, e, o)
  <2>1. MachineInv([state |-> s, flags |-> g])
    BY <1>0, <1>2 DEF MachineInv, LiveStates
  <2> QED BY <2>1, <1>0, <1>2, GoSound DEF States
<1>3. /\ Plain(<<"ForwardResponseToClient">>)
      /\ Plain(<<"RequestLocalInfileFromClient">>)
  BY PlainLiterals DEF SessionEffects
<1>4. ASSUME NEW d \in BOOLEAN, o \in ResponseComplete(f, d)
      PROVE  Sound(f, e, o)
  BY <1>0, <1>1, <1>3, <1>4, FinishSound DEF ResponseComplete
<1>5. ASSUME NEW d \in BOOLEAN, o \in PartStatus(f, d)
      PROVE  Sound(f, e, o)
  BY <1>1, <1>2, <1>3, <1>5 DEF PartStatus
<1>6. ASSUME o \in ErrorResponseComplete(f)
      PROVE  Sound(f, e, o)
  BY <1>0, <1>3, <1>6, FinishSound DEF ErrorResponseComplete
<1> QED BY <1>0, <1>2, <1>3, <1>4, <1>5, <1>6 DEF OnAnswer, When

LEMMA CommandSound ==
    ASSUME NEW m \in Machines, MachineInv(m), NEW e \in Events,
           m.state = "Command", NEW o \in OnCommand(m.flags, e)
    PROVE  Sound(m.flags, e, o)
<1> DEFINE f == m.flags
<1>0. f \in Flags /\ f.backend_owner
  BY DEF Machines, MachineInv, LiveStates
<1>1. ASSUME e # "ControlRedirect", NEW eff, Plain(eff),
             o \in FinishCommand(f, eff)
      PROVE  Sound(f, e, o)
  BY <1>0, <1>1, FinishSound
<1>2. ASSUME e # "ControlRedirect", NEW d \in BOOLEAN,
             o \in InternalResponseComplete(f, d)
      PROVE  Sound(f, e, o)
  <2>1. PICK p \in FinishCommand(WithStatus(f, d), <<>>) :
          o = [p EXCEPT !.effects =
                 IF ~d /\ ~f.draining THEN @ \o <<"ResumeHeldRequest">> ELSE @]
    BY <1>2 DEF InternalResponseComplete
  <2>2. /\ WithStatus(f, d) \in Flags
        /\ WithStatus(f, d).redirect_pending = f.redirect_pending
        /\ WithStatus(f, d).backend_owner = f.backend_owner
    BY <1>0 DEF WithStatus, Flags
  <2>3. Sound(f, e, p)
    BY <1>0, <1>2, <2>2, PlainLiterals, FinishSound
  <2>4. /\ o.fsm = p.fsm
        /\ o.effects \in {p.effects, p.effects \o <<"ResumeHeldRequest">>}
    BY <2>1 DEF FinishCommand, When, Go, Teardown
  <2>5. /\ o.effects \in EffectSeqs
        /\ \A x : Emits(o.effects, x) =>
                    Emits(p.effects, x) \/ x = "ResumeHeldRequest"
        /\ \A x : Emits(p.effects, x) => Emits(o.effects, x)
    <3> DEFINE r == <<"ResumeHeldRequest">>
    <3>1. r \in EffectSeqs /\ \A x : Emits(r, x) <=> x = "ResumeHeldRequest"
      BY EmitsOne DEF SessionEffects
    <3> HIDE DEF r
    <3>2. p.effects \in EffectSeqs
      BY <2>3 DEF Sound
    <3>3. /\ p.effects \o r \in EffectSeqs
          /\ \A x : Emits(p.effects \o r, x) <=>
                      Emits(p.effects, x) \/ Emits(r, x)
      BY <3>1, <3>2, EmitsConcat
    <3> QED BY <2>4, <3>1, <3>2, <3>3 DEF r
  <2>6. Accounts(f, e, o)
    BY <2>3, <2>4, <2>5 DEF Sound, Accounts, Ran
  <2> QED BY <2>3, <2>4, <2>5, <2>6 DEF Sound
<1>3. CASE o \in OnAnswer(f, e)
  BY <1>3, AnswerSound
<1>4. CASE o \in OnBusy("Command", f, e)
  BY <1>4, BusySound
<1> QED BY <1>1, <1>2, <1>3, <1>4, PlainLiterals
        DEF OnCommand, When, InternalErrorComplete

LEMMA LocalInfileSound ==
    ASSUME NEW m \in Machines, MachineInv(m), NEW e \in Events,
           m.state = "LocalInfile", NEW o \in OnLocalInfile(m.flags, e)
    PROVE  Sound(m.flags, e, o)
<1>1. CASE o \in OnBusy("LocalInfile", m.flags, e)
  BY <1>1, BusySound
<1>2. ASSUME NEW s \in {"Response", "LocalInfile"}, NEW eff, Plain(eff),
             o \in Go(s, m.flags, eff), e # "ControlRedirect"
      PROVE  Sound(m.flags, e, o)
  <2>1. MachineInv([state |-> s, flags |-> m.flags])
    BY DEF MachineInv, LiveStates
  <2> QED BY <1>2, <2>1, GoSound DEF States, Machines
<1> QED BY <1>1, <1>2, PlainLiterals DEF OnLocalInfile, When, SessionEffects

LEMMA ReadySound ==
    ASSUME NEW m \in Machines, MachineInv(m), NEW e \in Events,
           m.state = "Ready", NEW o \in OnReady(m.flags, e)
    PROVE  Sound(m.flags, e, o)
<1> DEFINE f == m.flags
<1>0. f \in Flags /\ f.backend_owner /\ ~f.draining
  BY DEF Machines, MachineInv, LiveStates
<1>1. CASE e = "ClientCommand"
  <2>1. o \in Go("Command", f, <<"ForwardCommandToBackend">>)
    BY <1>1 DEF OnReady, When, CloseNow, ClientGone, BackendGone
  <2>2. MachineInv([state |-> "Command", flags |-> f])
    BY DEF MachineInv, LiveStates
  <2> QED BY <1>0, <1>1, <2>1, <2>2, GoSound, PlainLiterals
          DEF States, SessionEffects
<1>2. CASE e = "ControlRedirect" /\ ~AtBoundary(f)
  <2>1. o \in QueueRedirect("Ready", f)
    BY <1>2 DEF OnReady, When, CloseNow, ClientGone, BackendGone
  <2> QED BY <1>2, <2>1, QueueRedirectSound DEF LiveStates
<1>3. CASE e = "ControlRedirect" /\ AtBoundary(f)
  <2> DEFINE g == [f EXCEPT !.redirect_pending = TRUE]
  <2>1. /\ ~f.redirect_pending
        /\ o \in Go("RedirectPending", g, <<"StartRedirectHandshake">>)
    BY <1>3 DEF OnReady, When, CloseNow, ClientGone, BackendGone
  <2>2. /\ g \in Flags /\ g.redirect_pending /\ g.backend_owner
        /\ ~g.draining /\ AtBoundary(g)
    BY <1>0, <1>3 DEF Flags, AtBoundary
  <2> HIDE DEF g
  <2>3. /\ o.fsm = [state |-> "RedirectPending", flags |-> g]
        /\ o.effects = <<"StartRedirectHandshake">>
    BY <2>1 DEF Go
  <2>4. o.fsm \in Machines /\ MachineInv(o.fsm)
    BY <2>2, <2>3 DEF Machines, States, MachineInv, LiveStates
  <2>5. Plain(o.effects)
    BY <2>3, PlainLiterals DEF SessionEffects
  <2>6. Accounts(f, e, o)
    BY <1>0, <1>3, <2>1, <2>2, <2>3, <2>5 DEF Accounts, Num, Ran, Plain
  <2> QED BY <2>4, <2>5, <2>6 DEF Sound, Plain
<1>4. CASE e = "ControlGracefulClose" /\ ~AtBoundary(f)
  <2> DEFINE g == [f EXCEPT !.draining = TRUE]
  <2>1. /\ g \in Flags /\ g.redirect_pending = f.redirect_pending
        /\ g.backend_owner = f.backend_owner
    BY <1>0 DEF Flags
  <2>2. o \in Go("Draining", g, <<"BeginDrainTimer">>)
    BY <1>4 DEF OnReady, QueueDrain, When, CloseNow, ClientGone, BackendGone
  <2> HIDE DEF g
  <2>3. MachineInv([state |-> "Draining", flags |-> g])
    BY <1>0, <2>1 DEF MachineInv, LiveStates
  <2> QED BY <1>0, <1>4, <2>1, <2>2, <2>3, GoSound, PlainLiterals
          DEF States, SessionEffects
<1>5. CASE \/ e \notin {"ClientCommand", "ControlRedirect",
                        "ControlGracefulClose"}
           \/ e = "ControlGracefulClose" /\ AtBoundary(f)
  <2>1. o \in Teardown(f, <<>>)
    BY <1>5 DEF OnReady, When
  <2> QED BY <1>0, <1>5, <2>1, TeardownSound, PlainLiterals
<1> QED BY <1>1, <1>2, <1>3, <1>4, <1>5

LEMMA RedirectPendingSound ==
    ASSUME NEW m \in Machines, MachineInv(m), NEW e \in Events,
           m.state = "RedirectPending", NEW o \in OnRedirectPending(m.flags, e)
    PROVE  Sound(m.flags, e, o)
<1> DEFINE f == m.flags
           g == [f EXCEPT !.redirect_pending = FALSE]
           h == [f EXCEPT !.late_redirect_result = TRUE]
           ok == <<"SwapBackend", "NotifyRedirectSucceeded",
                   "ResumeHeldRequest">>
           ko == <<"NotifyRedirectFailed", "ResumeHeldRequest">>
<1>0. f \in Flags /\ f.backend_owner /\ f.redirect_pending /\ ~f.draining
  BY DEF Machines, MachineInv, LiveStates
<1>1. g \in Flags /\ g.backend_owner /\ ~g.redirect_pending /\ ~g.draining
  BY <1>0 DEF Flags
<1>2. /\ h \in Flags /\ h.backend_owner = f.backend_owner
      /\ h.redirect_pending = f.redirect_pending
  BY <1>0 DEF Flags
<1>3. /\ ok \in EffectSeqs
      /\ \A x : Emits(ok, x) <=>
            x \in {"SwapBackend", "NotifyRedirectSucceeded",
                   "ResumeHeldRequest"}
  <2>1. /\ "SwapBackend" \in SessionEffects
        /\ "NotifyRedirectSucceeded" \in SessionEffects
        /\ "ResumeHeldRequest" \in SessionEffects
    BY DEF SessionEffects
  <2> QED BY <2>1, EmitsThree
<1>4. /\ ko \in EffectSeqs
      /\ \A x : Emits(ko, x) <=>
            x \in {"NotifyRedirectFailed", "ResumeHeldRequest"}
  BY EmitsTwo, SMTT(20) DEF SessionEffects
<1>5. \/ e = "RedirectBackendReady" /\ o \in Go("Ready", g, ok)
      \/ e = "RedirectBackendFailed" /\ o \in Go("Ready", g, ko)
      \/ e # "ControlRedirect" /\ o \in Teardown(h, <<>>)
  BY DEF OnRedirectPending, When, CloseNow, ClientGone, BackendGone
<1> HIDE DEF g, h, ok, ko
<1>6. ASSUME NEW eff \in {ok, ko}, o \in Go("Ready", g, eff),
             e # "ControlRedirect"
      PROVE  Sound(f, e, o)
  <2>1. o.fsm = [state |-> "Ready", flags |-> g] /\ o.effects = eff
    BY <1>6 DEF Go
  <2>2. o.fsm \in Machines /\ MachineInv(o.fsm)
    BY <1>1, <2>1 DEF Machines, States, MachineInv, LiveStates
  <2>3. Accounts(f, e, o)
    BY <1>0, <1>1, <1>3, <1>4, <1>6, <2>1 DEF Accounts, Num, Ran
  <2> QED BY <1>3, <1>4, <2>1, <2>2, <2>3 DEF Sound
<1>7. ASSUME o \in Teardown(h, <<>>), e # "ControlRedirect"
      PROVE  Sound(f, e, o)
  <2>1. Sound(h, e, o)
    BY <1>2, <1>7, TeardownSound, PlainLiterals
  <2> QED BY <1>2, <2>1 DEF Sound, Accounts
<1> QED BY <1>5, <1>6, <1>7

\* A redirect refused on the spot, in Draining or in Closing.
LEMMA RefuseSound ==
    ASSUME NEW m \in Machines, MachineInv(m),
           NEW o \in Go(m.state, m.flags, <<"NotifyRedirectFailed">>)
    PROVE  Sound(m.flags, "ControlRedirect", o)
<1>1. o.fsm = m /\ o.effects = <<"NotifyRedirectFailed">>
  BY DEF Go, Machines
<1>2. /\ o.effects \in EffectSeqs
      /\ \A x : Emits(o.effects, x) <=> x = "NotifyRedirectFailed"
  BY <1>1, EmitsOne DEF SessionEffects
<1>3. Accounts(m.flags, "ControlRedirect", o)
  BY <1>1, <1>2 DEF Accounts, Num, Ran
<1> QED BY <1>1, <1>2, <1>3 DEF Sound

LEMMA DrainingSound ==
    ASSUME NEW m \in Machines, MachineInv(m), NEW e \in Events,
           m.state = "Draining", NEW o \in OnDraining(m.flags, e)
    PROVE  Sound(m.flags, e, o)
<1> USE DEF Machines
<1>1. CASE e = "ClientCommand"
  <2>1. o \in Go("Command", m.flags, <<"ForwardCommandToBackend">>)
    BY <1>1 DEF OnDraining, When, CloseNow, ClientGone, BackendGone
  <2>2. MachineInv([state |-> "Command", flags |-> m.flags])
    BY DEF MachineInv, LiveStates
  <2> QED BY <1>1, <2>1, <2>2, GoSound, PlainLiterals DEF States, SessionEffects
<1>2. CASE e = "ControlRedirect"
  <2>1. o \in Go("Draining", m.flags, <<"NotifyRedirectFailed">>)
    BY <1>2 DEF OnDraining, When, CloseNow, ClientGone, BackendGone
  <2> QED BY <1>2, <2>1, RefuseSound
<1>3. CASE e \notin {"ClientCommand", "ControlRedirect"}
  <2>1. o \in Teardown(m.flags, <<>>)
    BY <1>3 DEF OnDraining, When
  <2> QED BY <1>3, <2>1, TeardownSound, PlainLiterals
<1> QED BY <1>1, <1>2, <1>3

LEMMA ClosingSound ==
    ASSUME NEW m \in Machines, MachineInv(m), NEW e \in Events,
           m.state = "Closing", NEW o \in OnClosing(m.flags, e)
    PROVE  Sound(m.flags, e, o)
<1> USE DEF Machines
<1>1. CASE e = "ControlRedirect"
  <2>1. o \in Go("Closing", m.flags, <<"NotifyRedirectFailed">>)
    BY <1>1 DEF OnClosing, When, ToleratedInClosing, CommandEvents,
                KnowledgeEvents, CloseNow, ClientGone, BackendGone
  <2> QED BY <1>1, <2>1, RefuseSound
<1>2. CASE e # "ControlRedirect"
  <2>1. PICK s \in {"Closing", "Closed"}, g \in Flags :
          /\ o \in Go(s, g, <<>>)
          /\ g.redirect_pending = m.flags.redirect_pending
          /\ g.backend_owner = m.flags.backend_owner
          /\ g.draining = m.flags.draining
    <3> DEFINE h == [m.flags EXCEPT !.late_redirect_result = FALSE]
    <3>1. /\ h \in Flags
          /\ h.redirect_pending = m.flags.redirect_pending
          /\ h.backend_owner = m.flags.backend_owner
          /\ h.draining = m.flags.draining
      BY DEF Flags
    <3> QED BY <1>2, <3>1 DEF OnClosing, When
  <2>2. MachineInv([state |-> s, flags |-> g])
    BY <2>1 DEF MachineInv, LiveStates
  <2> QED BY <1>2, <2>1, <2>2, GoSound, PlainLiterals DEF States
<1> QED BY <1>1, <1>2

\* Every legal event keeps the invariant and settles the accounts.
LEMMA OnEventSound ==
    ASSUME NEW m \in Machines, MachineInv(m), NEW e \in Events,
           NEW o \in OnEvent(m, e)
    PROVE  Sound(m.flags, e, o)
<1>1. CASE m.state \in {"Accept", "Greeting", "SslRequest",
                        "FrontendHandshake", "BackendHandshake"}
  BY <1>1, HandshakeSound
<1>2. CASE m.state = "Ready"
  BY <1>2, ReadySound, KnowledgeSound DEF OnEvent, When
<1>3. CASE m.state = "Command"
  BY <1>3, CommandSound, KnowledgeSound DEF OnEvent, When
<1>4. CASE m.state = "Response"
  BY <1>4, AnswerSound, BusySound, KnowledgeSound DEF OnEvent, When, OnResponse
<1>5. CASE m.state = "LocalInfile"
  BY <1>5, LocalInfileSound, KnowledgeSound DEF OnEvent, When
<1>6. CASE m.state = "RedirectPending"
  BY <1>6, RedirectPendingSound DEF OnEvent, When, TakesKnowledge
<1>7. CASE m.state = "Draining"
  BY <1>7, DrainingSound, KnowledgeSound DEF OnEvent, When
<1>8. CASE m.state = "Closing"
  BY <1>8, ClosingSound DEF OnEvent, When, TakesKnowledge
<1>9. CASE m.state = "Closed"
  BY <1>9 DEF OnEvent, When, TakesKnowledge
<1> QED BY <1>1, <1>2, <1>3, <1>4, <1>5, <1>6, <1>7, <1>8, <1>9
        DEF Machines, States

-----------------------------------------------------------------------------
(* The inductive invariant and the theorems *)

IInv ==
    /\ fsm \in Machines
    /\ effects \in EffectSeqs
    /\ MachineInv(fsm)
    /\ owners = Num(fsm.flags.backend_owner)
    /\ owed = Num(fsm.flags.redirect_pending)

LEMMA IInvInductive == Spec => []IInv
<1>1. Init => IInv
  <2> SUFFICES ASSUME Init PROVE IInv
    OBVIOUS
  <2>1. NewFsm \in Machines /\ MachineInv(NewFsm)
    BY DEF NewFsm, Machines, States, Flags, MachineInv, LiveStates
  <2> QED BY <2>1, EmitsNone DEF Init, IInv, Num, NewFsm
<1>2. IInv /\ [Next]_vars => IInv'
  <2> SUFFICES ASSUME IInv, [Next]_vars PROVE IInv'
    OBVIOUS
  <2>1. ASSUME NEW e \in Events, Take(e)
        PROVE  IInv'
    <3>1. PICK o \in OnEvent(fsm, e) :
            /\ fsm' = o.fsm
            /\ effects' = o.effects
            /\ owners' = owners + Ran(o.effects, "AttachBackend")
                                - Ran(o.effects, "ReleaseBackend")
            /\ owed' = owed + (IF e = "ControlRedirect" THEN 1 ELSE 0)
                            - Ran(o.effects, "NotifyRedirectSucceeded")
                            - Ran(o.effects, "NotifyRedirectFailed")
      BY <2>1 DEF Take
    <3>2. Sound(fsm.flags, e, o)
      BY OnEventSound DEF IInv
    <3> QED BY <3>1, <3>2 DEF IInv, Sound, Accounts, Num
  <2>2. CASE UNCHANGED vars
    BY <2>2 DEF IInv, vars
  <2> QED BY <2>1, <2>2 DEF Next, Terminated
<1> QED BY <1>1, <1>2, PTL DEF Spec

\* Type correctness: at every point of every event sequence the machine is in
\* its declared states, the runtime holds at most one owner and the control
\* plane is owed at most one result.
THEOREM TypeCorrect == Spec => []TypeOK
<1>1. IInv => TypeOK
  BY DEF IInv, TypeOK, Num, EffectSeqs
<1> QED BY <1>1, IInvInductive, PTL

\* Every redirect taken by the session gets exactly one result, and none is
\* still owed once the session closes, whatever events come in between.
THEOREM RedirectResults == Spec => []RedirectAnsweredOnce
<1>1. IInv => RedirectAnsweredOnce
  BY DEF IInv, RedirectAnsweredOnce, Num, MachineInv, LiveStates
<1> QED BY <1>1, IInvInductive, PTL

\* The runtime holds a backend owner exactly while the session is live: two
\* owners, a command without an owner, and an owner kept by a closed session
\* are all unreachable.
THEOREM SoleOwner == Spec => []OwnerWhileLive
<1>1. IInv => OwnerWhileLive
  BY DEF IInv, OwnerWhileLive, Num, MachineInv, LiveStates
<1> QED BY <1>1, IInvInductive, PTL

\* A migration runs only at a boundary and never under a graceful close.
THEOREM QuietMigration == Spec => []MigrationIsQuiet
<1>1. IInv => MigrationIsQuiet
  BY DEF IInv, MigrationIsQuiet, MachineInv
<1> QED BY <1>1, IInvInductive, PTL

-----------------------------------------------------------------------------
(* The close wins over the migration *)

MigrationEffects == {"StartRedirectHandshake", "SwapBackend", "ResumeHeldRequest"}

\* Effects that do not migrate the session.
Staying(eff) ==
    eff \in EffectSeqs /\ \A x \in MigrationEffects : ~Emits(eff, x)

StillDrains(o) == o.fsm.flags.draining /\ Staying(o.effects)

LEMMA StayingLiterals ==
    /\ Staying(<<>>)
    /\ \A a \in SessionEffects \ MigrationEffects : Staying(<<a>>)
BY EmitsNone, EmitsOne DEF Staying

LEMMA GoDrains ==
    ASSUME NEW s, NEW g, g.draining, NEW eff, Staying(eff), NEW o \in Go(s, g, eff)
    PROVE  StillDrains(o)
BY DEF Go, StillDrains

LEMMA TeardownDrains ==
    ASSUME NEW f \in Flags, f.draining, NEW eff, Staying(eff), NEW o \in Teardown(f, eff)
    PROVE  StillDrains(o)
<1> DEFINE g == [f EXCEPT !.redirect_pending = FALSE, !.backend_owner = FALSE]
<1>1. g.draining
  BY DEF Flags
<1>2. Staying(eff \o TeardownEffects(f))
  BY EmitsTeardown DEF Staying, MigrationEffects
<1>3. o \in Go("Closing", g, eff \o TeardownEffects(f))
  BY DEF Teardown
<1> HIDE DEF g
<1> QED BY <1>1, <1>2, <1>3, GoDrains

\* A command that ends under a pending close tears down or waits.
LEMMA FinishDrains ==
    ASSUME NEW f \in Flags, f.draining, NEW eff, Staying(eff),
           NEW o \in FinishCommand(f, eff)
    PROVE  StillDrains(o)
<1>1. o \in Teardown(f, eff) \/ o \in Go("Draining", f, eff)
  BY DEF FinishCommand, When
<1> QED BY <1>1, TeardownDrains, GoDrains

LEMMA BusyDrains ==
    ASSUME NEW f \in Flags, f.draining, NEW s, NEW e \in Events, NEW o \in OnBusy(s, f, e)
    PROVE  StillDrains(o)
<1> DEFINE g == [f EXCEPT !.redirect_pending = TRUE]
           h == [f EXCEPT !.draining = TRUE]
<1>0. g.draining /\ h.draining
  BY DEF Flags
<1>1. \/ o \in Go(s, g, <<>>)
      \/ o \in Go(s, h, <<"BeginDrainTimer">>)
      \/ o \in Teardown(f, <<>>)
  BY DEF OnBusy, When, QueueRedirect, QueueDrain, DrainDeadline
<1>2. Staying(<<>>) /\ Staying(<<"BeginDrainTimer">>)
  BY StayingLiterals DEF SessionEffects, MigrationEffects
<1> HIDE DEF g, h
<1> QED BY <1>0, <1>1, <1>2, GoDrains, TeardownDrains

LEMMA WithStatusDrains ==
    ASSUME NEW f \in Flags, f.draining, NEW d \in BOOLEAN
    PROVE  WithStatus(f, d) \in Flags /\ WithStatus(f, d).draining
BY DEF WithStatus, Flags

LEMMA AnswerDrains ==
    ASSUME NEW f \in Flags, f.draining, NEW e \in Events, NEW o \in OnAnswer(f, e)
    PROVE  StillDrains(o)
<1>1. /\ Staying(<<"ForwardResponseToClient">>)
      /\ Staying(<<"RequestLocalInfileFromClient">>)
  BY StayingLiterals DEF SessionEffects, MigrationEffects
<1>2. ASSUME NEW d \in BOOLEAN, o \in ResponseComplete(f, d)
      PROVE  StillDrains(o)
  BY <1>1, <1>2, WithStatusDrains, FinishDrains DEF ResponseComplete
<1>3. ASSUME NEW d \in BOOLEAN, o \in PartStatus(f, d)
      PROVE  StillDrains(o)
  BY <1>1, <1>3, WithStatusDrains, GoDrains DEF PartStatus
<1>4. ASSUME o \in ErrorResponseComplete(f)
      PROVE  StillDrains(o)
  BY <1>1, <1>4, FinishDrains DEF ErrorResponseComplete
<1>5. \/ o \in Go("Response", f, <<"ForwardResponseToClient">>)
      \/ o \in Go("LocalInfile", f, <<"RequestLocalInfileFromClient">>)
      \/ \E d \in BOOLEAN : o \in ResponseComplete(f, d) \/ o \in PartStatus(f, d)
      \/ o \in ErrorResponseComplete(f)
  BY DEF OnAnswer, When
<1> QED BY <1>1, <1>2, <1>3, <1>4, <1>5, GoDrains

LEMMA CommandDrains ==
    ASSUME NEW f \in Flags, f.draining, NEW e \in Events, NEW o \in OnCommand(f, e)
    PROVE  StillDrains(o)
<1>1. Staying(<<>>)
  BY StayingLiterals
<1>2. ASSUME NEW d \in BOOLEAN, o \in InternalResponseComplete(f, d)
      PROVE  StillDrains(o)
  <2>1. PICK p \in FinishCommand(WithStatus(f, d), <<>>) :
          o = [p EXCEPT !.effects =
                 IF ~d /\ ~f.draining THEN @ \o <<"ResumeHeldRequest">> ELSE @]
    BY <1>2 DEF InternalResponseComplete
  <2>2. StillDrains(p)
    BY <1>1, WithStatusDrains, FinishDrains
  <2>3. o.fsm = p.fsm /\ o.effects = p.effects
    BY <2>1 DEF FinishCommand, When, Go, Teardown
  <2> QED BY <2>2, <2>3 DEF StillDrains
<1>3. \/ o \in FinishCommand(f, <<>>)
      \/ \E d \in BOOLEAN : o \in InternalResponseComplete(f, d)
      \/ o \in OnAnswer(f, e)
      \/ o \in OnBusy("Command", f, e)
  BY DEF OnCommand, When, InternalErrorComplete
<1> QED BY <1>1, <1>2, <1>3, FinishDrains, AnswerDrains, BusyDrains

\* Knowledge, the upload of a local file, and the two states that close.
LEMMA OthersDrain ==
    ASSUME NEW m \in Machines, m.flags.draining, NEW e \in Events, NEW o,
           \/ o \in OnKnowledge(m, e)
           \/ o \in OnLocalInfile(m.flags, e)
           \/ o \in OnDraining(m.flags, e)
           \/ o \in OnClosing(m.flags, e)
    PROVE  StillDrains(o)
<1> DEFINE f == m.flags
<1>0. f \in Flags
  BY DEF Machines
<1>1. \A a \in {"ForwardInfileChunkToBackend", "ForwardInfileEndToBackend",
                "ForwardCommandToBackend", "NotifyRedirectFailed"} : Staying(<<a>>)
  BY StayingLiterals DEF SessionEffects, MigrationEffects
<1>2. /\ [f EXCEPT !.prepared_pending = TRUE].draining
      /\ [f EXCEPT !.prepared_pending = FALSE].draining
      /\ [f EXCEPT !.txn_unknown = TRUE].draining
      /\ [f EXCEPT !.late_redirect_result = FALSE].draining
  BY <1>0 DEF Flags
<1>3. Staying(<<>>)
  BY StayingLiterals
<1>4. CASE o \in OnKnowledge(m, e)
  BY <1>2, <1>3, <1>4, GoDrains DEF OnKnowledge, When
<1>5. CASE o \in OnLocalInfile(f, e)
  <2>1. \/ o \in Go("LocalInfile", f, <<"ForwardInfileChunkToBackend">>)
        \/ o \in Go("Response", f, <<"ForwardInfileEndToBackend">>)
        \/ o \in OnBusy("LocalInfile", f, e)
    BY <1>5 DEF OnLocalInfile, When
  <2> QED BY <1>0, <1>1, <2>1, GoDrains, BusyDrains
<1>6. CASE o \in OnDraining(f, e)
  <2>1. \/ o \in Go("Command", f, <<"ForwardCommandToBackend">>)
        \/ o \in Go("Draining", f, <<"NotifyRedirectFailed">>)
        \/ o \in Teardown(f, <<>>)
    BY <1>6 DEF OnDraining, When
  <2> QED BY <1>0, <1>1, <1>3, <2>1, GoDrains, TeardownDrains
<1>7. CASE o \in OnClosing(f, e)
  BY <1>1, <1>2, <1>3, <1>7, GoDrains DEF OnClosing, When
<1> QED BY <1>4, <1>5, <1>6, <1>7

LEMMA OnEventDrains ==
    ASSUME NEW m \in Machines, MachineInv(m), m.flags.draining,
           NEW e \in Events, NEW o \in OnEvent(m, e)
    PROVE  StillDrains(o)
<1>0. m.flags \in Flags
  BY DEF Machines
<1>1. CASE m.state = "Command"
  BY <1>0, <1>1, CommandDrains, OthersDrain DEF OnEvent, When
<1>2. CASE m.state = "Response"
  BY <1>0, <1>2, AnswerDrains, BusyDrains, OthersDrain DEF OnEvent, When, OnResponse
<1>3. CASE m.state \in {"LocalInfile", "Draining", "Closing", "Closed"}
  BY <1>3, OthersDrain DEF OnEvent, When
<1> QED BY <1>1, <1>2, <1>3 DEF MachineInv

\* Once a graceful close is taken the session is on its way out for good:
\* whatever events follow, it is never Ready or RedirectPending again and no
\* migration starts, completes or lets a held request go ahead.
THEOREM CloseWins == Spec => DrainWins
<1>1. IInv /\ [Next]_vars =>
        [fsm.flags.draining =>
            /\ fsm'.flags.draining
            /\ fsm'.state \notin {"Ready", "RedirectPending"}
            /\ \A x \in {"StartRedirectHandshake", "SwapBackend",
                         "ResumeHeldRequest"} : ~Emits(effects', x)]_vars
  <2> SUFFICES ASSUME IInv, Next, fsm.flags.draining, ~UNCHANGED vars
               PROVE  /\ fsm'.flags.draining
                      /\ fsm'.state \notin {"Ready", "RedirectPending"}
                      /\ \A x \in MigrationEffects : ~Emits(effects', x)
    BY DEF MigrationEffects
  <2>1. PICK e \in Events : Take(e)
    BY DEF Next, Terminated
  <2>2. PICK o \in OnEvent(fsm, e) : fsm' = o.fsm /\ effects' = o.effects
    BY <2>1 DEF Take
  <2>3. StillDrains(o)
    BY OnEventDrains DEF IInv
  <2>4. MachineInv(o.fsm)
    BY OnEventSound DEF IInv, Sound
  <2> QED BY <2>2, <2>3, <2>4 DEF StillDrains, Staying, MachineInv
<1> QED BY <1>1, IInvInductive, PTL DEF Spec, DrainWins
-----------------------------------------------------------------------------
(* What each event does, and the order of its effects *)

\* Pairs of effects that come in this order if they come together; an effect
\* paired with itself comes once.
Pairs ==
    {<<x, x>> : x \in {"ForwardHandshakeToBackend", "AttachBackend",
                       "ForwardAuthResultToClient", "ForwardCommandToBackend",
                       "ForwardResponseToClient", "NotifyRedirectSucceeded",
                       "NotifyRedirectFailed", "StartRedirectHandshake", "SwapBackend"}}
    \union {<<"AttachBackend", "ForwardAuthResultToClient">>,
            <<"SwapBackend", "ForwardCommandToBackend">>,
            <<"ResumeHeldRequest", "ForwardCommandToBackend">>,
            <<"SwapBackend", "NotifyRedirectSucceeded">>,
            <<"NotifyRedirectSucceeded", "NotifyRedirectFailed">>,
            <<"NotifyRedirectFailed", "NotifyRedirectSucceeded">>,
            <<"StartRedirectHandshake", "NotifyRedirectFailed">>}

InOrder(eff, x, y) == \A i, j \in DOMAIN eff : eff[i] = y /\ eff[j] = x => j <= i
WellOrdered(eff) == \A p \in Pairs : InOrder(eff, p[1], p[2])

LEMMA OrderConcat ==
    ASSUME NEW s \in EffectSeqs, NEW t \in EffectSeqs, WellOrdered(s), WellOrdered(t),
           \A p \in Pairs : ~(Emits(s, p[2]) /\ Emits(t, p[1]))
    PROVE  WellOrdered(s \o t)
<1> SUFFICES ASSUME NEW p \in Pairs, NEW i \in DOMAIN (s \o t), NEW j \in DOMAIN (s \o t),
                    (s \o t)[i] = p[2], (s \o t)[j] = p[1]
             PROVE  j <= i
  BY DEF WellOrdered, InOrder
<1>1. /\ Len(s) \in Nat /\ Len(t) \in Nat
      /\ DOMAIN s = 1 .. Len(s) /\ DOMAIN t = 1 .. Len(t)
      /\ DOMAIN (s \o t) = 1 .. Len(s) + Len(t)
      /\ \A k \in 1 .. Len(s) : (s \o t)[k] = s[k]
      /\ \A k \in Len(s) + 1 .. Len(s) + Len(t) : (s \o t)[k] = t[k - Len(s)]
  BY DEF EffectSeqs
<1>2. InOrder(s, p[1], p[2]) /\ InOrder(t, p[1], p[2])
  BY DEF WellOrdered
<1>3. CASE i <= Len(s) /\ j <= Len(s)
  BY <1>1, <1>2, <1>3 DEF InOrder
<1>4. CASE i > Len(s) /\ j > Len(s)
  <2>1. i - Len(s) \in DOMAIN t /\ t[i - Len(s)] = p[2]
        /\ j - Len(s) \in DOMAIN t /\ t[j - Len(s)] = p[1]
    BY <1>1, <1>4
  <2>2. j - Len(s) <= i - Len(s)
    BY <1>2, <2>1 DEF InOrder
  <2> QED BY <1>1, <2>2
<1>5. CASE i <= Len(s) /\ j > Len(s)
  <2>1. i \in DOMAIN s /\ s[i] = p[2] /\ j - Len(s) \in DOMAIN t /\ t[j - Len(s)] = p[1]
    BY <1>1, <1>5
  <2> QED BY <2>1 DEF Emits
<1> QED BY <1>1, <1>3, <1>4, <1>5

LEMMA OrderLiterals ==
    ASSUME NEW a \in SessionEffects, NEW b \in SessionEffects, NEW c \in SessionEffects
    PROVE  /\ WellOrdered(<<>>) /\ WellOrdered(<<a>>)
           /\ <<b, a>> \notin Pairs => WellOrdered(<<a, b>>)
           /\ <<b, a>> \notin Pairs /\ <<c, a>> \notin Pairs /\ <<c, b>> \notin Pairs
                => WellOrdered(<<a, b, c>>)
<1>0. \A p \in Pairs : p = <<p[1], p[2]>>
  BY DEF Pairs
<1>1. WellOrdered(<<>>)
  BY DEF WellOrdered, InOrder
<1>2. WellOrdered(<<a>>)
  <2>1. DOMAIN <<a>> = {1}
    OBVIOUS
  <2> QED BY <2>1 DEF WellOrdered, InOrder
<1>3. ASSUME <<b, a>> \notin Pairs PROVE WellOrdered(<<a, b>>)
  <2> SUFFICES ASSUME NEW p \in Pairs, NEW i \in {1, 2}, NEW j \in {1, 2},
                      <<a, b>>[i] = p[2], <<a, b>>[j] = p[1]
               PROVE  j <= i
    BY DEF WellOrdered, InOrder
  <2>1. <<a, b>>[1] = a /\ <<a, b>>[2] = b
    OBVIOUS
  <2>2. i = 1 /\ j = 2 => p[1] = b /\ p[2] = a
    BY <2>1
  <2>3. ~(i = 1 /\ j = 2)
    BY <1>0, <1>3, <2>2
  <2> QED BY <2>3
<1>4. ASSUME <<b, a>> \notin Pairs, <<c, a>> \notin Pairs, <<c, b>> \notin Pairs
      PROVE  WellOrdered(<<a, b, c>>)
  <2> SUFFICES ASSUME NEW p \in Pairs, NEW i \in {1, 2, 3}, NEW j \in {1, 2, 3},
                      <<a, b, c>>[i] = p[2], <<a, b, c>>[j] = p[1]
               PROVE  j <= i
    BY DEF WellOrdered, InOrder
  <2>1. <<a, b, c>>[1] = a /\ <<a, b, c>>[2] = b /\ <<a, b, c>>[3] = c
    OBVIOUS
  <2>2. /\ i = 1 /\ j = 2 => p[1] = b /\ p[2] = a
        /\ i = 1 /\ j = 3 => p[1] = c /\ p[2] = a
        /\ i = 2 /\ j = 3 => p[1] = c /\ p[2] = b
    BY <2>1
  <2>3. ~(i = 1 /\ j = 2) /\ ~(i = 1 /\ j = 3) /\ ~(i = 2 /\ j = 3)
    BY <1>0, <1>4, <2>2
  <2> QED BY <2>3
<1> QED BY <1>1, <1>2, <1>3, <1>4

Yields(o, X) == WellOrdered(o.effects) /\ \A x : Emits(o.effects, x) <=> x \in X

\* What a teardown emits, as a set.
LastEffects(f) ==
    {x \in {"NotifyRedirectFailed"} : f.redirect_pending}
    \union {x \in {"ReleaseBackend"} : f.backend_owner}
    \union {"CloseBackend", "CloseClient", "ClassifySessionEnd"}

\* An outcome that ends the session, after the effects X; one that does not.
Ends(f, o, X) ==
    /\ o.fsm.state = "Closing" /\ ~o.fsm.flags.redirect_pending
    /\ o.fsm.flags.authenticated = f.authenticated
    /\ Yields(o, X \union LastEffects(f))

Moves(f, o, s, X) ==
    /\ o.fsm.state = s /\ Yields(o, X)
    /\ o.fsm.flags.redirect_pending = f.redirect_pending
    /\ o.fsm.flags.authenticated = f.authenticated
    /\ o.fsm.flags.in_txn = f.in_txn

LEMMA TeardownEnds ==
    ASSUME NEW f \in Flags, NEW eff \in EffectSeqs, NEW X, WellOrdered(eff),
           \A x : Emits(eff, x) <=> x \in X,
           "NotifyRedirectFailed" \notin X, "NotifyRedirectSucceeded" \notin X,
           NEW o \in Teardown(f, eff)
    PROVE  Ends(f, o, X)
<1> DEFINE r == IF f.redirect_pending THEN <<"NotifyRedirectFailed">> ELSE <<>>
           w == IF f.backend_owner THEN <<"ReleaseBackend">> ELSE <<>>
           c == <<"CloseBackend", "CloseClient", "ClassifySessionEnd">>
           g == [f EXCEPT !.redirect_pending = FALSE, !.backend_owner = FALSE]
<1>0. /\ "NotifyRedirectFailed" \in SessionEffects
      /\ "ReleaseBackend" \in SessionEffects
      /\ "CloseBackend" \in SessionEffects
      /\ "CloseClient" \in SessionEffects
      /\ "ClassifySessionEnd" \in SessionEffects
  BY DEF SessionEffects
<1>1. /\ r \in EffectSeqs /\ WellOrdered(r)
      /\ \A x : Emits(r, x) => x = "NotifyRedirectFailed"
  BY <1>0, EmitsNone, EmitsOne, OrderLiterals
<1>2. /\ w \in EffectSeqs /\ WellOrdered(w)
      /\ \A x : Emits(w, x) => x = "ReleaseBackend"
  BY <1>0, EmitsNone, EmitsOne, OrderLiterals
<1>3. /\ c \in EffectSeqs
      /\ \A x : Emits(c, x) => x \in {"CloseBackend", "CloseClient", "ClassifySessionEnd"}
  BY <1>0, EmitsThree
<1>4. \A p \in Pairs : /\ p[1] \notin {"ReleaseBackend", "CloseBackend", "CloseClient", "ClassifySessionEnd"}
                       /\ p[2] \notin {"ReleaseBackend", "CloseBackend", "CloseClient", "ClassifySessionEnd"}
                       /\ p[1] = "NotifyRedirectFailed" =>
                            p[2] \in {"NotifyRedirectFailed", "NotifyRedirectSucceeded"}
  BY DEF Pairs
<1>5. WellOrdered(c)
  <2>1. \A p \in Pairs : ~Emits(c, p[1])
    BY <1>3, <1>4
  <2> QED BY <2>1 DEF WellOrdered, InOrder, Emits
<1>6. TeardownEffects(f) = (r \o w) \o c
  BY DEF TeardownEffects
<1>7. o.effects = eff \o TeardownEffects(f) /\ o.fsm = [state |-> "Closing", flags |-> g]
  BY DEF Teardown, Go
<1>8. ~g.redirect_pending /\ g.authenticated = f.authenticated
  BY DEF Flags
<1> HIDE DEF r, w, c, g
<1>9. r \o w \in EffectSeqs /\ WellOrdered(r \o w)
      /\ \A x : Emits(r \o w, x) => x \in {"NotifyRedirectFailed", "ReleaseBackend"}
  BY <1>1, <1>2, <1>4, EmitsConcat, OrderConcat
<1>10. /\ TeardownEffects(f) \in EffectSeqs /\ WellOrdered(TeardownEffects(f))
       /\ \A x : Emits(TeardownEffects(f), x) =>
            x \in {"NotifyRedirectFailed", "ReleaseBackend", "CloseBackend", "CloseClient",
                   "ClassifySessionEnd"}
  BY <1>3, <1>4, <1>5, <1>6, <1>9, EmitsConcat, OrderConcat
<1>11. WellOrdered(o.effects)
  BY <1>4, <1>7, <1>10, OrderConcat
<1>12. \A x : Emits(o.effects, x) <=> x \in X \union LastEffects(f)
  BY <1>7, EmitsTeardown DEF LastEffects
<1> QED BY <1>7, <1>8, <1>11, <1>12 DEF Ends, Yields

\* finish_command, after no effect or the answer to the client.
LEMMA FinishOutcome ==
    ASSUME NEW f \in Flags, NEW eff \in {<<>>, <<"ForwardResponseToClient">>},
           NEW X, \A x : Emits(eff, x) <=> x \in X,
           NEW o \in FinishCommand(f, eff)
    PROVE  /\ \/ AtBoundary(f) /\ f.draining /\ Ends(f, o, X)
              \/ /\ AtBoundary(f) /\ f.redirect_pending /\ ~f.draining
                 /\ Moves(f, o, "RedirectPending", X \union {"StartRedirectHandshake"})
              \/ /\ ~(AtBoundary(f) /\ (f.draining \/ f.redirect_pending))
                 /\ Moves(f, o, "Ready", X) \/ Moves(f, o, "Draining", X)
           /\ \A p \in FinishCommand(f, eff) : p = o
           /\ o.effects \in EffectSeqs
<1> DEFINE srh == <<"StartRedirectHandshake">>
<1>0. "StartRedirectHandshake" \in SessionEffects /\ "ForwardResponseToClient" \in SessionEffects
  BY DEF SessionEffects
<1>1. eff \in EffectSeqs /\ WellOrdered(eff) /\ \A x \in X : x = "ForwardResponseToClient"
  <2>1. CASE eff = <<>>
    BY <1>0, <2>1, EmitsNone, OrderLiterals
  <2>2. CASE eff = <<"ForwardResponseToClient">>
    <3>1. <<"ForwardResponseToClient">> \in EffectSeqs /\ WellOrdered(<<"ForwardResponseToClient">>)
          /\ \A x : Emits(<<"ForwardResponseToClient">>, x) => x = "ForwardResponseToClient"
      BY <1>0, EmitsOne, OrderLiterals
    <3> QED BY <2>2, <3>1
  <2> QED BY <2>1, <2>2
<1>2. srh \in EffectSeqs /\ WellOrdered(srh) /\ \A x : Emits(srh, x) <=> x = "StartRedirectHandshake"
  BY <1>0, EmitsOne, OrderLiterals
<1> HIDE DEF srh
<1>3. /\ eff \o srh \in EffectSeqs /\ WellOrdered(eff \o srh)
      /\ \A x : Emits(eff \o srh, x) <=> x \in X \union {"StartRedirectHandshake"}
  <2>1. \A p \in Pairs : p[1] = "StartRedirectHandshake" =>
          p[2] \in {"StartRedirectHandshake", "NotifyRedirectFailed"}
    BY DEF Pairs
  <2> QED BY <1>1, <1>2, <2>1, EmitsConcat, OrderConcat
<1>4. CASE AtBoundary(f) /\ f.draining
  <2>1. FinishCommand(f, eff) = Teardown(f, eff)
    BY <1>4 DEF FinishCommand, When
  <2>2. Ends(f, o, X)
    <3>1. "NotifyRedirectFailed" \notin X /\ "NotifyRedirectSucceeded" \notin X
          /\ "StartRedirectHandshake" \notin X
      BY <1>1
    <3> QED BY <1>1, <2>1, <3>1, TeardownEnds
  <2>3. o.effects \in EffectSeqs
    <3>1. o.effects = eff \o TeardownEffects(f)
      BY <2>1 DEF Teardown, Go
    <3> QED BY <1>1, <3>1, EmitsTeardown
  <2> QED BY <1>4, <2>1, <2>2, <2>3 DEF Teardown, Go
<1>5. CASE AtBoundary(f) /\ ~f.draining /\ f.redirect_pending
  <2>1. FinishCommand(f, eff) = Go("RedirectPending", f, eff \o srh)
    BY <1>5 DEF FinishCommand, When, srh
  <2>2. o = [fsm |-> [state |-> "RedirectPending", flags |-> f], effects |-> eff \o srh]
    BY <2>1 DEF Go
  <2>3. o.fsm.state = "RedirectPending" /\ o.fsm.flags = f /\ o.effects = eff \o srh
    BY <2>2
  <2>4. Moves(f, o, "RedirectPending", X \union {"StartRedirectHandshake"})
    BY <1>3, <2>3 DEF Moves, Yields
  <2>5. \A p \in FinishCommand(f, eff) : p = o
    BY <2>1, <2>2 DEF Go
  <2> QED BY <1>3, <1>5, <2>3, <2>4, <2>5
<1>6. CASE ~AtBoundary(f) /\ f.draining
  <2>1. FinishCommand(f, eff) = Go("Draining", f, eff)
    BY <1>6 DEF FinishCommand, When
  <2> QED BY <1>1, <1>6, <2>1 DEF Go, Moves, Yields
<1>7. CASE ~f.draining /\ ~(AtBoundary(f) /\ f.redirect_pending)
  <2>1. FinishCommand(f, eff) = Go("Ready", f, eff)
    BY <1>7 DEF FinishCommand, When
  <2> QED BY <1>1, <1>7, <2>1 DEF Go, Moves, Yields
<1>8. AtBoundary(f) \in BOOLEAN /\ f.draining \in BOOLEAN /\ f.redirect_pending \in BOOLEAN
  BY DEF AtBoundary, Flags
<1> QED BY <1>4, <1>5, <1>6, <1>7, <1>8

LEMMA FinishesSomehow ==
    ASSUME NEW f \in Flags, NEW eff
    PROVE  FinishCommand(f, eff) # {}
<1>1. AtBoundary(f) \in BOOLEAN /\ f.draining \in BOOLEAN /\ f.redirect_pending \in BOOLEAN
  BY DEF AtBoundary, Flags
<1>2. CASE AtBoundary(f) /\ f.draining
  BY <1>2 DEF FinishCommand, When, Teardown, Go
<1>3. CASE ~(AtBoundary(f) /\ f.draining)
  BY <1>1, <1>3 DEF FinishCommand, When, Go
<1> QED BY <1>2, <1>3


\* A handler answers in each state.
Handled == Events \ KnowledgeEvents

LEMMA HandlerOf ==
    ASSUME NEW m, NEW e \in Handled
    PROVE  /\ m.state = "FrontendHandshake" => OnEvent(m, e) = OnFrontendHandshake(m.flags, e)
           /\ m.state = "BackendHandshake" => OnEvent(m, e) = OnBackendHandshake(m.flags, e)
           /\ m.state = "Ready" => OnEvent(m, e) = OnReady(m.flags, e)
           /\ m.state = "Command" => OnEvent(m, e) = OnCommand(m.flags, e)
           /\ m.state = "Response" => OnEvent(m, e) = OnResponse(m.flags, e)
           /\ m.state = "RedirectPending" => OnEvent(m, e) = OnRedirectPending(m.flags, e)
           /\ m.state = "Draining" => OnEvent(m, e) = OnDraining(m.flags, e)
           /\ m.state = "Closing" => OnEvent(m, e) = OnClosing(m.flags, e)
<1>1. OnKnowledge(m, e) = {}
  BY DEF OnKnowledge, When, Handled, KnowledgeEvents
<1> QED BY <1>1 DEF OnEvent, When, TakesKnowledge

\* Effects that are written down yield themselves.
LEMMA GoMoves ==
    ASSUME NEW f, NEW g, NEW s, NEW eff, NEW X, NEW o \in Go(s, g, eff),
           WellOrdered(eff), \A x : Emits(eff, x) <=> x \in X,
           g.redirect_pending = f.redirect_pending, g.authenticated = f.authenticated,
           g.in_txn = f.in_txn
    PROVE  Moves(f, o, s, X)
<1>1. o.fsm.state = s /\ o.fsm.flags = g /\ o.effects = eff
  BY DEF Go
<1> QED BY <1>1 DEF Moves, Yields

LEMMA YieldsLiterals ==
    /\ WellOrdered(<<>>) /\ \A x : Emits(<<>>, x) <=> x \in {}
    /\ \A a \in SessionEffects :
         WellOrdered(<<a>>) /\ \A x : Emits(<<a>>, x) <=> x \in {a}
<1>1. WellOrdered(<<>>) /\ \A x : ~Emits(<<>>, x)
  BY EmitsNone, OrderLiterals DEF SessionEffects
<1>2. ASSUME NEW a \in SessionEffects
      PROVE  WellOrdered(<<a>>) /\ \A x : Emits(<<a>>, x) <=> x \in {a}
  BY EmitsOne, OrderLiterals
<1> QED BY <1>1, <1>2

\* Events and effects named in this section.
LEMMA NamedEvents ==
    {"BackendGreetingReceived", "BackendAuthOk", "BackendAuthFailed", "ClientEof",
     "BackendIoError", "ClientCommand", "ClientCommandQuit", "RedirectBackendReady",
     "RedirectBackendFailed", "InternalResponseTxnOpen", "InternalResponseTxnDone",
     "InternalResponseError", "BackendResponsePart", "BackendResponseTxnOpen",
     "BackendResponseTxnDone", "BackendResponseErrorComplete", "DrainTimerExpired",
     "HandshakeTimerExpired", "TeardownComplete", "ControlRedirect",
     "ControlCloseImmediate", "ControlGracefulClose"} \subseteq Handled
BY DEF Handled, Events, HandshakeEvents, CommandEvents, ClientGone, BackendGone, KnowledgeEvents


LEMMA NamedEffects ==
    {"ForwardHandshakeToBackend", "AttachBackend", "ForwardAuthResultToClient",
     "ForwardCommandToBackend", "ForwardResponseToClient", "StartRedirectHandshake",
     "SwapBackend", "NotifyRedirectSucceeded", "NotifyRedirectFailed",
     "ResumeHeldRequest", "BeginDrainTimer"} \subseteq SessionEffects
BY DEF SessionEffects

\* A teardown after no effect, or after the one that answers the client.
LEMMA TeardownNow ==
    ASSUME NEW f \in Flags
    PROVE  /\ Teardown(f, <<>>) # {}
           /\ \A o \in Teardown(f, <<>>) : Ends(f, o, {})
           /\ Teardown(f, <<"ForwardAuthResultToClient">>) # {}
           /\ \A o \in Teardown(f, <<"ForwardAuthResultToClient">>) :
                Ends(f, o, {"ForwardAuthResultToClient"})
<1>1. <<>> \in EffectSeqs /\ <<"ForwardAuthResultToClient">> \in EffectSeqs
  BY NamedEffects, EmitsNone, EmitsOne
<1>2. \A o \in Teardown(f, <<>>) : Ends(f, o, {})
  BY <1>1, YieldsLiterals, TeardownEnds
<1>3. \A o \in Teardown(f, <<"ForwardAuthResultToClient">>) :
        Ends(f, o, {"ForwardAuthResultToClient"})
  <2> DEFINE X == {"ForwardAuthResultToClient"}
             eff == <<"ForwardAuthResultToClient">>
  <2>1. WellOrdered(eff) /\ (\A x : Emits(eff, x) <=> x \in X) /\ eff \in EffectSeqs
        /\ "NotifyRedirectFailed" \notin X /\ "NotifyRedirectSucceeded" \notin X
    BY <1>1, YieldsLiterals, NamedEffects
  <2> HIDE DEF X, eff
  <2>2. \A o \in Teardown(f, eff) : Ends(f, o, X)
    BY <2>1, TeardownEnds
  <2> QED BY <2>2 DEF X, eff
<1>4. \A eff : Teardown(f, eff) # {}
  BY DEF Teardown, Go
<1> QED BY <1>2, <1>3, <1>4

\* The handshake.
LEMMA GreetingOutcome ==
    ASSUME NEW m \in Machines, m.state = "FrontendHandshake"
    PROVE  /\ OnEvent(m, "BackendGreetingReceived") # {}
           /\ \A o \in OnEvent(m, "BackendGreetingReceived") :
                Moves(m.flags, o, "BackendHandshake", {"ForwardHandshakeToBackend"})
<1>0. OnFrontendHandshake(m.flags, "BackendGreetingReceived")
        = Go("BackendHandshake", m.flags, <<"ForwardHandshakeToBackend">>)
  BY DEF OnFrontendHandshake, When, CloseDuringHandshake, ClientGone, BackendGone
<1>1. OnEvent(m, "BackendGreetingReceived")
        = Go("BackendHandshake", m.flags, <<"ForwardHandshakeToBackend">>)
  BY <1>0, HandlerOf, NamedEvents
<1>2. Go("BackendHandshake", m.flags, <<"ForwardHandshakeToBackend">>) # {}
  BY DEF Go
<1> QED BY <1>1, <1>2, GoMoves, YieldsLiterals, NamedEffects

\* The session is authenticated, and the client is told after the attachment.
Authenticates(f, o) ==
    /\ o.fsm.state = "Ready" /\ o.fsm.flags.authenticated
    /\ o.fsm.flags.redirect_pending = f.redirect_pending
    /\ o.fsm.flags.in_txn = f.in_txn
    /\ Yields(o, {"AttachBackend", "ForwardAuthResultToClient"})

LEMMA AuthOutcome ==
    ASSUME NEW m \in Machines, m.state = "BackendHandshake"
    PROVE  /\ OnEvent(m, "BackendAuthOk") # {}
           /\ \A o \in OnEvent(m, "BackendAuthOk") : Authenticates(m.flags, o)
           /\ OnEvent(m, "BackendAuthFailed") # {}
           /\ \A o \in OnEvent(m, "BackendAuthFailed") :
                Ends(m.flags, o, {"ForwardAuthResultToClient"})
<1> DEFINE f == m.flags
           g == [f EXCEPT !.authenticated = TRUE, !.backend_owner = TRUE]
           eff == <<"AttachBackend", "ForwardAuthResultToClient">>
<1>0. f \in Flags /\ g.authenticated /\ g.redirect_pending = f.redirect_pending
      /\ g.in_txn = f.in_txn
  BY DEF Machines, Flags
<1>a. OnBackendHandshake(f, "BackendAuthOk") = Go("Ready", g, eff)
  BY DEF OnBackendHandshake, When, CloseDuringHandshake, ClientGone, BackendGone
<1>1. OnEvent(m, "BackendAuthOk") = Go("Ready", g, eff)
  BY <1>a, HandlerOf, NamedEvents
<1>b. OnBackendHandshake(f, "BackendAuthFailed") = Teardown(f, <<"ForwardAuthResultToClient">>)
  BY DEF OnBackendHandshake, When, CloseDuringHandshake, ClientGone, BackendGone
<1>2. OnEvent(m, "BackendAuthFailed") = Teardown(f, <<"ForwardAuthResultToClient">>)
  BY <1>b, HandlerOf, NamedEvents
<1>3. WellOrdered(eff) /\ \A x : Emits(eff, x) <=> x \in {"AttachBackend", "ForwardAuthResultToClient"}
  <2>1. <<"ForwardAuthResultToClient", "AttachBackend">> \notin Pairs
    BY DEF Pairs
  <2> QED BY <2>1, NamedEffects, OrderLiterals, EmitsTwo
<1> HIDE DEF g, eff
<1>4. ASSUME NEW o \in Go("Ready", g, eff) PROVE Authenticates(f, o)
  <2>1. o.fsm.state = "Ready" /\ o.fsm.flags = g /\ o.effects = eff
    BY <1>4 DEF Go
  <2> QED BY <1>0, <1>3, <2>1 DEF Authenticates, Yields
<1>5. Go("Ready", g, eff) # {}
  BY DEF Go
<1> QED BY <1>0, <1>1, <1>2, <1>4, <1>5, TeardownNow

\* Commands of the client.
LEMMA CommandOutcome ==
    ASSUME NEW m \in Machines, m.state \in {"Ready", "Draining"}
    PROVE  /\ OnEvent(m, "ClientCommand") # {}
           /\ \A o \in OnEvent(m, "ClientCommand") :
                Moves(m.flags, o, "Command", {"ForwardCommandToBackend"})
           /\ OnEvent(m, "ClientCommandQuit") # {}
           /\ \A o \in OnEvent(m, "ClientCommandQuit") : Ends(m.flags, o, {})
<1> DEFINE go == Go("Command", m.flags, <<"ForwardCommandToBackend">>)
<1>a. OnReady(m.flags, "ClientCommand") = go /\ OnDraining(m.flags, "ClientCommand") = go
  BY DEF OnReady, OnDraining, When, CloseNow, ClientGone, BackendGone
<1>1. OnEvent(m, "ClientCommand") = go
  BY <1>a, HandlerOf, NamedEvents
<1>b. /\ OnReady(m.flags, "ClientCommandQuit") = Teardown(m.flags, <<>>)
      /\ OnDraining(m.flags, "ClientCommandQuit") = Teardown(m.flags, <<>>)
  BY DEF OnReady, OnDraining, When, CloseNow, ClientGone, BackendGone
<1>2. OnEvent(m, "ClientCommandQuit") = Teardown(m.flags, <<>>)
  BY <1>b, HandlerOf, NamedEvents
<1>3. go # {}
  BY DEF Go
<1>4. m.flags \in Flags
  BY DEF Machines
<1> QED BY <1>1, <1>2, <1>3, <1>4, GoMoves, YieldsLiterals, NamedEffects, TeardownNow

\* Whatever ends the session at once.
LEMMA BreakOutcome ==
    ASSUME NEW m \in Machines,
           m.state \in {"FrontendHandshake", "BackendHandshake", "Ready", "Command",
                        "Response", "RedirectPending", "Draining"},
           NEW e \in {"ClientEof", "BackendIoError", "ControlCloseImmediate"}
    PROVE  /\ OnEvent(m, e) # {}
           /\ \A o \in OnEvent(m, e) : Ends(m.flags, o, {})
<1> DEFINE f == m.flags
           g == [f EXCEPT !.late_redirect_result = TRUE]
<1>0. /\ f \in Flags /\ g \in Flags /\ g.redirect_pending = f.redirect_pending
      /\ g.authenticated = f.authenticated /\ g.backend_owner = f.backend_owner
  BY DEF Machines, Flags
<1> USE DEF When, CloseNow, CloseDuringHandshake, ClientGone, BackendGone
<1>e. e \in Handled
  BY NamedEvents
<1>1. CASE m.state \in {"FrontendHandshake", "BackendHandshake"}
  <2>1. /\ OnFrontendHandshake(f, e) = IF e \in CloseDuringHandshake \union BackendGone THEN Teardown(f, <<>>) ELSE {}
        /\ OnBackendHandshake(f, e) = IF e \in CloseDuringHandshake \union BackendGone THEN Teardown(f, <<>>) ELSE {}
    BY DEF OnFrontendHandshake, OnBackendHandshake
  <2>2. OnEvent(m, e) = Teardown(f, <<>>)
    BY <1>1, <1>e, <2>1, HandlerOf
  <2> QED BY <1>0, <2>2, TeardownNow
<1>2. CASE m.state \in {"Ready", "Draining"}
  <2>1. OnReady(f, e) = Teardown(f, <<>>) /\ OnDraining(f, e) = Teardown(f, <<>>)
    BY DEF OnReady, OnDraining
  <2>2. OnEvent(m, e) = Teardown(f, <<>>)
    BY <1>2, <1>e, <2>1, HandlerOf
  <2> QED BY <1>0, <2>2, TeardownNow
<1>3. CASE m.state \in {"Command", "Response"}
  <2>1. OnBusy(m.state, f, e) = Teardown(f, <<>>) /\ OnAnswer(f, e) = {}
    BY DEF OnBusy, OnAnswer
  <2>2. /\ OnCommand(f, e) = OnAnswer(f, e) \union OnBusy("Command", f, e)
        /\ OnResponse(f, e) = OnAnswer(f, e) \union OnBusy("Response", f, e)
    BY DEF OnCommand, OnResponse
  <2>3. OnEvent(m, e) = Teardown(f, <<>>)
    BY <1>3, <1>e, <2>1, <2>2, HandlerOf
  <2> QED BY <1>0, <2>3, TeardownNow
<1>4. CASE m.state = "RedirectPending"
  <2>1. OnRedirectPending(f, e) = Teardown(g, <<>>)
    BY DEF OnRedirectPending
  <2>2. OnEvent(m, e) = Teardown(g, <<>>)
    BY <1>4, <1>e, <2>1, HandlerOf
  <2> HIDE DEF g
  <2>3. OnEvent(m, e) # {} /\ \A o \in OnEvent(m, e) : Ends(g, o, {})
    BY <1>0, <2>2, TeardownNow
  <2>4. LastEffects(g) = LastEffects(f)
    BY <1>0 DEF LastEffects
  <2> QED BY <1>0, <2>3, <2>4 DEF Ends
<1> QED BY <1>1, <1>2, <1>3, <1>4

\* finish_command as the runtime sees it: at a boundary a close goes first,
\* then a pending redirect.
Finishes(f, o, X) ==
    \/ AtBoundary(f) /\ f.draining /\ Ends(f, o, X)
    \/ /\ AtBoundary(f) /\ f.redirect_pending
       /\ Moves(f, o, "RedirectPending", X \union {"StartRedirectHandshake"})
    \/ /\ ~(AtBoundary(f) /\ (f.draining \/ f.redirect_pending))
       /\ Moves(f, o, "Ready", X) \/ Moves(f, o, "Draining", X)

LEMMA FinishAnswers ==
    ASSUME NEW f \in Flags
    PROVE  /\ FinishCommand(f, <<>>) # {}
           /\ \A o \in FinishCommand(f, <<>>) : Finishes(f, o, {}) /\ o.effects \in EffectSeqs
           /\ FinishCommand(f, <<"ForwardResponseToClient">>) # {}
           /\ \A o \in FinishCommand(f, <<"ForwardResponseToClient">>) :
                Finishes(f, o, {"ForwardResponseToClient"})
<1> DEFINE frc == <<"ForwardResponseToClient">>
           X == {"ForwardResponseToClient"}
<1>1. \A x : Emits(<<>>, x) <=> x \in {}
  BY YieldsLiterals
<1>2. \A x : Emits(frc, x) <=> x \in X
  BY YieldsLiterals, NamedEffects
<1>3. ASSUME NEW o \in FinishCommand(f, <<>>) PROVE Finishes(f, o, {}) /\ o.effects \in EffectSeqs
  <2> DEFINE none == <<>>
             Y == {}
  <2>1. none \in {<<>>, <<"ForwardResponseToClient">>} /\ (\A x : Emits(none, x) <=> x \in Y)
        /\ o \in FinishCommand(f, none)
    BY <1>1, <1>3
  <2> HIDE DEF none, Y
  <2>2. Finishes(f, o, Y) /\ o.effects \in EffectSeqs
    BY <2>1, FinishOutcome DEF Finishes
  <2> QED BY <2>2 DEF Y
<1>4. ASSUME NEW o \in FinishCommand(f, frc) PROVE Finishes(f, o, X)
  <2>1. frc \in {<<>>, <<"ForwardResponseToClient">>}
    OBVIOUS
  <2> HIDE DEF frc, X
  <2> QED BY <1>2, <1>4, <2>1, FinishOutcome DEF Finishes
<1> QED BY <1>3, <1>4, FinishesSomehow

\* The backend's answer to a command.
LEMMA AnswerOutcome ==
    ASSUME NEW m \in Machines, m.state \in {"Command", "Response"}
    PROVE  /\ OnEvent(m, "BackendResponsePart") # {}
           /\ \A o \in OnEvent(m, "BackendResponsePart") :
                Moves(m.flags, o, "Response", {"ForwardResponseToClient"})
           /\ OnEvent(m, "BackendResponseErrorComplete") # {}
           /\ \A o \in OnEvent(m, "BackendResponseErrorComplete") :
                Finishes(m.flags, o, {"ForwardResponseToClient"})
           /\ OnEvent(m, "BackendResponseTxnDone") # {}
           /\ \A o \in OnEvent(m, "BackendResponseTxnDone") :
                Finishes(WithStatus(m.flags, TRUE), o, {"ForwardResponseToClient"})
           /\ OnEvent(m, "BackendResponseTxnOpen") # {}
           /\ \A o \in OnEvent(m, "BackendResponseTxnOpen") :
                Finishes(WithStatus(m.flags, FALSE), o, {"ForwardResponseToClient"})
<1> DEFINE f == m.flags
           frc == <<"ForwardResponseToClient">>
           Es == {"BackendResponsePart", "BackendResponseErrorComplete",
                  "BackendResponseTxnDone", "BackendResponseTxnOpen"}
<1>0. f \in Flags /\ WithStatus(f, TRUE) \in Flags /\ WithStatus(f, FALSE) \in Flags
  BY DEF Machines, Flags, WithStatus
<1>1. ASSUME NEW e \in Es PROVE OnEvent(m, e) = OnAnswer(f, e)
  <2>1. OnBusy(m.state, f, e) = {}
    BY <1>1 DEF OnBusy, When, CloseNow, ClientGone, BackendGone
  <2>2. /\ OnCommand(f, e) = OnAnswer(f, e) \union OnBusy("Command", f, e)
        /\ OnResponse(f, e) = OnAnswer(f, e) \union OnBusy("Response", f, e)
    BY <1>1 DEF OnCommand, OnResponse, When
  <2>3. e \in Handled
    BY NamedEvents
  <2> QED BY <2>1, <2>2, <2>3, HandlerOf
<1>2. /\ OnAnswer(f, "BackendResponsePart") = Go("Response", f, frc)
      /\ OnAnswer(f, "BackendResponseErrorComplete") = FinishCommand(f, frc)
      /\ OnAnswer(f, "BackendResponseTxnDone") = FinishCommand(WithStatus(f, TRUE), frc)
      /\ OnAnswer(f, "BackendResponseTxnOpen") = FinishCommand(WithStatus(f, FALSE), frc)
  BY DEF OnAnswer, When, ErrorResponseComplete, ResponseComplete
<1>3. Go("Response", f, frc) # {}
  BY DEF Go
<1>4. \A o \in Go("Response", f, frc) : Moves(f, o, "Response", {"ForwardResponseToClient"})
  BY GoMoves, YieldsLiterals, NamedEffects
<1>5. \A e \in Es : OnEvent(m, e) = OnAnswer(f, e)
  BY <1>1
<1> HIDE DEF f
<1> QED BY <1>0, <1>2, <1>3, <1>4, <1>5, FinishAnswers DEF f

\* The end of the internal COMMIT.
LEMMA CommitOutcome ==
    ASSUME NEW m \in Machines, m.state = "Command"
    PROVE  /\ OnEvent(m, "InternalResponseError") # {}
           /\ \A o \in OnEvent(m, "InternalResponseError") : Finishes(m.flags, o, {})
           /\ OnEvent(m, "InternalResponseTxnDone") # {}
           /\ \A o \in OnEvent(m, "InternalResponseTxnDone") :
                Finishes(WithStatus(m.flags, TRUE), o, {})
           /\ OnEvent(m, "InternalResponseTxnOpen") # {}
           /\ \A o \in OnEvent(m, "InternalResponseTxnOpen") :
                LET g == WithStatus(m.flags, FALSE) IN
                \E X \in {{}, {"ResumeHeldRequest"}} :
                   Moves(g, o, "Ready", X) \/ Moves(g, o, "Draining", X)
<1> DEFINE f == m.flags
           d == WithStatus(f, TRUE)
           g == WithStatus(f, FALSE)
           Es == {"InternalResponseError", "InternalResponseTxnDone",
                  "InternalResponseTxnOpen"}
           res == <<"ResumeHeldRequest">>
<1>0. /\ f \in Flags /\ d \in Flags /\ g \in Flags
      /\ g.in_txn = TRUE
  BY DEF Machines, Flags, WithStatus
<1>1. ASSUME NEW e \in Es PROVE OnBusy("Command", f, e) = {} /\ OnAnswer(f, e) = {}
  BY <1>1 DEF OnBusy, OnAnswer, When, CloseNow, ClientGone, BackendGone
<1>2. /\ OnCommand(f, "InternalResponseError") = FinishCommand(f, <<>>)
      /\ OnCommand(f, "InternalResponseTxnDone") = InternalResponseComplete(f, TRUE)
      /\ OnCommand(f, "InternalResponseTxnOpen") = InternalResponseComplete(f, FALSE)
  BY <1>1 DEF OnCommand, When, InternalErrorComplete
<1>3. /\ OnEvent(m, "InternalResponseError") = FinishCommand(f, <<>>)
      /\ OnEvent(m, "InternalResponseTxnDone") = InternalResponseComplete(f, TRUE)
      /\ OnEvent(m, "InternalResponseTxnOpen") = InternalResponseComplete(f, FALSE)
  BY <1>2, HandlerOf, NamedEvents
<1>4. InternalResponseComplete(f, TRUE) = FinishCommand(d, <<>>)
  <2>1. \A o \in FinishCommand(d, <<>>) : [o EXCEPT !.effects = o.effects] = o
    BY DEF FinishCommand, When, Teardown, Go
  <2> QED BY <2>1 DEF InternalResponseComplete
<1>5. /\ \A o \in FinishCommand(g, <<>>) : Finishes(g, o, {}) /\ o.effects \in EffectSeqs
      /\ FinishCommand(g, <<>>) # {}
  BY <1>0, FinishAnswers
<1>6. ASSUME NEW p \in InternalResponseComplete(f, FALSE)
      PROVE  \E X \in {{}, {"ResumeHeldRequest"}} :
               Moves(g, p, "Ready", X) \/ Moves(g, p, "Draining", X)
  <2>1. PICK o \in FinishCommand(g, <<>>) :
          p = [o EXCEPT !.effects = IF ~FALSE /\ ~f.draining THEN o.effects \o res ELSE o.effects]
    BY <1>6 DEF InternalResponseComplete
  <2>2. \E st, fl, ef : o = [fsm |-> [state |-> st, flags |-> fl], effects |-> ef]
    BY DEF FinishCommand, When, Teardown, Go
  <2>3. /\ p.fsm = o.fsm
        /\ \/ p.effects = o.effects
           \/ p.effects = o.effects \o res
    BY <2>1, <2>2
  <2>4. Moves(g, o, "Ready", {}) \/ Moves(g, o, "Draining", {})
    BY <1>0, <1>5 DEF Finishes, AtBoundary
  <2>5. o.effects \in EffectSeqs /\ WellOrdered(o.effects) /\ \A x : ~Emits(o.effects, x)
    BY <1>5, <2>4 DEF Moves, Yields
  <2>6. res \in EffectSeqs /\ WellOrdered(res) /\ \A x : Emits(res, x) <=> x \in {"ResumeHeldRequest"}
    BY YieldsLiterals, NamedEffects, EmitsOne
  <2>7. /\ WellOrdered(o.effects \o res)
        /\ \A x : Emits(o.effects \o res, x) <=> x \in {"ResumeHeldRequest"}
    BY <2>5, <2>6, OrderConcat, EmitsConcat
  <2>8. \E X \in {{}, {"ResumeHeldRequest"}} : Yields(p, X)
    BY <2>3, <2>5, <2>7 DEF Yields
  <2> QED BY <2>3, <2>4, <2>8 DEF Moves
<1>7. InternalResponseComplete(f, FALSE) # {}
  BY <1>5 DEF InternalResponseComplete
<1>8. /\ FinishCommand(f, <<>>) # {} /\ \A o \in FinishCommand(f, <<>>) : Finishes(f, o, {})
      /\ FinishCommand(d, <<>>) # {} /\ \A o \in FinishCommand(d, <<>>) : Finishes(d, o, {})
  BY <1>0, FinishAnswers
<1> HIDE DEF f, d, g
<1> QED BY <1>3, <1>4, <1>6, <1>7, <1>8 DEF f, d, g

\* The outcome of a migration.
Swaps(f, o, X) ==
    /\ o.fsm.state = "Ready" /\ ~o.fsm.flags.redirect_pending
    /\ o.fsm.flags.authenticated = f.authenticated
    /\ o.fsm.flags.in_txn = f.in_txn
    /\ Yields(o, X)

LEMMA MigrationOutcome ==
    ASSUME NEW m \in Machines, m.state = "RedirectPending"
    PROVE  /\ OnEvent(m, "RedirectBackendReady") # {}
           /\ \A o \in OnEvent(m, "RedirectBackendReady") :
                Swaps(m.flags, o, {"SwapBackend", "NotifyRedirectSucceeded", "ResumeHeldRequest"})
           /\ OnEvent(m, "RedirectBackendFailed") # {}
           /\ \A o \in OnEvent(m, "RedirectBackendFailed") :
                Swaps(m.flags, o, {"NotifyRedirectFailed", "ResumeHeldRequest"})
<1> DEFINE f == m.flags
           g == [f EXCEPT !.redirect_pending = FALSE]
           won == <<"SwapBackend", "NotifyRedirectSucceeded", "ResumeHeldRequest">>
           lost == <<"NotifyRedirectFailed", "ResumeHeldRequest">>
<1>0. /\ ~g.redirect_pending /\ g.authenticated = f.authenticated /\ g.in_txn = f.in_txn
  BY DEF Machines, Flags
<1>1. /\ OnRedirectPending(f, "RedirectBackendReady") = Go("Ready", g, won)
      /\ OnRedirectPending(f, "RedirectBackendFailed") = Go("Ready", g, lost)
  BY DEF OnRedirectPending, When, CloseNow, ClientGone, BackendGone
<1>2. /\ OnEvent(m, "RedirectBackendReady") = Go("Ready", g, won)
      /\ OnEvent(m, "RedirectBackendFailed") = Go("Ready", g, lost)
  BY <1>1, HandlerOf, NamedEvents
<1>4. /\ <<"ResumeHeldRequest", "NotifyRedirectFailed">> \notin Pairs
      /\ <<"ResumeHeldRequest", "SwapBackend">> \notin Pairs
      /\ <<"ResumeHeldRequest", "NotifyRedirectSucceeded">> \notin Pairs
      /\ <<"NotifyRedirectSucceeded", "SwapBackend">> \notin Pairs
  BY DEF Pairs
<1>5. /\ WellOrdered(won)
      /\ \A x : Emits(won, x) <=> x \in {"SwapBackend", "NotifyRedirectSucceeded", "ResumeHeldRequest"}
  BY <1>4, NamedEffects, OrderLiterals, EmitsThree
<1>6. WellOrdered(lost) /\ \A x : Emits(lost, x) <=> x \in {"NotifyRedirectFailed", "ResumeHeldRequest"}
  BY <1>4, NamedEffects, OrderLiterals, EmitsTwo
<1> HIDE DEF g, won, lost
<1>7. ASSUME NEW eff, NEW o \in Go("Ready", g, eff)
      PROVE  o.fsm.state = "Ready" /\ o.fsm.flags = g /\ o.effects = eff
  BY <1>7 DEF Go
<1>8. \A eff : Go("Ready", g, eff) # {}
  BY DEF Go
<1> QED BY <1>0, <1>2, <1>5, <1>6, <1>7, <1>8 DEF Swaps, Yields

\* A redirect arrives: it starts, waits for a boundary, is refused by a session
\* that drains, or has no place.
Queues(f, o, s, X) ==
    /\ o.fsm.state = s /\ o.fsm.flags.redirect_pending
    /\ o.fsm.flags.authenticated = f.authenticated
    /\ o.fsm.flags.in_txn = f.in_txn
    /\ Yields(o, X)

LEMMA RedirectOutcome ==
    ASSUME NEW m \in Machines,
           m.state \in {"FrontendHandshake", "BackendHandshake", "Ready", "Command",
                        "Response", "RedirectPending", "Draining"},
           NEW o \in OnEvent(m, "ControlRedirect")
    PROVE  \/ /\ m.state = "Ready" /\ AtBoundary(m.flags)
              /\ Queues(m.flags, o, "RedirectPending", {"StartRedirectHandshake"})
           \/ m.state \in {"Ready", "Command", "Response"} /\ Queues(m.flags, o, m.state, {})
           \/ m.state = "Draining" /\ Moves(m.flags, o, "Draining", {"NotifyRedirectFailed"})
<1> DEFINE f == m.flags
           g == [f EXCEPT !.redirect_pending = TRUE]
           srh == <<"StartRedirectHandshake">>
<1>0. g.redirect_pending /\ g.authenticated = f.authenticated /\ g.in_txn = f.in_txn
  BY DEF Machines, Flags
<1> USE DEF When, CloseNow, CloseDuringHandshake, ClientGone, BackendGone
<1>1. ASSUME NEW s, NEW eff, NEW X, o \in Go(s, g, eff), WellOrdered(eff),
             \A x : Emits(eff, x) <=> x \in X
      PROVE  Queues(f, o, s, X)
  <2> HIDE DEF g
  <2>1. o.fsm.state = s /\ o.fsm.flags = g /\ o.effects = eff
    BY <1>1 DEF Go
  <2> QED BY <1>0, <1>1, <2>1 DEF Queues, Yields
<1>2. CASE m.state \in {"FrontendHandshake", "BackendHandshake", "RedirectPending"}
  <2>1. /\ OnFrontendHandshake(f, "ControlRedirect") = {}
        /\ OnBackendHandshake(f, "ControlRedirect") = {}
        /\ OnRedirectPending(f, "ControlRedirect") = {}
    BY DEF OnFrontendHandshake, OnBackendHandshake, OnRedirectPending
  <2> QED BY <1>2, <2>1, HandlerOf, NamedEvents
<1>3. CASE m.state = "Ready"
  <2>1. o \in OnReady(f, "ControlRedirect")
    BY <1>3, HandlerOf, NamedEvents
  <2>2. (AtBoundary(f) /\ o \in Go("RedirectPending", g, srh)) \/ o \in Go("Ready", g, <<>>)
    BY <2>1 DEF OnReady, QueueRedirect
  <2> QED BY <1>1, <1>3, <2>2, YieldsLiterals, NamedEffects
<1>4. CASE m.state \in {"Command", "Response"}
  <2>1. OnAnswer(f, "ControlRedirect") = {}
    BY DEF OnAnswer
  <2>2. /\ OnCommand(f, "ControlRedirect") = OnAnswer(f, "ControlRedirect")
                                               \union OnBusy("Command", f, "ControlRedirect")
        /\ OnResponse(f, "ControlRedirect") = OnAnswer(f, "ControlRedirect")
                                               \union OnBusy("Response", f, "ControlRedirect")
    BY DEF OnCommand, OnResponse
  <2>3. o \in OnBusy(m.state, f, "ControlRedirect")
    BY <1>4, <2>1, <2>2, HandlerOf, NamedEvents
  <2>4. o \in Go(m.state, g, <<>>)
    BY <2>3 DEF OnBusy, QueueRedirect
  <2> QED BY <1>1, <1>4, <2>4, YieldsLiterals
<1>5. CASE m.state = "Draining"
  <2>1. OnDraining(f, "ControlRedirect") = Go("Draining", f, <<"NotifyRedirectFailed">>)
    BY DEF OnDraining
  <2>2. o \in Go("Draining", f, <<"NotifyRedirectFailed">>)
    BY <1>5, <2>1, HandlerOf, NamedEvents
  <2> QED BY <1>5, <2>2, GoMoves, YieldsLiterals, NamedEffects
<1> QED BY <1>2, <1>3, <1>4, <1>5

\* A graceful close and the two timers end the session, or arm the drain.
LEMMA EndingOutcome ==
    ASSUME NEW m \in Machines,
           m.state \in {"FrontendHandshake", "BackendHandshake", "Ready", "Command",
                        "Response", "RedirectPending", "Draining"},
           NEW e \in {"ControlGracefulClose", "HandshakeTimerExpired", "DrainTimerExpired"},
           NEW o \in OnEvent(m, e)
    PROVE  \/ Ends(m.flags, o, {})
           \/ m.state = "Ready" /\ Moves(m.flags, o, "Draining", {"BeginDrainTimer"})
           \/ m.state \in {"Command", "Response"} /\ Moves(m.flags, o, m.state, {"BeginDrainTimer"})
<1> DEFINE f == m.flags
           g == [f EXCEPT !.draining = TRUE]
           l == [f EXCEPT !.late_redirect_result = TRUE]
           bdt == <<"BeginDrainTimer">>
<1>0. /\ g.redirect_pending = f.redirect_pending /\ g.authenticated = f.authenticated
      /\ g.in_txn = f.in_txn
      /\ f \in Flags /\ l \in Flags /\ l.redirect_pending = f.redirect_pending
      /\ l.authenticated = f.authenticated /\ l.backend_owner = f.backend_owner
  BY DEF Machines, Flags
<1>e. e \in Handled
  BY NamedEvents
<1> USE DEF When, CloseNow, CloseDuringHandshake, ClientGone, BackendGone
<1>1. ASSUME NEW s, o \in Go(s, g, bdt) PROVE Moves(f, o, s, {"BeginDrainTimer"})
  <2> HIDE DEF g
  <2> QED BY <1>0, <1>1, GoMoves, YieldsLiterals, NamedEffects
<1>2. CASE m.state \in {"FrontendHandshake", "BackendHandshake"}
  <2>1. OnFrontendHandshake(f, e) \subseteq Teardown(f, <<>>)
        /\ OnBackendHandshake(f, e) \subseteq Teardown(f, <<>>)
    BY DEF OnFrontendHandshake, OnBackendHandshake
  <2>2. o \in Teardown(f, <<>>)
    BY <1>2, <1>e, <2>1, HandlerOf
  <2> QED BY <1>0, <2>2, TeardownNow
<1>3. CASE m.state = "Ready"
  <2>1. o \in OnReady(f, e)
    BY <1>3, <1>e, HandlerOf
  <2>2. o \in Teardown(f, <<>>) \/ o \in Go("Draining", g, bdt)
    BY <2>1 DEF OnReady, QueueDrain
  <2> QED BY <1>0, <1>1, <1>3, <2>2, TeardownNow
<1>4. CASE m.state \in {"Command", "Response"}
  <2>1. OnAnswer(f, e) = {}
    BY DEF OnAnswer
  <2>2. /\ OnCommand(f, e) = OnAnswer(f, e) \union OnBusy("Command", f, e)
        /\ OnResponse(f, e) = OnAnswer(f, e) \union OnBusy("Response", f, e)
    BY DEF OnCommand, OnResponse
  <2>3. o \in OnBusy(m.state, f, e)
    BY <1>4, <1>e, <2>1, <2>2, HandlerOf
  <2>4. o \in Teardown(f, <<>>) \/ o \in Go(m.state, g, bdt)
    BY <2>3 DEF OnBusy, QueueDrain, DrainDeadline
  <2> QED BY <1>0, <1>1, <1>4, <2>4, TeardownNow
<1>5. CASE m.state = "RedirectPending"
  <2>1. o \in OnRedirectPending(f, e)
    BY <1>5, <1>e, HandlerOf
  <2>2. o \in Teardown(l, <<>>)
    BY <2>1 DEF OnRedirectPending
  <2> HIDE DEF l
  <2>3. Ends(l, o, {})
    BY <1>0, <2>2, TeardownNow
  <2>4. LastEffects(l) = LastEffects(f)
    BY <1>0 DEF LastEffects
  <2> QED BY <1>0, <2>3, <2>4 DEF Ends
<1>6. CASE m.state = "Draining"
  <2>1. o \in OnDraining(f, e)
    BY <1>6, <1>e, HandlerOf
  <2>2. o \in Teardown(f, <<>>)
    BY <2>1 DEF OnDraining
  <2> QED BY <1>0, <2>2, TeardownNow
<1> QED BY <1>2, <1>3, <1>4, <1>5, <1>6

\* The end of a session changes no flag.
LEMMA ClosedOutcome ==
    ASSUME NEW m \in Machines, m.state = "Closing", NEW o \in OnEvent(m, "TeardownComplete")
    PROVE  o.fsm.state = "Closed" /\ o.fsm.flags = m.flags
<1>1. OnClosing(m.flags, "TeardownComplete") = Go("Closed", m.flags, <<>>)
  BY DEF OnClosing, When, ToleratedInClosing, CommandEvents, KnowledgeEvents, CloseNow,
         ClientGone, BackendGone
<1>2. o \in Go("Closed", m.flags, <<>>)
  BY <1>1, HandlerOf, NamedEvents
<1> QED BY <1>2 DEF Go
\* A redirect is dropped only by a session in handshake, or by one that is
\* redirected already.
LEMMA RedirectHeard ==
    ASSUME NEW m \in Machines, ~m.flags.redirect_pending,
           m.state \in {"Ready", "Command", "Response", "Draining"}
    PROVE  OnEvent(m, "ControlRedirect") # {}
<1> DEFINE f == m.flags
           g == [f EXCEPT !.redirect_pending = TRUE]
<1>0. \A s, h, eff : Go(s, h, eff) # {}
  BY DEF Go
<1>1. \A s : QueueRedirect(s, f) # {}
  BY <1>0 DEF QueueRedirect, When
<1> HIDE DEF f
<1>2. OnReady(f, "ControlRedirect") # {}
  <2>1. CASE AtBoundary(f)
    <3>1. Go("RedirectPending", [f EXCEPT !.redirect_pending = TRUE], <<"StartRedirectHandshake">>)
            \subseteq OnReady(f, "ControlRedirect")
      BY <2>1 DEF OnReady, When, f
    <3> QED BY <1>0, <3>1
  <2>2. CASE ~AtBoundary(f)
    <3>1. QueueRedirect("Ready", f) \subseteq OnReady(f, "ControlRedirect")
      BY <2>2 DEF OnReady, When
    <3> QED BY <1>1, <3>1
  <2> QED BY <2>1, <2>2
<1>3. /\ OnCommand(f, "ControlRedirect") # {} /\ OnResponse(f, "ControlRedirect") # {}
      /\ OnDraining(f, "ControlRedirect") # {}
  <2>1. \A s : OnBusy(s, f, "ControlRedirect") # {}
    BY <1>1 DEF OnBusy, When
  <2>2. OnDraining(f, "ControlRedirect") # {}
    BY <1>0 DEF OnDraining, When
  <2> QED BY <2>1, <2>2 DEF OnCommand, OnResponse
<1> QED BY <1>2, <1>3, HandlerOf, NamedEvents DEF f

\* A session that closes takes the rest of a response in silence.
LEMMA SilentInClosing ==
    ASSUME NEW m, m.state \in {"Closing", "Closed"}, NEW o,
           NEW e \in {"BackendResponsePart", "BackendResponseTxnOpen",
                      "BackendResponseTxnDone", "BackendResponseErrorComplete"},
           o \in OnEvent(m, e)
    PROVE  o.effects = <<>>
<1>1. o \in OnClosing(m.flags, e)
  BY DEF OnEvent, When, TakesKnowledge
<1>2. o \in Go("Closing", m.flags, <<>>)
  BY <1>1 DEF OnClosing, When
<1> QED BY <1>2 DEF Go

\* An answer that only forwards the response finishes neither in a teardown nor
\* in a migration, and no other outcome of it does.
LEMMA FinishesPlainly ==
    ASSUME NEW g, NEW o, NEW p, Finishes(g, o, {"ForwardResponseToClient"}),
           Finishes(g, p, {"ForwardResponseToClient"}),
           p.effects = <<"ForwardResponseToClient">>
    PROVE  \/ Moves(g, o, "Ready", {"ForwardResponseToClient"})
           \/ Moves(g, o, "Draining", {"ForwardResponseToClient"})
<1>1. \A x : Emits(p.effects, x) <=> x = "ForwardResponseToClient"
  BY YieldsLiterals, NamedEffects
<1>2. "CloseClient" \in LastEffects(g)
  BY DEF LastEffects
<1>3. ~Ends(g, p, {"ForwardResponseToClient"})
  BY <1>1, <1>2 DEF Ends, Yields
<1>4. ~Moves(g, p, "RedirectPending", {"ForwardResponseToClient"} \union {"StartRedirectHandshake"})
  BY <1>1 DEF Moves, Yields
<1>5. ~(AtBoundary(g) /\ (g.draining \/ g.redirect_pending))
  BY <1>3, <1>4 DEF Finishes
<1> QED BY <1>5 DEF Finishes

=============================================================================
