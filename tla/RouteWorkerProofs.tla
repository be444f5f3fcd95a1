-------------------------- MODULE RouteWorkerProofs --------------------------
(***************************************************************************)
(* Proofs about RouteWorker, for any backends, sessions, capacity and      *)
(* bounds.  The envelopes of a session have tokens of their own, wherever  *)
(* they are (DistinctIn); what the ledger waits for is one of them         *)
(* (Awaited), and a command the worker has sent and not yet admitted is    *)
(* too (SentIsCarried).  An account that is charged in any way stays the   *)
(* account of its backend through every refresh (ChargedKnown).            *)
(***************************************************************************)
EXTENDS RouteWorker, FiniteSetTheorems, SequenceTheorems, TLAPS

Redirects == [kind : {"redirect"}, seq : Nat \ {0}, to : Accounts]
Closes == [kind : {"close"}, seq : Nat \ {0}, to : Accounts]
Commands == Redirects \cup Closes
SourceSets == [gen : Nat, members : SUBSET Backends, healthy : SUBSET Backends,
               failed : SUBSET Backends]
KnownBackends == [here : BOOLEAN, seq : Nat, healthy : BOOLEAN, since : {"no", "fresh", "due"}]
Routers == [known : [Backends -> KnownBackends], observed : Nat, supports : BOOLEAN,
            paced : BOOLEAN]
Ledgers == [stage : {"none", "idle", "pending", "active"}, at : Accounts,
            redirect : Redirects \cup {NoEnvelope}, closing : Nat, cool : BOOLEAN]
Fifos == [registered : BOOLEAN, closed : BOOLEAN, entries : Seq(Commands)]
Owners == [pc : {"new", "routing", "dialing", "active", "ending", "release", "closed"},
           tried : SUBSET Backends, redirect : Redirects \cup {NoEnvelope},
           close : Closes \cup {NoEnvelope}, dropping : Seq(Commands)]
Sent == [session : Sessions \cup {0}, envelope : Commands \cup {NoEnvelope}, accepted : BOOLEAN]
Workers == [pc : {"wait", "woken", "captured", "offer", "admit", "close", "confirm", "stopped"},
            seen : Nat, tick : BOOLEAN, candidate : Nat, todo : SUBSET Sessions,
            to : Accounts, budget : 0 .. Cardinality(Sessions), sent : Sent]

\* The types of the variables, as sets.
Types ==
    /\ bounds \in Bounds
    /\ source \in SourceSets /\ source.gen <= bounds.publications
    /\ router \in Routers
    /\ ledger \in [Sessions -> Ledgers]
    /\ fifo \in [Sessions -> Fifos]
    /\ owner \in [Sessions -> Owners]
    /\ worker \in Workers

\* The envelopes in a FIFO, in the two places of an owner and on their way out
\* have tokens of their own.
Apart(x, y) == x = NoEnvelope \/ y = NoEnvelope \/ x.seq # y.seq
DistinctIn(e, r, c, d) ==
    /\ \A i, j \in 1 .. Len(e) : i # j => e[i].seq # e[j].seq
    /\ \A i, j \in 1 .. Len(d) : i # j => d[i].seq # d[j].seq
    /\ \A i \in 1 .. Len(e), j \in 1 .. Len(d) : e[i].seq # d[j].seq
    /\ \A i \in 1 .. Len(e) : Apart(e[i], r) /\ Apart(e[i], c)
    /\ \A j \in 1 .. Len(d) : Apart(d[j], r) /\ Apart(d[j], c)
    /\ Apart(r, c)
ItemsIn(e, r, c, d) ==
    ({r, c} \cup {e[i] : i \in 1 .. Len(e)} \cup {d[j] : j \in 1 .. Len(d)}) \ {NoEnvelope}
Items(f, o) == ItemsIn(f.entries, o.redirect, o.close, o.dropping)

\* How far a session is says which of its places are in use.
Phases(f, o, l) ==
    /\ o.pc = "new" => l.stage = "none"
    /\ o.pc = "routing" => l.stage = "idle"
    /\ o.pc = "dialing" => l.stage = "pending"
    /\ o.pc \in {"new", "routing", "dialing"} => Items(f, o) = {}
    /\ o.pc = "active" => o.close = NoEnvelope
    /\ Len(f.entries) <= Capacity
    /\ o.pc \notin {"release", "closed"} => Len(o.dropping) <= 1
    /\ o.pc \in {"release", "closed"} =>
         f.closed /\ f.entries = <<>> /\ Len(o.dropping) <= Capacity + 2

\* What the ledger waits for is with the session.
Awaited(f, o, l) ==
    /\ l.redirect # NoEnvelope => l.redirect \in Items(f, o)
    /\ l.closing # 0 => \E e \in Items(f, o) : e \in Closes /\ e.seq = l.closing
    /\ l.stage # "active" => l.redirect = NoEnvelope /\ l.closing = 0
    /\ l.stage \notin {"active", "pending"} => l.at = NoAccount

\* A session: its FIFO, its owner and its entry in the ledger.
SessionInv(f, o, l) ==
    /\ f \in Fifos /\ o \in Owners /\ l \in Ledgers
    /\ DistinctIn(f.entries, o.redirect, o.close, o.dropping)
    /\ Phases(f, o, l) /\ Awaited(f, o, l)

KnownTo(r, a) == a # NoAccount => Account(r, a.id) = a /\ a.id \in Here(r)

\* The command the worker has sent is with the session if it was accepted, and
\* the ledger has not changed since it was offered.
SentIsCarried ==
    worker.pc \in {"admit", "confirm"} =>
        LET s == worker.sent.session
            e == worker.sent.envelope
        IN  /\ s \in Sessions /\ ledger[s].stage = "active" /\ ledger[s].closing = 0
            /\ worker.pc = "admit" =>
                 /\ e \in Redirects /\ ledger[s].redirect = NoEnvelope
                 /\ worker.budget > 0 /\ KnownTo(router, e.to)
            /\ worker.pc = "confirm" => e \in Closes
            /\ worker.sent.accepted => e \in Items(fifo[s], owner[s])

\* Every account that is charged, or will be, is that of its backend.
ChargedKnown ==
    /\ \A s \in Sessions : KnownTo(router, ledger[s].at) /\ KnownTo(router, ledger[s].redirect.to)
    /\ worker.pc \in {"offer", "admit"} => KnownTo(router, worker.to)
    /\ worker.pc \notin {"offer", "admit"} => worker.to = NoAccount

\* The inductive invariant.
IInv ==
    /\ Types /\ SentIsCarried /\ ChargedKnown
    /\ \A s \in Sessions : SessionInv(fifo[s], owner[s], ledger[s])

-----------------------------------------------------------------------------
(* Envelopes                                                               *)

Places == Commands \cup {NoEnvelope}

LEMMA CommandsAreReal == NoEnvelope \notin Commands /\ \A x \in Commands : x.seq \in Nat \ {0}
BY DEF NoEnvelope, Commands, Redirects, Closes

LEMMA ItemsAre ==
    ASSUME NEW e \in Seq(Commands), NEW d \in Seq(Commands), NEW r \in Places, NEW c \in Places
    PROVE  /\ ItemsIn(e, r, c, d) \subseteq Commands
           /\ \A x \in Commands : x \in ItemsIn(e, r, c, d) <=>
                \/ x = r \/ x = c
                \/ \E i \in 1 .. Len(e) : x = e[i]
                \/ \E j \in 1 .. Len(d) : x = d[j]
BY CommandsAreReal DEF ItemsIn, Places

LEMMA SameItems ==
    ASSUME NEW e \in Seq(Commands), NEW d \in Seq(Commands), NEW r \in Places, NEW c \in Places,
           DistinctIn(e, r, c, d), NEW x \in ItemsIn(e, r, c, d), NEW y \in ItemsIn(e, r, c, d),
           x.seq = y.seq
    PROVE  x = y
<1>1. x \in Commands /\ y \in Commands /\ x # NoEnvelope /\ y # NoEnvelope
  BY CommandsAreReal, ItemsAre
<1>2. \/ x = r \/ x = c
      \/ \E i \in 1 .. Len(e) : x = e[i]
      \/ \E j \in 1 .. Len(d) : x = d[j]
  BY <1>1, ItemsAre
<1>3. \/ y = r \/ y = c
      \/ \E i \in 1 .. Len(e) : y = e[i]
      \/ \E j \in 1 .. Len(d) : y = d[j]
  BY <1>1, ItemsAre
<1>4. CASE x = r
  BY <1>1, <1>3, <1>4 DEF DistinctIn, Apart
<1>5. CASE x = c
  BY <1>1, <1>3, <1>5 DEF DistinctIn, Apart
<1>6. ASSUME NEW i \in 1 .. Len(e), x = e[i] PROVE x = y
  BY <1>1, <1>3, <1>6 DEF DistinctIn, Apart
<1>7. ASSUME NEW j \in 1 .. Len(d), x = d[j] PROVE x = y
  BY <1>1, <1>3, <1>7 DEF DistinctIn, Apart
<1> QED BY <1>2, <1>4, <1>5, <1>6, <1>7

\* A command with a new token is put into the FIFO.
LEMMA Appended ==
    ASSUME NEW e \in Seq(Commands), NEW d \in Seq(Commands), NEW r \in Places, NEW c \in Places,
           DistinctIn(e, r, c, d), NEW x \in Commands,
           \A y \in ItemsIn(e, r, c, d) : y.seq # x.seq
    PROVE  /\ DistinctIn(Append(e, x), r, c, d)
           /\ ItemsIn(Append(e, x), r, c, d) = ItemsIn(e, r, c, d) \cup {x}
<1> DEFINE a == Append(e, x)
<1>1. /\ a \in Seq(Commands) /\ Len(a) = Len(e) + 1 /\ Len(e) \in Nat
      /\ \A i \in 1 .. Len(e) : a[i] = e[i]
      /\ a[Len(e) + 1] = x
  OBVIOUS
<1>2. \A i \in 1 .. Len(a) : i \in 1 .. Len(e) \/ i = Len(e) + 1
  BY <1>1
<1>3. /\ \A i \in 1 .. Len(e) : e[i].seq # x.seq
      /\ \A j \in 1 .. Len(d) : d[j].seq # x.seq
      /\ Apart(x, r) /\ Apart(x, c)
  <2>1. \A i \in 1 .. Len(e) : e[i] \in ItemsIn(e, r, c, d)
    BY ItemsAre
  <2>2. \A i \in 1 .. Len(d) : d[i] \in ItemsIn(e, r, c, d)
    BY ItemsAre
  <2>3. \A y \in {r, c} : y # NoEnvelope => y \in ItemsIn(e, r, c, d)
    BY DEF ItemsIn
  <2> QED BY <2>1, <2>2, <2>3 DEF Apart
<1> HIDE DEF a
<1>4. DistinctIn(a, r, c, d)
  <2>1. ASSUME NEW i \in 1 .. Len(a), NEW j \in 1 .. Len(a), i # j PROVE a[i].seq # a[j].seq
    <3>1. CASE i \in 1 .. Len(e) /\ j \in 1 .. Len(e)
      BY <1>1, <2>1, <3>1 DEF DistinctIn
    <3>2. CASE i \in 1 .. Len(e) /\ j = Len(e) + 1
      BY <1>1, <1>3, <3>2
    <3>3. CASE i = Len(e) + 1 /\ j \in 1 .. Len(e)
      BY <1>1, <1>3, <3>3
    <3> QED BY <1>2, <2>1, <3>1, <3>2, <3>3
  <2>2. ASSUME NEW i \in 1 .. Len(a)
        PROVE  Apart(a[i], r) /\ Apart(a[i], c) /\ \A j \in 1 .. Len(d) : a[i].seq # d[j].seq
    <3>1. CASE i \in 1 .. Len(e)
      BY <1>1, <3>1 DEF DistinctIn
    <3>2. CASE i = Len(e) + 1
      BY <1>1, <1>3, <3>2
    <3> QED BY <1>2, <3>1, <3>2
  <2>3. /\ \A i, j \in 1 .. Len(d) : i # j => d[i].seq # d[j].seq
        /\ \A j \in 1 .. Len(d) : Apart(d[j], r) /\ Apart(d[j], c)
        /\ Apart(r, c)
    BY DEF DistinctIn
  <2> QED BY <2>1, <2>2, <2>3 DEF DistinctIn
<1>5. ItemsIn(a, r, c, d) = ItemsIn(e, r, c, d) \cup {x}
  <2>1. ASSUME NEW y \in Commands
        PROVE  (\E i \in 1 .. Len(a) : y = a[i]) <=> ((\E i \in 1 .. Len(e) : y = e[i]) \/ y = x)
    <3>1. ASSUME NEW i \in 1 .. Len(e) PROVE i \in 1 .. Len(a)
      BY <1>1
    <3>2. Len(e) + 1 \in 1 .. Len(a)
      BY <1>1
    <3> QED BY <1>1, <1>2, <3>1, <3>2
  <2>2. ItemsIn(a, r, c, d) \subseteq Commands /\ ItemsIn(e, r, c, d) \subseteq Commands
    BY <1>1, ItemsAre
  <2>3. ASSUME NEW y \in Commands
        PROVE  y \in ItemsIn(a, r, c, d) <=> y \in ItemsIn(e, r, c, d) \/ y = x
    <3>1. y \in ItemsIn(a, r, c, d) <=> \/ y = r \/ y = c
                                        \/ \E i \in 1 .. Len(a) : y = a[i]
                                        \/ \E j \in 1 .. Len(d) : y = d[j]
      BY <1>1, ItemsAre
    <3>2. y \in ItemsIn(e, r, c, d) <=> \/ y = r \/ y = c
                                        \/ \E i \in 1 .. Len(e) : y = e[i]
                                        \/ \E j \in 1 .. Len(d) : y = d[j]
      BY ItemsAre
    <3> QED BY <2>1, <3>1, <3>2
  <2> QED BY <2>2, <2>3
<1> QED BY <1>4, <1>5 DEF a

\* The first command of a sequence and the others.
LEMMA HeadAndTail ==
    ASSUME NEW e \in Seq(Commands), e # <<>>
    PROVE  /\ Head(e) \in Commands /\ Tail(e) \in Seq(Commands)
           /\ Len(e) \in Nat /\ Len(e) >= 1 /\ Len(Tail(e)) = Len(e) - 1
           /\ Head(e) = e[1]
           /\ \A i \in 1 .. Len(Tail(e)) : i + 1 \in 1 .. Len(e) /\ Tail(e)[i] = e[i + 1]
           /\ \A y : (\E i \in 1 .. Len(e) : y = e[i])
                       <=> (y = Head(e) \/ \E i \in 1 .. Len(Tail(e)) : y = Tail(e)[i])
<1>1. /\ Head(e) \in Commands /\ Tail(e) \in Seq(Commands)
      /\ Len(e) \in Nat /\ Len(e) >= 1 /\ Len(Tail(e)) = Len(e) - 1
      /\ Head(e) = e[1]
  OBVIOUS
<1>2. \A i \in 1 .. Len(Tail(e)) : i + 1 \in 1 .. Len(e) /\ Tail(e)[i] = e[i + 1]
  BY <1>1
<1>3. ASSUME NEW y, NEW i \in 1 .. Len(e), y = e[i]
      PROVE  y = Head(e) \/ \E k \in 1 .. Len(Tail(e)) : y = Tail(e)[k]
  <2>1. CASE i = 1
    BY <1>1, <1>3, <2>1
  <2>2. CASE i # 1
    <3>1. i - 1 \in 1 .. Len(Tail(e)) /\ (i - 1) + 1 = i
      BY <1>1, <2>2
    <3>2. Tail(e)[i - 1] = e[i]
      BY <1>2, <3>1
    <3> QED BY <1>3, <3>1, <3>2
  <2> QED BY <2>1, <2>2
<1>4. ASSUME NEW y, y = Head(e) \/ \E k \in 1 .. Len(Tail(e)) : y = Tail(e)[k]
      PROVE  \E i \in 1 .. Len(e) : y = e[i]
  <2>1. 1 \in 1 .. Len(e)
    BY <1>1
  <2> QED BY <1>1, <1>2, <1>4, <2>1
<1> QED BY <1>1, <1>2, <1>3, <1>4

\* The tokens of the first and of the others.
LEMMA TailApart ==
    ASSUME NEW e \in Seq(Commands), e # <<>>,
           \A i, j \in 1 .. Len(e) : i # j => e[i].seq # e[j].seq
    PROVE  /\ \A i, j \in 1 .. Len(Tail(e)) : i # j => Tail(e)[i].seq # Tail(e)[j].seq
           /\ \A i \in 1 .. Len(Tail(e)) : Tail(e)[i].seq # Head(e).seq
<1>1. \A i \in 1 .. Len(Tail(e)) : i + 1 \in 1 .. Len(e) /\ i + 1 # 1 /\ Tail(e)[i] = e[i + 1]
  BY HeadAndTail
<1>2. 1 \in 1 .. Len(e) /\ Head(e) = e[1]
  BY HeadAndTail
<1>3. ASSUME NEW i \in 1 .. Len(Tail(e)), NEW j \in 1 .. Len(Tail(e)), i # j
      PROVE  Tail(e)[i].seq # Tail(e)[j].seq
  <2>1. i + 1 # j + 1
    BY <1>3
  <2> QED BY <1>1, <2>1
<1> QED BY <1>1, <1>2, <1>3

\* The first command of the FIFO goes to the redirect place,
LEMMA TakenAsRedirect ==
    ASSUME NEW e \in Seq(Commands), NEW d \in Seq(Commands), NEW c \in Places,
           DistinctIn(e, NoEnvelope, c, d), e # <<>>
    PROVE  /\ DistinctIn(Tail(e), Head(e), c, d)
           /\ ItemsIn(Tail(e), Head(e), c, d) = ItemsIn(e, NoEnvelope, c, d)
<1> DEFINE h == Head(e)
           t == Tail(e)
<1>1. /\ h \in Commands /\ t \in Seq(Commands) /\ h = e[1] /\ 1 \in 1 .. Len(e)
      /\ \A i \in 1 .. Len(t) : i + 1 \in 1 .. Len(e) /\ t[i] = e[i + 1]
  BY HeadAndTail
<1>2. /\ \A i, j \in 1 .. Len(t) : i # j => t[i].seq # t[j].seq
      /\ \A i \in 1 .. Len(t) : t[i].seq # h.seq
  BY TailApart DEF DistinctIn
<1>3. \A y : (\E i \in 1 .. Len(e) : y = e[i]) <=> (y = h \/ \E i \in 1 .. Len(t) : y = t[i])
  BY HeadAndTail
<1> HIDE DEF h, t
<1>4. DistinctIn(t, h, c, d)
  <2>0. \A i \in 1 .. Len(e), j \in 1 .. Len(d) : e[i].seq # d[j].seq
    BY DEF DistinctIn
  <2>1. \A i \in 1 .. Len(t), j \in 1 .. Len(d) : t[i].seq # d[j].seq
    BY <1>1, <2>0
  <2>2. \A i \in 1 .. Len(t) : Apart(t[i], h) /\ Apart(t[i], c)
    <3>1. \A i \in 1 .. Len(t) : Apart(t[i], h)
      BY <1>2 DEF Apart
    <3>2. \A i \in 1 .. Len(t) : Apart(t[i], c)
      BY <1>1 DEF DistinctIn
    <3> QED BY <3>1, <3>2
  <2>3. \A j \in 1 .. Len(d) : Apart(d[j], h) /\ Apart(d[j], c)
    <3>1. \A j \in 1 .. Len(d) : Apart(d[j], h)
      BY <1>1 DEF DistinctIn, Apart
    <3>2. \A j \in 1 .. Len(d) : Apart(d[j], c)
      BY DEF DistinctIn
    <3> QED BY <3>1, <3>2
  <2>4. Apart(h, c)
    BY <1>1 DEF DistinctIn
  <2>5. \A i, j \in 1 .. Len(d) : i # j => d[i].seq # d[j].seq
    BY DEF DistinctIn
  <2> QED BY <1>2, <2>1, <2>2, <2>3, <2>4, <2>5 DEF DistinctIn
<1>5. ItemsIn(t, h, c, d) = ItemsIn(e, NoEnvelope, c, d)
  <2>1. {e[i] : i \in 1 .. Len(e)} = {h} \cup {t[i] : i \in 1 .. Len(t)}
    BY <1>3
  <2> QED BY <1>1, <2>1, CommandsAreReal DEF ItemsIn
<1> QED BY <1>4, <1>5 DEF h, t

\* or is dropped,
LEMMA TakenAndDropped ==
    ASSUME NEW e \in Seq(Commands), NEW r \in Places, NEW c \in Places,
           DistinctIn(e, r, c, <<>>), e # <<>>
    PROVE  /\ DistinctIn(Tail(e), r, c, <<Head(e)>>)
           /\ ItemsIn(Tail(e), r, c, <<Head(e)>>) = ItemsIn(e, r, c, <<>>)
<1> DEFINE h == Head(e)
           t == Tail(e)
           d == <<h>>
<1>1. /\ h \in Commands /\ t \in Seq(Commands) /\ h = e[1] /\ 1 \in 1 .. Len(e)
      /\ \A i \in 1 .. Len(t) : i + 1 \in 1 .. Len(e) /\ t[i] = e[i + 1]
  BY HeadAndTail
<1>2. /\ \A i, j \in 1 .. Len(t) : i # j => t[i].seq # t[j].seq
      /\ \A i \in 1 .. Len(t) : t[i].seq # h.seq
  BY TailApart DEF DistinctIn
<1>3. \A y : (\E i \in 1 .. Len(e) : y = e[i]) <=> (y = h \/ \E i \in 1 .. Len(t) : y = t[i])
  BY HeadAndTail
<1>d. Len(d) = 1 /\ d[1] = h /\ \A j \in 1 .. Len(d) : j = 1
  OBVIOUS
<1>e. \A j \in 1 .. Len(<<>>) : FALSE
  OBVIOUS
<1> HIDE DEF h, t, d
<1>4. DistinctIn(t, r, c, d)
  <2>1. \A i \in 1 .. Len(t), j \in 1 .. Len(d) : t[i].seq # d[j].seq
    BY <1>2, <1>d
  <2>2. \A i, j \in 1 .. Len(d) : i # j => d[i].seq # d[j].seq
    BY <1>d
  <2>3. \A i \in 1 .. Len(e) : Apart(e[i], r) /\ Apart(e[i], c)
    BY DEF DistinctIn
  <2>4. \A i \in 1 .. Len(t) : Apart(t[i], r) /\ Apart(t[i], c)
    BY <1>1, <2>3
  <2>5. \A j \in 1 .. Len(d) : Apart(d[j], r) /\ Apart(d[j], c)
    BY <1>1, <1>d, <2>3
  <2>6. Apart(r, c)
    BY DEF DistinctIn
  <2> QED BY <1>2, <2>1, <2>2, <2>4, <2>5, <2>6 DEF DistinctIn
<1>5. ItemsIn(t, r, c, d) = ItemsIn(e, r, c, <<>>)
  <2>1. {d[j] : j \in 1 .. Len(d)} = {h} /\ {<<>>[j] : j \in 1 .. Len(<<>>)} = {}
    BY <1>d, <1>e
  <2>2. {e[i] : i \in 1 .. Len(e)} = {h} \cup {t[i] : i \in 1 .. Len(t)}
    BY <1>3
  <2> QED BY <2>1, <2>2 DEF ItemsIn
<1> QED BY <1>4, <1>5 DEF h, t, d

\* or is the close, and a redirect that is kept is dropped.
LEMMA TakenAsClose ==
    ASSUME NEW e \in Seq(Commands), NEW r \in Places,
           DistinctIn(e, r, NoEnvelope, <<>>), e # <<>>
    PROVE  /\ DistinctIn(Tail(e), NoEnvelope, Head(e), Kept(r))
           /\ ItemsIn(Tail(e), NoEnvelope, Head(e), Kept(r)) = ItemsIn(e, r, NoEnvelope, <<>>)
<1> DEFINE h == Head(e)
           t == Tail(e)
           d == Kept(r)
<1>1. /\ h \in Commands /\ t \in Seq(Commands) /\ h = e[1] /\ 1 \in 1 .. Len(e)
      /\ \A i \in 1 .. Len(t) : i + 1 \in 1 .. Len(e) /\ t[i] = e[i + 1]
  BY HeadAndTail
<1>2. /\ \A i, j \in 1 .. Len(t) : i # j => t[i].seq # t[j].seq
      /\ \A i \in 1 .. Len(t) : t[i].seq # h.seq
  BY TailApart DEF DistinctIn
<1>3. \A y : (\E i \in 1 .. Len(e) : y = e[i]) <=> (y = h \/ \E i \in 1 .. Len(t) : y = t[i])
  BY HeadAndTail
<1>d. /\ r # NoEnvelope => 1 \in 1 .. Len(d) /\ d[1] = r /\ \A j \in 1 .. Len(d) : j = 1 /\ d[j] = r
      /\ r = NoEnvelope => \A j \in 1 .. Len(d) : FALSE
  BY DEF Kept
<1>e. \A j \in 1 .. Len(<<>>) : FALSE
  OBVIOUS
<1> HIDE DEF h, t, d
<1>4. DistinctIn(t, NoEnvelope, h, d)
  <2>1. CASE r = NoEnvelope
    BY <1>1, <1>2, <1>d, <2>1, CommandsAreReal DEF DistinctIn, Apart
  <2>2. CASE r # NoEnvelope
    <3>1. /\ \A i \in 1 .. Len(e) : e[i].seq # r.seq /\ e[i] # NoEnvelope
      BY <2>2, CommandsAreReal DEF DistinctIn, Apart
    <3>2. h.seq # r.seq /\ \A i \in 1 .. Len(t) : t[i].seq # r.seq
      BY <1>1, <3>1
    <3> QED BY <1>2, <1>d, <2>2, <3>2 DEF DistinctIn, Apart
  <2> QED BY <2>1, <2>2
<1>5. ItemsIn(t, NoEnvelope, h, d) = ItemsIn(e, r, NoEnvelope, <<>>)
  <2>1. /\ {d[j] : j \in 1 .. Len(d)} \ {NoEnvelope} = {r} \ {NoEnvelope}
        /\ {<<>>[j] : j \in 1 .. Len(<<>>)} = {}
    <3>1. CASE r = NoEnvelope
      BY <1>d, <1>e, <3>1
    <3>2. CASE r # NoEnvelope
      BY <1>d, <1>e, <3>2
    <3> QED BY <3>1, <3>2
  <2>2. {e[i] : i \in 1 .. Len(e)} = {h} \cup {t[i] : i \in 1 .. Len(t)}
    BY <1>3
  <2> QED BY <2>1, <2>2 DEF ItemsIn
<1> QED BY <1>4, <1>5 DEF h, t, d

\* The redirect of an owner is over.
LEMMA RedirectGone ==
    ASSUME NEW e \in Seq(Commands), NEW d \in Seq(Commands), NEW r \in Places, NEW c \in Places,
           DistinctIn(e, r, c, d), r # NoEnvelope
    PROVE  /\ DistinctIn(e, NoEnvelope, c, d)
           /\ ItemsIn(e, NoEnvelope, c, d) = ItemsIn(e, r, c, d) \ {r}
<1>1. DistinctIn(e, NoEnvelope, c, d)
  BY DEF DistinctIn, Apart
<1>2. /\ \A i \in 1 .. Len(e) : e[i] # r
      /\ \A i \in 1 .. Len(d) : d[i] # r
      /\ c # r
  <2>1. \A i \in 1 .. Len(e) : e[i] # NoEnvelope /\ Apart(e[i], r)
    BY CommandsAreReal DEF DistinctIn
  <2>2. \A i \in 1 .. Len(d) : d[i] # NoEnvelope /\ Apart(d[i], r)
    BY CommandsAreReal DEF DistinctIn
  <2>3. Apart(r, c)
    BY DEF DistinctIn
  <2> QED BY <2>1, <2>2, <2>3 DEF Apart
<1>3. ItemsIn(e, NoEnvelope, c, d) = ItemsIn(e, r, c, d) \ {r}
  BY <1>2 DEF ItemsIn
<1> QED BY <1>1, <1>3

\* The guard of the first envelope that was dropped has run.
LEMMA DroppedGone ==
    ASSUME NEW e \in Seq(Commands), NEW d \in Seq(Commands), NEW r \in Places, NEW c \in Places,
           DistinctIn(e, r, c, d), d # <<>>
    PROVE  /\ DistinctIn(e, r, c, Tail(d))
           /\ ItemsIn(e, r, c, Tail(d)) = ItemsIn(e, r, c, d) \ {Head(d)}
           /\ Head(d) \in ItemsIn(e, r, c, d)
<1> DEFINE h == Head(d)
           t == Tail(d)
<1>1. /\ h \in Commands /\ t \in Seq(Commands) /\ h = d[1] /\ 1 \in 1 .. Len(d)
      /\ \A i \in 1 .. Len(t) : i + 1 \in 1 .. Len(d) /\ t[i] = d[i + 1]
  BY HeadAndTail
<1>2. /\ \A i, j \in 1 .. Len(t) : i # j => t[i].seq # t[j].seq
      /\ \A i \in 1 .. Len(t) : t[i].seq # h.seq
  BY TailApart DEF DistinctIn
<1>3. \A y : (\E i \in 1 .. Len(d) : y = d[i]) <=> (y = h \/ \E i \in 1 .. Len(t) : y = t[i])
  BY HeadAndTail
<1> HIDE DEF h, t
<1>4. DistinctIn(e, r, c, t)
  <2>0. \A i \in 1 .. Len(e), j \in 1 .. Len(d) : e[i].seq # d[j].seq
    BY DEF DistinctIn
  <2>1. \A i \in 1 .. Len(e), j \in 1 .. Len(t) : e[i].seq # t[j].seq
    BY <1>1, <2>0
  <2>2. \A j \in 1 .. Len(t) : Apart(t[j], r) /\ Apart(t[j], c)
    BY <1>1 DEF DistinctIn
  <2>3. /\ \A i, j \in 1 .. Len(e) : i # j => e[i].seq # e[j].seq
        /\ \A i \in 1 .. Len(e) : Apart(e[i], r) /\ Apart(e[i], c)
        /\ Apart(r, c)
    BY DEF DistinctIn
  <2> QED BY <1>2, <2>1, <2>2, <2>3 DEF DistinctIn
<1>5. /\ \A i \in 1 .. Len(e) : e[i] # h
      /\ \A i \in 1 .. Len(t) : t[i] # h
      /\ c # h /\ r # h /\ h # NoEnvelope
  BY <1>1, <1>2, CommandsAreReal DEF DistinctIn, Apart
<1>6. {d[i] : i \in 1 .. Len(d)} = {h} \cup {t[i] : i \in 1 .. Len(t)}
  BY <1>3
<1>7. ItemsIn(e, r, c, t) = ItemsIn(e, r, c, d) \ {h} /\ h \in ItemsIn(e, r, c, d)
  BY <1>5, <1>6 DEF ItemsIn
<1> QED BY <1>4, <1>7 DEF h, t

LEMMA Pair ==
    ASSUME NEW C, NEW u \in Seq(C), NEW v \in Seq(C), Len(u) = 1, Len(v) = 1
    PROVE  u \o v \in Seq(C) /\ Len(u \o v) = 2 /\ (u \o v)[1] = u[1] /\ (u \o v)[2] = v[1]
<1>1. /\ 2 \in 1 .. Len(u) + Len(v) /\ ~(2 <= Len(u)) /\ 2 - Len(u) = 1
      /\ 1 \in 1 .. Len(u) + Len(v) /\ 1 <= Len(u)
  OBVIOUS
<1>2. (u \o v)[2] = v[2 - Len(u)]
  BY <1>1, ConcatProperties
<1>3. (u \o v)[1] = u[1]
  BY <1>1, ConcatProperties
<1>4. u \o v \in Seq(C) /\ Len(u \o v) = 2
  <2>1. u \o v \in Seq(C) /\ Len(u \o v) = Len(u) + Len(v)
    BY ConcatProperties
  <2> QED BY <2>1
<1> QED BY <1>1, <1>2, <1>3, <1>4

LEMMA Single == ASSUME NEW C, NEW r \in C PROVE <<r>> \in Seq(C) /\ Len(<<r>>) = 1 /\ <<r>>[1] = r
OBVIOUS

LEMMA PairOfSingles ==
    ASSUME NEW C, NEW r \in C, NEW c \in C
    PROVE  /\ <<r>> \o <<c>> \in Seq(C) /\ Len(<<r>> \o <<c>>) = 2
           /\ (<<r>> \o <<c>>)[1] = r /\ (<<r>> \o <<c>>)[2] = c
<1> DEFINE u == <<r>>
           v == <<c>>
<1>1. u \in Seq(C) /\ Len(u) = 1 /\ u[1] = r
  BY Single
<1>2. v \in Seq(C) /\ Len(v) = 1 /\ v[1] = c
  BY Single
<1> HIDE DEF u, v
<1>3. u \o v \in Seq(C) /\ Len(u \o v) = 2 /\ (u \o v)[1] = u[1] /\ (u \o v)[2] = v[1]
  BY <1>1, <1>2, Pair
<1> QED BY <1>1, <1>2, <1>3 DEF u, v

\* All that an owner and its FIFO hold is dropped at the end.
LEMMA AllDropped ==
    ASSUME NEW e \in Seq(Commands), NEW r \in Places, NEW c \in Places,
           DistinctIn(e, r, c, <<>>)
    PROVE  /\ DistinctIn(<<>>, NoEnvelope, NoEnvelope, (Kept(r) \o Kept(c)) \o e)
           /\ ItemsIn(<<>>, NoEnvelope, NoEnvelope, (Kept(r) \o Kept(c)) \o e)
                = ItemsIn(e, r, c, <<>>)
           /\ (Kept(r) \o Kept(c)) \o e \in Seq(Commands)
           /\ Len((Kept(r) \o Kept(c)) \o e) <= Len(e) + 2
<1> DEFINE k == Kept(r) \o Kept(c)
           d == k \o e
<1>1. /\ k \in Seq(Commands) /\ Len(k) \in 0 .. 2
      /\ \A i, j \in 1 .. Len(k) : i # j => k[i].seq # k[j].seq
      /\ \A i \in 1 .. Len(k) : k[i] \in {r, c} \ {NoEnvelope}
      /\ \A x \in {r, c} \ {NoEnvelope} : \E i \in 1 .. Len(k) : k[i] = x
  <2>1. CASE r = NoEnvelope /\ c = NoEnvelope
    <3>1. k = <<>>
      BY <2>1 DEF Kept
    <3> QED BY <2>1, <3>1
  <2>2. CASE r = NoEnvelope /\ c # NoEnvelope
    <3>1. k = <<c>> /\ c \in Commands
      BY <2>2 DEF Kept, Places
    <3> QED BY <2>2, <3>1
  <2>3. CASE r # NoEnvelope /\ c = NoEnvelope
    <3>1. k = <<r>> /\ r \in Commands
      BY <2>3 DEF Kept, Places
    <3> QED BY <2>3, <3>1
  <2>4. CASE r # NoEnvelope /\ c # NoEnvelope
    <3>0. r \in Commands /\ c \in Commands /\ r.seq # c.seq
      BY <2>4 DEF Places, DistinctIn, Apart
    <3>1. k \in Seq(Commands) /\ Len(k) = 2 /\ k[1] = r /\ k[2] = c
      <4>1. Kept(r) = <<r>> /\ Kept(c) = <<c>>
        BY <2>4 DEF Kept
      <4> QED BY <3>0, <4>1, PairOfSingles
    <3>3. 1 .. Len(k) = {1, 2}
      BY <3>1
    <3> HIDE DEF k
    <3> QED BY <2>4, <3>0, <3>1, <3>3
  <2> QED BY <2>1, <2>2, <2>3, <2>4
<1> HIDE DEF k
<1>2. /\ d \in Seq(Commands) /\ Len(d) = Len(k) + Len(e)
      /\ \A i \in 1 .. Len(k) : i \in 1 .. Len(d) /\ d[i] = k[i]
      /\ \A i \in 1 .. Len(e) : Len(k) + i \in 1 .. Len(d) /\ d[Len(k) + i] = e[i]
      /\ \A i \in 1 .. Len(d) : i \notin 1 .. Len(k) =>
            /\ i - Len(k) \in 1 .. Len(e) /\ d[i] = e[i - Len(k)]
            /\ Len(k) + (i - Len(k)) = i
  BY <1>1
<1> HIDE DEF d
<1>3. \A i \in 1 .. Len(k), j \in 1 .. Len(e) : k[i].seq # e[j].seq
  <2>1. \A j \in 1 .. Len(e) : Apart(e[j], r) /\ Apart(e[j], c) /\ e[j] # NoEnvelope
    BY CommandsAreReal DEF DistinctIn
  <2> QED BY <1>1, <2>1 DEF Apart
<1>4. ASSUME NEW i \in 1 .. Len(d), NEW j \in 1 .. Len(d), i # j PROVE d[i].seq # d[j].seq
  <2>1. CASE i \in 1 .. Len(k) /\ j \in 1 .. Len(k)
    BY <1>1, <1>2, <1>4, <2>1
  <2>2. CASE i \in 1 .. Len(k) /\ j \notin 1 .. Len(k)
    <3>1. d[i] = k[i] /\ j - Len(k) \in 1 .. Len(e) /\ d[j] = e[j - Len(k)]
      BY <1>2, <2>2
    <3> QED BY <1>3, <2>2, <3>1
  <2>3. CASE i \notin 1 .. Len(k) /\ j \in 1 .. Len(k)
    <3>1. d[j] = k[j] /\ i - Len(k) \in 1 .. Len(e) /\ d[i] = e[i - Len(k)]
      BY <1>2, <2>3
    <3> QED BY <1>3, <2>3, <3>1
  <2>4. CASE i \notin 1 .. Len(k) /\ j \notin 1 .. Len(k)
    <3>1. i - Len(k) # j - Len(k)
      BY <1>2, <1>4, <2>4
    <3>2. /\ i - Len(k) \in 1 .. Len(e) /\ d[i] = e[i - Len(k)]
          /\ j - Len(k) \in 1 .. Len(e) /\ d[j] = e[j - Len(k)]
      BY <1>2, <2>4
    <3>3. \A m, n \in 1 .. Len(e) : m # n => e[m].seq # e[n].seq
      BY DEF DistinctIn
    <3> QED BY <3>1, <3>2, <3>3
  <2> QED BY <2>1, <2>2, <2>3, <2>4
<1>5. \A j \in 1 .. Len(<<>>) : FALSE
  OBVIOUS
<1>6. DistinctIn(<<>>, NoEnvelope, NoEnvelope, d)
  BY <1>4, <1>5 DEF DistinctIn, Apart
<1>7. {d[i] : i \in 1 .. Len(d)} = ({r, c} \ {NoEnvelope}) \cup {e[i] : i \in 1 .. Len(e)}
  <2>1. ASSUME NEW i \in 1 .. Len(d)
        PROVE  d[i] \in ({r, c} \ {NoEnvelope}) \cup {e[j] : j \in 1 .. Len(e)}
    <3>1. CASE i \in 1 .. Len(k)
      <4>1. d[i] = k[i]
        BY <1>2, <3>1
      <4> QED BY <1>1, <3>1, <4>1
    <3>2. CASE i \notin 1 .. Len(k)
      <4>1. i - Len(k) \in 1 .. Len(e) /\ d[i] = e[i - Len(k)]
        BY <1>2, <3>2
      <4> QED BY <4>1
    <3> QED BY <3>1, <3>2
  <2>2. ASSUME NEW x \in {r, c} \ {NoEnvelope} PROVE \E i \in 1 .. Len(d) : d[i] = x
    BY <1>1, <1>2
  <2>3. ASSUME NEW j \in 1 .. Len(e) PROVE \E i \in 1 .. Len(d) : d[i] = e[j]
    BY <1>2
  <2>4. ASSUME NEW x \in ({r, c} \ {NoEnvelope}) \cup {e[j] : j \in 1 .. Len(e)}
        PROVE  \E i \in 1 .. Len(d) : d[i] = x
    BY <2>2, <2>3
  <2> QED BY <2>1, <2>4
<1>8. ItemsIn(<<>>, NoEnvelope, NoEnvelope, d) = ItemsIn(e, r, c, <<>>)
  <2>1. {<<>>[j] : j \in 1 .. Len(<<>>)} = {}
    BY <1>5
  <2> QED BY <1>7, <2>1 DEF ItemsIn
<1>9. Len(d) <= Len(e) + 2
  <2>1. Len(e) \in Nat /\ Len(k) \in 0 .. 2 /\ Len(d) = Len(k) + Len(e)
    BY <1>1, <1>2
  <2>2. \A m \in Nat, n \in 0 .. 2 : n + m <= m + 2
    OBVIOUS
  <2> QED BY <2>1, <2>2
<1> QED BY <1>2, <1>6, <1>8, <1>9 DEF d, k

-----------------------------------------------------------------------------
(* All that a session carries, as one sequence                             *)

LEMMA Two == ASSUME NEW C, NEW r \in C, NEW c \in C
             PROVE  <<r, c>> \in Seq(C) /\ Len(<<r, c>>) = 2 /\ <<r, c>>[1] = r /\ <<r, c>>[2] = c
OBVIOUS

\* A concatenation, by the indices of its parts.
JoinOf(k, u, v) ==
    /\ Len(k) = Len(u) + Len(v)
    /\ \A i \in 1 .. Len(u) : i \in 1 .. Len(k) /\ k[i] = u[i]
    /\ \A j \in 1 .. Len(v) : Len(u) + j \in 1 .. Len(k) /\ k[Len(u) + j] = v[j]
    /\ \A i \in 1 .. Len(k) : i \in 1 .. Len(u) \/ \E j \in 1 .. Len(v) : i = Len(u) + j

LEMMA Joined ==
    ASSUME NEW C, NEW u \in Seq(C), NEW v \in Seq(C)
    PROVE  u \o v \in Seq(C) /\ JoinOf(u \o v, u, v)
<1>1. u \o v \in Seq(C) /\ Len(u \o v) = Len(u) + Len(v) /\ Len(u) \in Nat /\ Len(v) \in Nat
  OBVIOUS
<1>2. \A i \in 1 .. Len(u) : i \in 1 .. Len(u \o v) /\ (u \o v)[i] = u[i]
  BY <1>1, ConcatProperties
<1>3. ASSUME NEW j \in 1 .. Len(v)
      PROVE  Len(u) + j \in 1 .. Len(u \o v) /\ (u \o v)[Len(u) + j] = v[j]
  <2>1. Len(u) + j \in 1 .. Len(u) + Len(v) /\ ~(Len(u) + j <= Len(u)) /\ (Len(u) + j) - Len(u) = j
    BY <1>1
  <2>2. (u \o v)[Len(u) + j] = v[(Len(u) + j) - Len(u)]
    BY <2>1, ConcatProperties
  <2> QED BY <1>1, <2>1, <2>2
<1>4. ASSUME NEW i \in 1 .. Len(u \o v), i \notin 1 .. Len(u)
      PROVE  \E j \in 1 .. Len(v) : i = Len(u) + j
  <2>1. i - Len(u) \in 1 .. Len(v) /\ i = Len(u) + (i - Len(u))
    BY <1>1, <1>4
  <2> QED BY <2>1
<1> QED BY <1>1, <1>2, <1>3, <1>4 DEF JoinOf

CarriedIn(e, r, c, d) == e \o <<r, c>> \o d

PartsOf(k, e, r, c, d) ==
    LET n == Len(e)
    IN  /\ Len(k) = n + 2 + Len(d)
        /\ \A i \in 1 .. n : i \in 1 .. Len(k) /\ k[i] = e[i]
        /\ n + 1 \in 1 .. Len(k) /\ k[n + 1] = r
        /\ n + 2 \in 1 .. Len(k) /\ k[n + 2] = c
        /\ \A j \in 1 .. Len(d) : (n + 2) + j \in 1 .. Len(k) /\ k[(n + 2) + j] = d[j]
        /\ \A i \in 1 .. Len(k) : \/ i \in 1 .. n \/ i = n + 1 \/ i = n + 2
                                  \/ \E j \in 1 .. Len(d) : i = (n + 2) + j

LEMMA CarriedParts ==
    ASSUME NEW C, NEW e \in Seq(C), NEW d \in Seq(C), NEW r \in C, NEW c \in C
    PROVE  CarriedIn(e, r, c, d) \in Seq(C) /\ PartsOf(CarriedIn(e, r, c, d), e, r, c, d)
<1> DEFINE n == Len(e)
           w == <<r, c>>
           m == e \o w
           k == m \o d
<1>1. w \in Seq(C) /\ Len(w) = 2 /\ w[1] = r /\ w[2] = c
  BY Two
<1> HIDE DEF w
<1>2. /\ m \in Seq(C) /\ Len(m) = Len(e) + Len(w)
      /\ \A i \in 1 .. Len(e) : i \in 1 .. Len(m) /\ m[i] = e[i]
      /\ \A j \in 1 .. Len(w) : Len(e) + j \in 1 .. Len(m) /\ m[Len(e) + j] = w[j]
      /\ \A i \in 1 .. Len(m) : i \in 1 .. Len(e) \/ \E j \in 1 .. Len(w) : i = Len(e) + j
  <2>1. m \in Seq(C) /\ JoinOf(m, e, w)
    BY <1>1, Joined
  <2> HIDE DEF m
  <2> QED BY <2>1 DEF JoinOf
<1> HIDE DEF m
<1>3. /\ k \in Seq(C) /\ Len(k) = Len(m) + Len(d)
      /\ \A i \in 1 .. Len(m) : i \in 1 .. Len(k) /\ k[i] = m[i]
      /\ \A j \in 1 .. Len(d) : Len(m) + j \in 1 .. Len(k) /\ k[Len(m) + j] = d[j]
      /\ \A i \in 1 .. Len(k) : i \in 1 .. Len(m) \/ \E j \in 1 .. Len(d) : i = Len(m) + j
  <2>1. k \in Seq(C) /\ JoinOf(k, m, d)
    BY <1>2, Joined
  <2> HIDE DEF k
  <2> QED BY <2>1 DEF JoinOf
<1> HIDE DEF k
<1>4. n \in Nat /\ Len(m) = n + 2 /\ Len(k) = n + 2 + Len(d)
  BY <1>1, <1>2, <1>3
<1>5. 1 \in 1 .. Len(w) /\ 2 \in 1 .. Len(w) /\ \A j \in 1 .. Len(w) : j = 1 \/ j = 2
  BY <1>1
<1>6. n + 1 \in 1 .. Len(m) /\ m[n + 1] = r /\ n + 2 \in 1 .. Len(m) /\ m[n + 2] = c
  BY <1>1, <1>2, <1>5
<1> HIDE DEF n
<1>7. \A i \in 1 .. Len(m) : i \in 1 .. n \/ i = n + 1 \/ i = n + 2
  BY <1>4
<1>8. \A i \in 1 .. n : i \in 1 .. Len(k) /\ k[i] = e[i]
  BY <1>2, <1>3 DEF n
<1>9. n + 1 \in 1 .. Len(k) /\ k[n + 1] = r /\ n + 2 \in 1 .. Len(k) /\ k[n + 2] = c
  BY <1>3, <1>6
<1>10. \A j \in 1 .. Len(d) : (n + 2) + j \in 1 .. Len(k) /\ k[(n + 2) + j] = d[j]
  BY <1>3, <1>4
<1>11. \A i \in 1 .. Len(k) : \/ i \in 1 .. n \/ i = n + 1 \/ i = n + 2
                              \/ \E j \in 1 .. Len(d) : i = (n + 2) + j
  BY <1>3, <1>4, <1>7
<1>12. CarriedIn(e, r, c, d) = k
  BY DEF CarriedIn, k, m, w
<1> QED BY <1>3, <1>4, <1>8, <1>9, <1>10, <1>11, <1>12 DEF n, PartsOf

\* What is carried is what the session's items are, and no two have one token.
LEMMA CarriedItems ==
    ASSUME NEW e \in Seq(Commands), NEW d \in Seq(Commands), NEW r \in Places, NEW c \in Places
    PROVE  LET k == CarriedIn(e, r, c, d)
           IN  /\ k \in Seq(Places) /\ Len(k) = Len(e) + 2 + Len(d)
               /\ \A x \in ItemsIn(e, r, c, d) : \E i \in 1 .. Len(k) : k[i] = x
               /\ DistinctIn(e, r, c, d) =>
                    \A i, j \in 1 .. Len(k) : i # j => Apart(k[i], k[j])
<1> DEFINE n == Len(e)
           k == CarriedIn(e, r, c, d)
<1>0. e \in Seq(Places) /\ d \in Seq(Places)
  BY DEF Places
<1>1. /\ k \in Seq(Places) /\ Len(k) = n + 2 + Len(d) /\ n \in Nat
      /\ \A i \in 1 .. n : i \in 1 .. Len(k) /\ k[i] = e[i]
      /\ n + 1 \in 1 .. Len(k) /\ k[n + 1] = r
      /\ n + 2 \in 1 .. Len(k) /\ k[n + 2] = c
      /\ \A j \in 1 .. Len(d) : (n + 2) + j \in 1 .. Len(k) /\ k[(n + 2) + j] = d[j]
      /\ \A i \in 1 .. Len(k) : \/ i \in 1 .. n \/ i = n + 1 \/ i = n + 2
                                \/ \E j \in 1 .. Len(d) : i = (n + 2) + j
  <2>1. k \in Seq(Places) /\ PartsOf(k, e, r, c, d)
    BY <1>0, CarriedParts
  <2> HIDE DEF k
  <2> QED BY <2>1 DEF PartsOf
<1> HIDE DEF k
<1>2. ASSUME NEW x \in ItemsIn(e, r, c, d) PROVE \E i \in 1 .. Len(k) : k[i] = x
  <2>1. CASE x = r \/ x = c
    BY <1>1, <2>1
  <2>2. ASSUME NEW i \in 1 .. n, x = e[i] PROVE \E m \in 1 .. Len(k) : k[m] = x
    BY <1>1, <2>2
  <2>3. ASSUME NEW j \in 1 .. Len(d), x = d[j] PROVE \E m \in 1 .. Len(k) : k[m] = x
    BY <1>1, <2>3
  <2>4. \/ x = r \/ x = c
        \/ \E i \in 1 .. n : x = e[i]
        \/ \E j \in 1 .. Len(d) : x = d[j]
    BY ItemsAre
  <2> QED BY <2>1, <2>2, <2>3, <2>4
<1>3. ASSUME DistinctIn(e, r, c, d), NEW i \in 1 .. Len(k), NEW j \in 1 .. Len(k), i # j
      PROVE  Apart(k[i], k[j])
  <2>0. \A x, y : Apart(x, y) <=> Apart(y, x)
    BY DEF Apart
  <2>1. CASE i \in 1 .. n /\ j \in 1 .. n
    <3>1. e[i].seq # e[j].seq
      BY <1>3, <2>1 DEF DistinctIn
    <3>2. k[i] = e[i] /\ k[j] = e[j]
      BY <1>1, <2>1
    <3> QED BY <3>1, <3>2 DEF Apart
  <2>2. ASSUME NEW a \in 1 .. n, NEW b \in 1 .. Len(k), b \notin 1 .. n
        PROVE  Apart(k[a], k[b])
    <3>1. CASE b = n + 1
      BY <1>1, <1>3, <3>1 DEF DistinctIn
    <3>2. CASE b = n + 2
      BY <1>1, <1>3, <3>2 DEF DistinctIn
    <3>3. ASSUME NEW y \in 1 .. Len(d), b = (n + 2) + y PROVE Apart(k[a], k[b])
      <4>1. k[a] = e[a] /\ k[b] = d[y]
        BY <1>1, <3>3
      <4>2. e[a].seq # d[y].seq
        BY <1>3 DEF DistinctIn
      <4> QED BY <4>1, <4>2 DEF Apart
    <3> QED BY <1>1, <2>2, <3>1, <3>2, <3>3
  <2>3. ASSUME NEW y \in 1 .. Len(d), NEW b \in {n + 1, n + 2}
        PROVE  Apart(k[(n + 2) + y], k[b])
    BY <1>1, <1>3 DEF DistinctIn
  <2>4. CASE i \notin 1 .. n /\ j \notin 1 .. n
    <3>1. CASE i \in {n + 1, n + 2} /\ j \in {n + 1, n + 2}
      BY <1>1, <1>3, <2>0, <3>1 DEF DistinctIn
    <3>2. ASSUME NEW y \in 1 .. Len(d), i = (n + 2) + y, j \in {n + 1, n + 2}
          PROVE  Apart(k[i], k[j])
      BY <2>3, <3>2
    <3>3. ASSUME NEW y \in 1 .. Len(d), j = (n + 2) + y, i \in {n + 1, n + 2}
          PROVE  Apart(k[i], k[j])
      BY <2>0, <2>3, <3>3
    <3>4. ASSUME NEW y \in 1 .. Len(d), i = (n + 2) + y, NEW z \in 1 .. Len(d), j = (n + 2) + z
          PROVE  Apart(k[i], k[j])
      <4>1. y # z
        BY <1>3, <3>4
      <4>2. k[i] = d[y] /\ k[j] = d[z]
        BY <1>1, <3>4
      <4>3. d[y].seq # d[z].seq
        BY <1>3, <4>1 DEF DistinctIn
      <4> QED BY <4>2, <4>3 DEF Apart
    <3> QED BY <1>1, <2>4, <3>1, <3>2, <3>3, <3>4
  <2> QED BY <2>0, <2>1, <2>2, <2>4
<1> QED BY <1>1, <1>2, <1>3 DEF k

\* What a session has is carried once.
LEMMA CarriedOnce ==
    ASSUME NEW e \in Seq(Commands), NEW d \in Seq(Commands), NEW r \in Places, NEW c \in Places,
           DistinctIn(e, r, c, d), NEW x \in ItemsIn(e, r, c, d)
    PROVE  LET k == CarriedIn(e, r, c, d)
           IN  Cardinality({i \in DOMAIN k : k[i].seq = x.seq}) = 1
<1> DEFINE k == CarriedIn(e, r, c, d)
<1>1. /\ k \in Seq(Places) /\ DOMAIN k = 1 .. Len(k)
      /\ \A i, j \in 1 .. Len(k) : i # j => Apart(k[i], k[j])
  BY CarriedItems
<1>2. PICK p \in 1 .. Len(k) : k[p] = x
  BY CarriedItems
<1>3. x.seq # 0 /\ NoEnvelope.seq = 0
  BY ItemsAre, CommandsAreReal DEF NoEnvelope
<1> HIDE DEF k
<1>4. {i \in DOMAIN k : k[i].seq = x.seq} = {p}
  BY <1>1, <1>2, <1>3 DEF Apart
<1> QED BY <1>4, FS_Singleton DEF k

\* There is a token that is not in use.
LEMMA TokenIsFree ==
    ASSUME NEW k \in Seq(Places), NEW n \in Nat, Len(k) < n
    PROVE  \E t \in 1 .. n : \A i \in DOMAIN k : k[i].seq # t
<1> DEFINE f == [i \in 1 .. Len(k) |-> k[i].seq]
           used == {k[i].seq : i \in 1 .. Len(k)}
<1>1. Len(k) \in Nat /\ DOMAIN k = 1 .. Len(k)
  OBVIOUS
<1>2. IsFiniteSet(1 .. Len(k)) /\ Cardinality(1 .. Len(k)) = Len(k)
      /\ IsFiniteSet(1 .. n) /\ Cardinality(1 .. n) = n
  <2>1. 1 \in Int /\ Len(k) \in Int /\ n \in Int
    BY <1>1
  <2>2. /\ IsFiniteSet(1 .. Len(k)) /\ IsFiniteSet(1 .. n)
        /\ Cardinality(1 .. Len(k)) = IF 1 > Len(k) THEN 0 ELSE Len(k) - 1 + 1
        /\ Cardinality(1 .. n) = IF 1 > n THEN 0 ELSE n - 1 + 1
    BY <2>1, FS_Interval
  <2> QED BY <1>1, <2>2
<1>3. f \in Surjection(1 .. Len(k), used)
  BY DEF Surjection
<1>4. IsFiniteSet(used) /\ Cardinality(used) <= Len(k)
  <2> HIDE DEF f, used
  <2>1. IsFiniteSet(used) /\ Cardinality(used) <= Cardinality(1 .. Len(k))
    BY <1>2, <1>3, FS_Surjection
  <2> QED BY <1>2, <2>1
<1>5. SUFFICES ASSUME 1 .. n \subseteq used PROVE FALSE
  BY <1>1
<1>6. Cardinality(1 .. n) <= Cardinality(used)
  BY <1>4, <1>5, FS_Subset
<1>7. Cardinality(used) \in Nat
  BY <1>4, FS_CardinalityType
<1> HIDE DEF used
<1> QED BY <1>1, <1>2, <1>4, <1>6, <1>7

-----------------------------------------------------------------------------
(* One session                                                             *)

\* A new token is not that of anything the session has.
LEMMA TokenIsNew ==
    ASSUME NEW s \in Sessions, SessionInv(fifo[s], owner[s], ledger[s])
    PROVE  /\ Token(s) \in Nat \ {0}
           /\ \A y \in Items(fifo[s], owner[s]) : y.seq # Token(s)
<1> DEFINE e == fifo[s].entries
           d == owner[s].dropping
           r == owner[s].redirect
           c == owner[s].close
           k == CarriedIn(e, r, c, d)
<1>1. e \in Seq(Commands) /\ d \in Seq(Commands) /\ r \in Places /\ c \in Places
  BY DEF SessionInv, Fifos, Owners, Places, Commands
<1>2. Carried(s) = k
  BY DEF Carried, CarriedIn
<1>3. Len(e) + 2 + Len(d) < Capacity + 5 /\ Capacity + 5 \in Nat
  <2>1. Len(e) \in Nat /\ Len(d) \in Nat /\ Len(e) <= Capacity /\ Capacity \in Nat
    BY <1>1, CapacityAssumption DEF SessionInv, Phases
  <2>2. CASE owner[s].pc \in {"release", "closed"}
    <3>1. e = <<>> /\ Len(d) <= Capacity + 2
      BY <2>2 DEF SessionInv, Phases
    <3>2. Len(e) = 0
      BY <3>1
    <3> QED BY <2>1, <3>1, <3>2
  <2>3. CASE owner[s].pc \notin {"release", "closed"}
    <3>1. Len(d) <= 1
      BY <2>3 DEF SessionInv, Phases
    <3> HIDE DEF e, d
    <3> QED BY <2>1, <3>1
  <2> QED BY <2>2, <2>3
<1> HIDE DEF e, d, r, c
<1>4. /\ k \in Seq(Places) /\ Len(k) = Len(e) + 2 + Len(d) /\ DOMAIN k = 1 .. Len(k)
      /\ \A x \in ItemsIn(e, r, c, d) : \E i \in 1 .. Len(k) : k[i] = x
  BY <1>1, CarriedItems
<1> HIDE DEF k
<1>5. \E t \in 1 .. Capacity + 5 : \A i \in DOMAIN k : k[i].seq # t
  BY <1>3, <1>4, TokenIsFree
<1>6. Token(s) \in 1 .. Capacity + 5 /\ \A i \in DOMAIN k : k[i].seq # Token(s)
  BY <1>2, <1>5 DEF Token
<1>7. Items(fifo[s], owner[s]) = ItemsIn(e, r, c, d)
  BY DEF Items, e, r, c, d
<1> QED BY <1>3, <1>4, <1>6, <1>7

\* What the ledger waits for is carried once.
LEMMA AwaitedOnce ==
    ASSUME NEW s \in Sessions, SessionInv(fifo[s], owner[s], ledger[s])
    PROVE  /\ ledger[s].redirect.seq # 0 => Copies(s, ledger[s].redirect.seq) = 1
           /\ ledger[s].closing # 0 => Copies(s, ledger[s].closing) = 1
<1> DEFINE e == fifo[s].entries
           d == owner[s].dropping
           r == owner[s].redirect
           c == owner[s].close
           k == CarriedIn(e, r, c, d)
<1>1. e \in Seq(Commands) /\ d \in Seq(Commands) /\ r \in Places /\ c \in Places
  BY DEF SessionInv, Fifos, Owners, Places, Commands
<1>2. Carried(s) = k
  BY DEF Carried, CarriedIn
<1>3. Items(fifo[s], owner[s]) = ItemsIn(e, r, c, d) /\ DistinctIn(e, r, c, d)
  BY DEF Items, SessionInv
<1> HIDE DEF e, d, r, c
<1>4. \A x \in ItemsIn(e, r, c, d) : Cardinality({i \in DOMAIN k : k[i].seq = x.seq}) = 1
  BY <1>1, <1>3, CarriedOnce
<1>5. \A x \in Items(fifo[s], owner[s]) : Copies(s, x.seq) = 1
  BY <1>2, <1>3, <1>4 DEF Copies
<1>6. ledger[s].redirect.seq # 0 => ledger[s].redirect \in Items(fifo[s], owner[s])
  BY DEF SessionInv, Awaited, NoEnvelope
<1>7. ledger[s].closing # 0 => \E x \in Items(fifo[s], owner[s]) : x.seq = ledger[s].closing
  BY DEF SessionInv, Awaited
<1> QED BY <1>5, <1>6, <1>7

\* Envelopes that only move, or join, keep what the ledger waits for.
LEMMA Moved ==
    ASSUME NEW f, NEW o, NEW l, SessionInv(f, o, l), NEW f2 \in Fifos, NEW o2 \in Owners,
           DistinctIn(f2.entries, o2.redirect, o2.close, o2.dropping),
           Items(f, o) \subseteq Items(f2, o2), Phases(f2, o2, l)
    PROVE  SessionInv(f2, o2, l)
BY DEF SessionInv, Awaited

\* What the end of a redirect makes of the ledger,
LEMMA FinishResults ==
    ASSUME NEW l \in Ledgers, NEW h \in Redirects, NEW ok \in BOOLEAN, Settles(l, h)
    PROVE  /\ FinishRedirect(l, h, ok) \in Ledgers
           /\ FinishRedirect(l, h, ok).stage = l.stage
           /\ FinishRedirect(l, h, ok).redirect = NoEnvelope
           /\ FinishRedirect(l, h, ok).closing = l.closing
           /\ FinishRedirect(l, h, ok).at \in {l.at, h.to}
<1> DEFINE a == [l EXCEPT !.redirect = NoEnvelope, !.at = h.to, !.cool = FALSE]
           b == [l EXCEPT !.redirect = NoEnvelope, !.cool = TRUE]
<1>0. h.to \in Accounts
  BY DEF Redirects
<1>1. /\ a \in Ledgers /\ a.stage = l.stage /\ a.redirect = NoEnvelope
      /\ a.closing = l.closing /\ a.at = h.to
  BY <1>0 DEF Ledgers
<1>2. /\ b \in Ledgers /\ b.stage = l.stage /\ b.redirect = NoEnvelope
      /\ b.closing = l.closing /\ b.at = l.at
  BY DEF Ledgers
<1>3. FinishRedirect(l, h, ok) = IF ok THEN a ELSE b
  BY DEF FinishRedirect
<1> HIDE DEF a, b
<1>4. CASE ok
  BY <1>1, <1>3, <1>4
<1>5. CASE ~ok
  BY <1>2, <1>3, <1>5
<1> QED BY <1>4, <1>5

\* and the end of the session.
LEMMA CloseResults ==
    ASSUME NEW l \in Ledgers
    PROVE  /\ CloseSession(l) \in Ledgers
           /\ CloseSession(l).stage = "none" /\ CloseSession(l).redirect = NoEnvelope
           /\ CloseSession(l).closing = 0 /\ CloseSession(l).at = NoAccount
<1>1. NoAccount \in Accounts
  BY DEF NoAccount, Accounts
<1> QED BY <1>1 DEF CloseSession, Ledgers

\* An envelope is used up, by the end of its redirect or by its guard, and the
\* ledger does not wait for it any longer.
LEMMA Settled ==
    ASSUME NEW f, NEW o, NEW l, SessionInv(f, o, l), NEW h \in Items(f, o),
           NEW o2 \in Owners, DistinctIn(f.entries, o2.redirect, o2.close, o2.dropping),
           Items(f, o2) = Items(f, o) \ {h}, o2.pc = o.pc, Phases(f, o2, l),
           NEW l2,
           \/ h \in Redirects /\ \E ok \in BOOLEAN : l2 = FinishRedirect(l, h, ok)
           \/ l2 = DropGuard(l, h)
    PROVE  /\ SessionInv(f, o2, l2)
           /\ l2.at \in {l.at, l.redirect.to, NoAccount} /\ l2.redirect \in {l.redirect, NoEnvelope}
<1>1. /\ f.entries \in Seq(Commands) /\ o.dropping \in Seq(Commands)
      /\ o.redirect \in Places /\ o.close \in Places /\ l \in Ledgers
      /\ DistinctIn(f.entries, o.redirect, o.close, o.dropping)
      /\ f \in Fifos
  BY DEF SessionInv, Fifos, Owners, Places, Commands
<1>2. Items(f, o) \subseteq Commands /\ h \in Commands /\ h.seq \in Nat \ {0}
  BY <1>1, ItemsAre, CommandsAreReal DEF Items
<1>3. \A y \in Items(f, o) : y.seq = h.seq => y = h
  BY <1>1, SameItems DEF Items
<1>4. /\ l.redirect # NoEnvelope => l.redirect \in Items(f, o) /\ l.redirect \in Redirects
      /\ l.closing # 0 => \E e \in Items(f, o) : e \in Closes /\ e.seq = l.closing
      /\ l.stage # "active" => l.redirect = NoEnvelope /\ l.closing = 0
      /\ l.stage \notin {"active", "pending"} => l.at = NoAccount
  BY <1>1 DEF SessionInv, Awaited, Ledgers
<1>5. \A e \in Closes : e \notin Redirects
  BY DEF Closes, Redirects
<1>g. ASSUME NEW v \in BOOLEAN, h \in Redirects
      PROVE  /\ Settles(l, h) =>
                /\ FinishRedirect(l, h, v) \in Ledgers
                /\ FinishRedirect(l, h, v).stage = l.stage
                /\ FinishRedirect(l, h, v).redirect = NoEnvelope
                /\ FinishRedirect(l, h, v).closing = l.closing
                /\ FinishRedirect(l, h, v).at \in {l.at, h.to}
             /\ ~Settles(l, h) => FinishRedirect(l, h, v) = l
  <2>1. ~Settles(l, h) => FinishRedirect(l, h, v) = l
    BY DEF FinishRedirect
  <2>2. CASE Settles(l, h)
    BY <1>1, <1>g, <2>2, FinishResults
  <2> QED BY <2>1, <2>2
<1>6. ASSUME h \in Redirects, NEW v \in BOOLEAN, l2 = FinishRedirect(l, h, v)
      PROVE  /\ SessionInv(f, o2, l2)
             /\ l2.at \in {l.at, l.redirect.to, NoAccount}
             /\ l2.redirect \in {l.redirect, NoEnvelope}
  <2>1. CASE Settles(l, h)
    <3>1. /\ l2 \in Ledgers /\ l2.stage = l.stage /\ l2.redirect = NoEnvelope
          /\ l2.closing = l.closing /\ l2.at \in {l.at, h.to}
      BY <1>g, <1>6, <2>1
    <3>2. l.redirect = h /\ l.stage = "active"
      BY <1>2, <1>3, <1>4, <2>1 DEF Settles, NoEnvelope
    <3>3. Awaited(f, o2, l2)
      BY <1>4, <1>5, <1>6, <3>1, <3>2 DEF Awaited
    <3>4. Phases(f, o2, l2)
      BY <3>1 DEF Phases
    <3> QED BY <1>1, <3>1, <3>2, <3>3, <3>4 DEF SessionInv
  <2>2. CASE ~Settles(l, h)
    <3>1. l2 = l
      BY <1>g, <1>6, <2>2
    <3>2. l.redirect # h
      BY <1>2, <1>4, <2>2, CommandsAreReal DEF Settles
    <3>3. Awaited(f, o2, l)
      BY <1>4, <1>5, <1>6, <3>2 DEF Awaited
    <3> QED BY <1>1, <3>1, <3>3 DEF SessionInv
  <2> QED BY <2>1, <2>2
<1>7. ASSUME h \in Closes, l2 = ObserveClose(l, h)
      PROVE  /\ SessionInv(f, o2, l2)
             /\ l2.at \in {l.at, l.redirect.to, NoAccount}
             /\ l2.redirect \in {l.redirect, NoEnvelope}
  <2>1. CASE l.stage = "active" /\ l.closing = h.seq
    <3>0. l2 = CloseSession(l)
      BY <1>7, <2>1 DEF ObserveClose
    <3>1. /\ l2 \in Ledgers /\ l2.stage = "none" /\ l2.redirect = NoEnvelope
          /\ l2.closing = 0 /\ l2.at = NoAccount
      BY <1>1, <3>0, CloseResults
    <3>2. Awaited(f, o2, l2)
      BY <3>1 DEF Awaited
    <3>3. Phases(f, o2, l2)
      <4>1. o.pc \notin {"new", "routing", "dialing"}
        BY DEF SessionInv, Phases
      <4> QED BY <3>1, <4>1 DEF Phases
    <3> QED BY <1>1, <3>1, <3>2, <3>3 DEF SessionInv
  <2>2. CASE ~(l.stage = "active" /\ l.closing = h.seq)
    <3>1. l2 = l
      BY <1>7, <2>2 DEF ObserveClose
    <3>2. l.redirect # NoEnvelope => l.redirect \in Items(f, o2)
      BY <1>4, <1>5, <1>7
    <3>3. l.closing # 0 => \E e \in Items(f, o2) : e \in Closes /\ e.seq = l.closing
      BY <1>4, <2>2
    <3>4. Awaited(f, o2, l)
      BY <1>4, <3>2, <3>3 DEF Awaited
    <3> QED BY <1>1, <3>1, <3>4 DEF SessionInv
  <2> QED BY <2>1, <2>2
<1>8. CASE h \in Redirects
  <2>1. h.kind = "redirect"
    BY <1>8 DEF Redirects
  <2>2. \E ok \in BOOLEAN : l2 = FinishRedirect(l, h, ok)
    <3>1. FALSE \in BOOLEAN
      OBVIOUS
    <3>2. CASE l2 = DropGuard(l, h)
      <4>1. l2 = FinishRedirect(l, h, FALSE)
        BY <2>1, <3>2 DEF DropGuard
      <4> QED BY <3>1, <4>1, Zenon
    <3> QED BY <3>2
  <2> QED BY <1>6, <1>8, <2>2
<1>9. CASE h \in Closes
  <2>1. h.kind # "redirect"
    BY <1>9 DEF Closes
  <2>2. l2 = ObserveClose(l, h)
    BY <1>5, <1>9, <2>1 DEF DropGuard
  <2> QED BY <1>7, <1>9, <2>2
<1> QED BY <1>2, <1>8, <1>9 DEF Commands

-----------------------------------------------------------------------------
(* What the router knows                                                   *)

LEMMA SameKnown ==
    ASSUME NEW r, NEW r2, NEW a,
           \A b \in Backends : /\ r2.known[b].here = r.known[b].here
                               /\ r2.known[b].seq = r.known[b].seq,
           KnownTo(r, a)
    PROVE  KnownTo(r2, a)
<1>1. CASE a = NoAccount
  BY <1>1 DEF KnownTo
<1>2. CASE a # NoAccount
  <2>1. Account(r, a.id) = a /\ a.id \in Backends /\ r.known[a.id].here
    BY <1>2 DEF KnownTo, Here
  <2>2. Account(r2, a.id) = a
    BY <2>1 DEF Account
  <2>3. a.id \in Here(r2)
    BY <2>1 DEF Here
  <2> QED BY <2>2, <2>3 DEF KnownTo
<1> QED BY <1>1, <1>2

LEMMA AccountsAre ==
    ASSUME NEW r \in Routers, NEW b \in Backends
    PROVE  /\ Account(r, b) \in Accounts /\ Account(r, b).id = b
           /\ Account(r, b).seq = r.known[b].seq
           /\ b \in Here(r) => KnownTo(r, Account(r, b))
<1>1. r.known[b] \in KnownBackends
  BY DEF Routers
<1>2. Account(r, b) \in Accounts /\ Account(r, b).id = b /\ Account(r, b).seq = r.known[b].seq
  BY <1>1 DEF Account, Accounts, KnownBackends
<1> QED BY <1>2 DEF KnownTo

\* A refresh keeps the backends that sessions are charged to, under their accounts.
LEMMA RefreshKeeps ==
    ASSUME NEW r \in Routers, NEW l, NEW src \in SourceSets
    PROVE  /\ Refresh(r, l, src) \in Routers
           /\ \A a : KnownTo(r, a) /\ ~Prunable(l, a) => KnownTo(Refresh(r, l, src), a)
<1>1. CASE r.observed = src.gen
  BY <1>1 DEF Refresh
<1>2. CASE r.observed # src.gen
  <2> DEFINE incoming == [b \in Backends |-> b \in src.members /\ b \in src.healthy]
             met == [b \in Backends |->
                       IF r.known[b].here THEN [r.known[b] EXCEPT !.healthy = incoming[b]]
                       ELSE IF incoming[b]
                       THEN [here |-> TRUE, seq |-> r.known[b].seq + 1, healthy |-> TRUE, since |-> "no"]
                       ELSE r.known[b]]
             retained(b) == \/ met[b].healthy
                            \/ met[b].here /\ ~Prunable(l, [id |-> b, seq |-> met[b].seq])
             known == [b \in Backends |->
                         IF retained(b) THEN met[b] ELSE [Unknown EXCEPT !.seq = met[b].seq]]
             supports == \A b \in Backends :
                           r.known[b].here \/ b \in src.members => b \notin bounds.plain
  <2>1. Refresh(r, l, src) = [r EXCEPT !.known = known, !.supports = supports, !.observed = src.gen]
    BY <1>2 DEF Refresh
  <2>2. \A b \in Backends : incoming[b] \in BOOLEAN
    OBVIOUS
  <2>3. \A b \in Backends : r.known[b] \in KnownBackends
    BY DEF Routers
  <2>4. ASSUME NEW b \in Backends
        PROVE  /\ met[b] \in KnownBackends
               /\ r.known[b].here => met[b].here /\ met[b].seq = r.known[b].seq
    <3>1. CASE r.known[b].here
      <4>1. met[b] = [r.known[b] EXCEPT !.healthy = incoming[b]]
        BY <3>1
      <4> HIDE DEF incoming, met
      <4> QED BY <2>2, <2>3, <3>1, <4>1 DEF KnownBackends
    <3>2. CASE ~r.known[b].here /\ incoming[b]
      <4>1. met[b] = [here |-> TRUE, seq |-> r.known[b].seq + 1, healthy |-> TRUE, since |-> "no"]
        BY <3>2
      <4> HIDE DEF incoming, met
      <4> QED BY <2>3, <3>2, <4>1 DEF KnownBackends
    <3>3. CASE ~r.known[b].here /\ ~incoming[b]
      <4>1. met[b] = r.known[b]
        BY <3>3
      <4> HIDE DEF incoming, met
      <4> QED BY <2>3, <3>3, <4>1
    <3> QED BY <3>1, <3>2, <3>3
  <2> HIDE DEF met
  <2>5. ASSUME NEW b \in Backends PROVE known[b] \in KnownBackends
    <3>1. [Unknown EXCEPT !.seq = met[b].seq] \in KnownBackends
      BY <2>4 DEF Unknown, KnownBackends
    <3>2. known[b] = IF retained(b) THEN met[b] ELSE [Unknown EXCEPT !.seq = met[b].seq]
      OBVIOUS
    <3> HIDE DEF known, retained
    <3> QED BY <2>4, <3>1, <3>2
  <2>6. ASSUME NEW b \in Backends, r.known[b].here,
               ~Prunable(l, [id |-> b, seq |-> r.known[b].seq])
        PROVE  known[b].here /\ known[b].seq = r.known[b].seq
    <3>1. retained(b)
      BY <2>4, <2>6
    <3>2. known[b] = met[b]
      BY <3>1
    <3> HIDE DEF known, retained
    <3> QED BY <2>4, <2>6, <3>2
  <2>7. known = [b \in Backends |-> known[b]]
    OBVIOUS
  <2>8. supports \in BOOLEAN
    OBVIOUS
  <2> HIDE DEF known, supports
  <2>9. known \in [Backends -> KnownBackends]
    BY <2>5, <2>7
  <2>10. src.gen \in Nat
    BY DEF SourceSets
  <2>11. /\ Refresh(r, l, src) \in Routers /\ Refresh(r, l, src).known = known
    BY <2>1, <2>8, <2>9, <2>10 DEF Routers
  <2>12. ASSUME NEW a, KnownTo(r, a), ~Prunable(l, a) PROVE KnownTo(Refresh(r, l, src), a)
    <3>1. CASE a = NoAccount
      BY <3>1 DEF KnownTo
    <3>2. CASE a # NoAccount
      <4>1. Account(r, a.id) = a /\ a.id \in Backends /\ r.known[a.id].here
        BY <2>12, <3>2 DEF KnownTo, Here
      <4>2. known[a.id].here /\ known[a.id].seq = r.known[a.id].seq
        BY <2>6, <2>12, <4>1 DEF Account
      <4>3. Account(Refresh(r, l, src), a.id) = a /\ a.id \in Here(Refresh(r, l, src))
        BY <2>11, <4>1, <4>2 DEF Account, Here
      <4> QED BY <4>3 DEF KnownTo
    <3> QED BY <3>1, <3>2
  <2> QED BY <2>11, <2>12
<1> QED BY <1>1, <1>2

LEMMA FailoverKeeps ==
    ASSUME NEW r \in Routers, NEW src
    PROVE  /\ ApplyFailover(r, src) \in Routers
           /\ \A a : KnownTo(r, a) => KnownTo(ApplyFailover(r, src), a)
<1> DEFINE known == [b \in Backends |->
                       IF ~r.known[b].here THEN r.known[b]
                       ELSE IF b \notin Failed(r, src) THEN [r.known[b] EXCEPT !.since = "no"]
                       ELSE IF r.known[b].since = "no" THEN [r.known[b] EXCEPT !.since = "fresh"]
                       ELSE r.known[b]]
<1>1. ApplyFailover(r, src) = [r EXCEPT !.known = known]
  BY DEF ApplyFailover
<1>2. ASSUME NEW b \in Backends
      PROVE  /\ known[b] \in KnownBackends /\ known[b].here = r.known[b].here
             /\ known[b].seq = r.known[b].seq
  <2>1. r.known[b] \in KnownBackends
    BY DEF Routers
  <2>2. known[b] \in {r.known[b], [r.known[b] EXCEPT !.since = "no"],
                      [r.known[b] EXCEPT !.since = "fresh"]}
    OBVIOUS
  <2> HIDE DEF known
  <2> QED BY <2>1, <2>2 DEF KnownBackends
<1>3. known = [b \in Backends |-> known[b]]
  OBVIOUS
<1> HIDE DEF known
<1>4. known \in [Backends -> KnownBackends]
  BY <1>2, <1>3
<1>5. ApplyFailover(r, src) \in Routers /\ ApplyFailover(r, src).known = known
  BY <1>1, <1>4 DEF Routers
<1> QED BY <1>2, <1>5, SameKnown

\* Whatever a session is charged with is not pruned.
LEMMA RefreshCharged ==
    ASSUME IInv
    PROVE  /\ Refresh(router, ledger, source) \in Routers
           /\ \A s \in Sessions :
                /\ KnownTo(Refresh(router, ledger, source), ledger[s].at)
                /\ KnownTo(Refresh(router, ledger, source), ledger[s].redirect.to)
<1>1. router \in Routers /\ source \in SourceSets /\ ledger \in [Sessions -> Ledgers]
  BY DEF IInv, Types
<1>2. ASSUME NEW s \in Sessions
      PROVE  KnownTo(router, ledger[s].at) /\ KnownTo(router, ledger[s].redirect.to)
  BY DEF IInv, ChargedKnown
<1>3. ASSUME NEW s \in Sessions PROVE KnownTo(Refresh(router, ledger, source), ledger[s].at)
  <2>1. CASE ledger[s].stage \in {"active", "pending"}
    <3>1. s \in Active(ledger, ledger[s].at) \cup Pending(ledger, ledger[s].at)
      BY <2>1 DEF Active, Pending
    <3>2. ~Prunable(ledger, ledger[s].at)
      BY <3>1 DEF Prunable
    <3> QED BY <1>1, <1>2, <3>2, RefreshKeeps
  <2>2. CASE ledger[s].stage \notin {"active", "pending"}
    <3>1. ledger[s].at = NoAccount
      BY <2>2 DEF IInv, SessionInv, Awaited
    <3> QED BY <3>1 DEF KnownTo
  <2> QED BY <2>1, <2>2
<1>4. ASSUME NEW s \in Sessions PROVE KnownTo(Refresh(router, ledger, source), ledger[s].redirect.to)
  <2>1. CASE ledger[s].redirect # NoEnvelope
    <3>0. ledger[s].redirect \in Redirects
      BY <1>1, <2>1 DEF Ledgers
    <3>1. s \in Incoming(ledger, ledger[s].redirect.to)
      BY <3>0 DEF Incoming, Redirects
    <3>2. ~Prunable(ledger, ledger[s].redirect.to)
      BY <3>1 DEF Prunable
    <3> QED BY <1>1, <1>2, <3>2, RefreshKeeps
  <2>2. CASE ledger[s].redirect = NoEnvelope
    <3>1. ledger[s].redirect.to = NoAccount
      BY <2>2 DEF NoEnvelope
    <3> QED BY <3>1 DEF KnownTo
  <2> QED BY <2>1, <2>2
<1> QED BY <1>1, <1>3, <1>4, RefreshKeeps

-----------------------------------------------------------------------------
(* The steps of one session                                                *)

LEMMA AtSession ==
    ASSUME IInv, NEW s \in Sessions
    PROVE  /\ SessionInv(fifo[s], owner[s], ledger[s])
           /\ fifo[s] \in Fifos /\ owner[s] \in Owners /\ ledger[s] \in Ledgers
           /\ fifo = [fifo EXCEPT ![s] = fifo[s]]
           /\ owner = [owner EXCEPT ![s] = owner[s]]
           /\ ledger = [ledger EXCEPT ![s] = ledger[s]]
           /\ KnownTo(router, ledger[s].at) /\ KnownTo(router, ledger[s].redirect.to)
           /\ \A t \in Sessions : /\ KnownTo(router, ledger[t].at)
                                  /\ KnownTo(router, ledger[t].redirect.to)
           /\ router \in Routers
<1>1. fifo \in [Sessions -> Fifos] /\ owner \in [Sessions -> Owners]
      /\ ledger \in [Sessions -> Ledgers] /\ router \in Routers
  BY DEF IInv, Types
<1>2. /\ SessionInv(fifo[s], owner[s], ledger[s])
      /\ \A t \in Sessions : /\ KnownTo(router, ledger[t].at)
                             /\ KnownTo(router, ledger[t].redirect.to)
  BY DEF IInv, ChargedKnown
<1> QED BY <1>1, <1>2

\* A step of one session, and of the router while no round is under way.
LEMMA SessionChange ==
    ASSUME IInv, NEW s \in Sessions, bounds' = bounds, source' = source, worker' = worker,
           router' \in Routers, NEW f, NEW o, NEW l, SessionInv(f, o, l),
           fifo' = [fifo EXCEPT ![s] = f], owner' = [owner EXCEPT ![s] = o],
           ledger' = [ledger EXCEPT ![s] = l],
           \A t \in Sessions : /\ KnownTo(router', ledger[t].at)
                               /\ KnownTo(router', ledger[t].redirect.to),
           KnownTo(router', l.at), KnownTo(router', l.redirect.to),
           ~Locked \/ (/\ l = ledger[s] /\ router' = router
                       /\ Items(fifo[s], owner[s]) \subseteq Items(f, o))
    PROVE  IInv'
<1>1. f \in Fifos /\ o \in Owners /\ l \in Ledgers
  BY DEF SessionInv
<1>2. fifo \in [Sessions -> Fifos] /\ owner \in [Sessions -> Owners]
      /\ ledger \in [Sessions -> Ledgers] /\ bounds \in Bounds
      /\ source \in SourceSets /\ source.gen <= bounds.publications /\ worker \in Workers
  BY DEF IInv, Types
<1>3. fifo' \in [Sessions -> Fifos] /\ owner' \in [Sessions -> Owners]
      /\ ledger' \in [Sessions -> Ledgers]
  BY <1>1, <1>2
<1>4. Types'
  BY <1>2, <1>3 DEF Types
<1>5. /\ fifo'[s] = f /\ owner'[s] = o /\ ledger'[s] = l
      /\ \A t \in Sessions : t # s =>
           fifo'[t] = fifo[t] /\ owner'[t] = owner[t] /\ ledger'[t] = ledger[t]
  BY <1>2
<1>6. ASSUME NEW t \in Sessions PROVE SessionInv(fifo'[t], owner'[t], ledger'[t])
  <2>1. CASE t = s
    BY <1>5, <2>1
  <2>2. CASE t # s
    BY <1>5, <2>2 DEF IInv
  <2> QED BY <2>1, <2>2
<1>7. ASSUME NEW t \in Sessions
      PROVE  KnownTo(router', ledger'[t].at) /\ KnownTo(router', ledger'[t].redirect.to)
  <2>1. CASE t = s
    BY <1>5, <2>1
  <2>2. CASE t # s
    BY <1>5, <2>2
  <2> QED BY <2>1, <2>2
<1>8. ASSUME worker.pc \in {"offer", "admit"} PROVE KnownTo(router', worker.to)
  <2>1. Locked
    BY <1>8 DEF Locked
  <2> QED BY <1>8, <2>1 DEF IInv, ChargedKnown
<1>9. ChargedKnown'
  <2>1. worker.pc \notin {"offer", "admit"} => worker.to = NoAccount
    BY DEF IInv, ChargedKnown
  <2> QED BY <1>7, <1>8, <2>1 DEF ChargedKnown
<1>10. SentIsCarried'
  <2>1. CASE ~(worker.pc \in {"admit", "confirm"})
    BY <2>1 DEF SentIsCarried
  <2>2. CASE worker.pc \in {"admit", "confirm"}
    <3>1. Locked
      BY <2>2 DEF Locked
    <3>2. l = ledger[s] /\ router' = router /\ Items(fifo[s], owner[s]) \subseteq Items(f, o)
      BY <3>1
    <3>3. ledger' = ledger
      BY <1>2, <3>2
    <3> DEFINE q == worker.sent.session
               e == worker.sent.envelope
    <3>4. /\ q \in Sessions /\ ledger[q].stage = "active" /\ ledger[q].closing = 0
          /\ worker.pc = "admit" =>
               /\ e \in Redirects /\ ledger[q].redirect = NoEnvelope
               /\ worker.budget > 0 /\ KnownTo(router, e.to)
          /\ worker.pc = "confirm" => e \in Closes
          /\ worker.sent.accepted => e \in Items(fifo[q], owner[q])
      BY <2>2 DEF IInv, SentIsCarried
    <3>5. Items(fifo[q], owner[q]) \subseteq Items(fifo'[q], owner'[q])
      BY <1>5, <3>2, <3>4
    <3> QED BY <3>2, <3>3, <3>4, <3>5 DEF SentIsCarried
  <2> QED BY <2>1, <2>2
<1> QED BY <1>4, <1>6, <1>9, <1>10 DEF IInv

LEMMA OpenInv == ASSUME IInv, NEW s \in Sessions, Open(s) PROVE IInv'
<1> DEFINE f == [fifo[s] EXCEPT !.registered = TRUE]
           o == [owner[s] EXCEPT !.pc = "routing"]
           l == [ledger[s] EXCEPT !.stage = "idle"]
<1>1. /\ fifo' = [fifo EXCEPT ![s] = f] /\ owner' = [owner EXCEPT ![s] = o]
      /\ ledger' = [ledger EXCEPT ![s] = l]
      /\ bounds' = bounds /\ source' = source /\ worker' = worker /\ router' = router
      /\ ~Locked /\ owner[s].pc = "new"
  BY DEF Open
<1>2. f \in Fifos /\ f.entries = fifo[s].entries /\ f.closed = fifo[s].closed
  BY AtSession DEF Fifos
<1>3. /\ o \in Owners /\ o.redirect = owner[s].redirect /\ o.close = owner[s].close
      /\ o.dropping = owner[s].dropping /\ o.pc = "routing"
  BY AtSession DEF Owners
<1>4. /\ l \in Ledgers /\ l.redirect = ledger[s].redirect /\ l.closing = ledger[s].closing
      /\ l.at = ledger[s].at /\ l.stage = "idle"
  BY AtSession DEF Ledgers
<1> HIDE DEF f, o, l
<1>5. Items(f, o) = Items(fifo[s], owner[s])
  BY <1>2, <1>3 DEF Items
<1>6. /\ SessionInv(fifo[s], owner[s], ledger[s]) /\ router \in Routers
      /\ KnownTo(router, ledger[s].at) /\ KnownTo(router, ledger[s].redirect.to)
      /\ \A t \in Sessions : /\ KnownTo(router, ledger[t].at)
                             /\ KnownTo(router, ledger[t].redirect.to)
  BY AtSession
<1>7. SessionInv(f, o, l)
  BY <1>1, <1>2, <1>3, <1>4, <1>5, <1>6 DEF SessionInv, Phases, Awaited
<1> QED BY <1>1, <1>4, <1>6, <1>7, SessionChange

LEMMA ReserveInv == ASSUME IInv, NEW s \in Sessions, Reserve(s) PROVE IInv'
<1> DEFINE r == Refresh(router, ledger, source)
           fresh == Choices(r, ledger, source, owner[s].tried)
           pool == IF fresh # {} THEN fresh ELSE Choices(r, ledger, source, {})
<1>1. /\ fifo' = fifo /\ router' = r /\ owner[s].pc = "routing"
      /\ bounds' = bounds /\ source' = source /\ worker' = worker /\ ~Locked
  BY DEF Reserve
<1>2. /\ SessionInv(fifo[s], owner[s], ledger[s]) /\ fifo = [fifo EXCEPT ![s] = fifo[s]]
      /\ fifo[s] \in Fifos /\ owner[s] \in Owners /\ ledger[s] \in Ledgers
      /\ ledger = [ledger EXCEPT ![s] = ledger[s]]
  BY AtSession
<1>3. /\ r \in Routers
      /\ \A t \in Sessions : KnownTo(r, ledger[t].at) /\ KnownTo(r, ledger[t].redirect.to)
  BY RefreshCharged
<1>4. pool \subseteq Here(r) /\ Here(r) \subseteq Backends
  BY DEF Choices, Routeable, Healthy, Here
<1>5. \/ \E b \in pool :
           /\ ledger' = [ledger EXCEPT ![s].stage = "pending", ![s].at = Account(r, b)]
           /\ owner' = [owner EXCEPT ![s].pc = "dialing",
                          ![s].tried = IF fresh # {} THEN @ \cup {b} ELSE {b}]
      \/ /\ owner' = [owner EXCEPT ![s].pc = "ending", ![s].tried = {}]
         /\ ledger' = ledger
  BY DEF Reserve
<1> HIDE DEF r, fresh, pool
<1>6. ASSUME NEW b \in pool,
             ledger' = [ledger EXCEPT ![s].stage = "pending", ![s].at = Account(r, b)],
             owner' = [owner EXCEPT ![s].pc = "dialing",
                         ![s].tried = IF fresh # {} THEN @ \cup {b} ELSE {b}]
      PROVE  IInv'
  <2> DEFINE a == Account(r, b)
             w == IF fresh # {} THEN owner[s].tried \cup {b} ELSE {b}
             o == [owner[s] EXCEPT !.pc = "dialing", !.tried = w]
             l == [ledger[s] EXCEPT !.stage = "pending", !.at = a]
  <2>1. b \in Backends /\ a \in Accounts /\ KnownTo(r, a)
    BY <1>3, <1>4, AccountsAre
  <2>2. owner' = [owner EXCEPT ![s] = o] /\ ledger' = [ledger EXCEPT ![s] = l]
    BY <1>6
  <2>3. w \subseteq Backends
    BY <1>2, <2>1 DEF Owners
  <2> HIDE DEF a, w
  <2>4. /\ o \in Owners /\ o.redirect = owner[s].redirect /\ o.close = owner[s].close
        /\ o.dropping = owner[s].dropping /\ o.pc = "dialing"
    BY <1>2, <2>3 DEF Owners
  <2>5. /\ l \in Ledgers /\ l.redirect = ledger[s].redirect /\ l.closing = ledger[s].closing
        /\ l.at = a /\ l.stage = "pending"
    BY <1>2, <2>1 DEF Ledgers
  <2> HIDE DEF o, l
  <2>6. Items(fifo[s], o) = Items(fifo[s], owner[s])
    BY <2>4 DEF Items
  <2>7. SessionInv(fifo[s], o, l)
    BY <1>1, <1>2, <2>4, <2>5, <2>6 DEF SessionInv, Phases, Awaited
  <2> QED BY <1>1, <1>2, <1>3, <2>1, <2>2, <2>5, <2>7, SessionChange
<1>7. ASSUME owner' = [owner EXCEPT ![s].pc = "ending", ![s].tried = {}], ledger' = ledger
      PROVE  IInv'
  <2> DEFINE o == [owner[s] EXCEPT !.pc = "ending", !.tried = {}]
  <2>1. owner' = [owner EXCEPT ![s] = o] /\ ledger' = [ledger EXCEPT ![s] = ledger[s]]
    BY <1>2, <1>7
  <2>2. /\ o \in Owners /\ o.redirect = owner[s].redirect /\ o.close = owner[s].close
        /\ o.dropping = owner[s].dropping /\ o.pc = "ending"
    BY <1>2 DEF Owners
  <2> HIDE DEF o
  <2>3. Items(fifo[s], o) = Items(fifo[s], owner[s])
    BY <2>2 DEF Items
  <2>4. SessionInv(fifo[s], o, ledger[s])
    BY <1>1, <1>2, <2>2, <2>3 DEF SessionInv, Phases, Awaited
  <2> QED BY <1>1, <1>2, <1>3, <2>1, <2>4, SessionChange
<1> QED BY <1>5, <1>6, <1>7

LEMMA ConnectedInv == ASSUME IInv, NEW s \in Sessions, Connected(s) PROVE IInv'
<1> DEFINE o == [owner[s] EXCEPT !.pc = "active", !.tried = {}]
           l == [ledger[s] EXCEPT !.stage = "active"]
<1>1. /\ fifo' = fifo /\ owner' = [owner EXCEPT ![s] = o] /\ ledger' = [ledger EXCEPT ![s] = l]
      /\ bounds' = bounds /\ source' = source /\ worker' = worker /\ router' = router
      /\ ~Locked /\ owner[s].pc = "dialing"
  BY DEF Connected
<1>2. /\ SessionInv(fifo[s], owner[s], ledger[s]) /\ fifo = [fifo EXCEPT ![s] = fifo[s]]
      /\ fifo[s] \in Fifos /\ owner[s] \in Owners /\ ledger[s] \in Ledgers
      /\ router \in Routers
      /\ KnownTo(router, ledger[s].at) /\ KnownTo(router, ledger[s].redirect.to)
      /\ \A t \in Sessions : /\ KnownTo(router, ledger[t].at)
                             /\ KnownTo(router, ledger[t].redirect.to)
  BY AtSession
<1>3. /\ o \in Owners /\ o.redirect = owner[s].redirect /\ o.close = owner[s].close
      /\ o.dropping = owner[s].dropping /\ o.pc = "active"
  BY <1>2 DEF Owners
<1>4. /\ l \in Ledgers /\ l.redirect = ledger[s].redirect /\ l.closing = ledger[s].closing
      /\ l.at = ledger[s].at /\ l.stage = "active"
  BY <1>2 DEF Ledgers
<1> HIDE DEF o, l
<1>5. Items(fifo[s], o) = Items(fifo[s], owner[s])
  BY <1>3 DEF Items
<1>6. owner[s].close = NoEnvelope
  BY <1>1, <1>2 DEF SessionInv, Phases, Items, ItemsIn
<1>7. SessionInv(fifo[s], o, l)
  BY <1>1, <1>2, <1>3, <1>4, <1>5, <1>6 DEF SessionInv, Phases, Awaited
<1> QED BY <1>1, <1>2, <1>4, <1>7, SessionChange

LEMMA DialFailedInv == ASSUME IInv, NEW s \in Sessions, DialFailed(s) PROVE IInv'
<1> DEFINE o == [owner[s] EXCEPT !.pc = "routing"]
           l == [ledger[s] EXCEPT !.stage = "idle", !.at = NoAccount]
<1>1. /\ fifo' = fifo /\ owner' = [owner EXCEPT ![s] = o] /\ ledger' = [ledger EXCEPT ![s] = l]
      /\ bounds' = bounds /\ source' = source /\ worker' = worker /\ router' = router
      /\ ~Locked /\ owner[s].pc = "dialing"
  BY DEF DialFailed
<1>2. /\ SessionInv(fifo[s], owner[s], ledger[s]) /\ fifo = [fifo EXCEPT ![s] = fifo[s]]
      /\ fifo[s] \in Fifos /\ owner[s] \in Owners /\ ledger[s] \in Ledgers
      /\ router \in Routers
      /\ KnownTo(router, ledger[s].at) /\ KnownTo(router, ledger[s].redirect.to)
      /\ \A t \in Sessions : /\ KnownTo(router, ledger[t].at)
                             /\ KnownTo(router, ledger[t].redirect.to)
  BY AtSession
<1>3. /\ o \in Owners /\ o.redirect = owner[s].redirect /\ o.close = owner[s].close
      /\ o.dropping = owner[s].dropping /\ o.pc = "routing"
  BY <1>2 DEF Owners
<1>0. NoAccount \in Accounts
  BY DEF NoAccount, Accounts
<1>4. /\ l \in Ledgers /\ l.redirect = ledger[s].redirect /\ l.closing = ledger[s].closing
      /\ l.at = NoAccount /\ l.stage = "idle"
  BY <1>0, <1>2 DEF Ledgers
<1> HIDE DEF o, l
<1>5. Items(fifo[s], o) = Items(fifo[s], owner[s])
  BY <1>3 DEF Items
<1>7. SessionInv(fifo[s], o, l)
  BY <1>1, <1>2, <1>3, <1>4, <1>5 DEF SessionInv, Phases, Awaited
<1>8. KnownTo(router, l.at)
  BY <1>4 DEF KnownTo
<1> QED BY <1>1, <1>2, <1>4, <1>7, <1>8, SessionChange

LEMMA CoolDownInv == ASSUME IInv, NEW s \in Sessions, CoolDown(s) PROVE IInv'
<1> DEFINE l == [ledger[s] EXCEPT !.cool = FALSE]
<1>1. /\ fifo' = fifo /\ owner' = owner /\ ledger' = [ledger EXCEPT ![s] = l]
      /\ bounds' = bounds /\ source' = source /\ worker' = worker /\ router' = router
      /\ ~Locked
  BY DEF CoolDown
<1>2. /\ SessionInv(fifo[s], owner[s], ledger[s]) /\ fifo = [fifo EXCEPT ![s] = fifo[s]]
      /\ owner = [owner EXCEPT ![s] = owner[s]]
      /\ ledger[s] \in Ledgers /\ router \in Routers
      /\ KnownTo(router, ledger[s].at) /\ KnownTo(router, ledger[s].redirect.to)
      /\ \A t \in Sessions : /\ KnownTo(router, ledger[t].at)
                             /\ KnownTo(router, ledger[t].redirect.to)
  BY AtSession
<1>3. /\ l \in Ledgers /\ l.redirect = ledger[s].redirect /\ l.closing = ledger[s].closing
      /\ l.at = ledger[s].at /\ l.stage = ledger[s].stage
  BY <1>2 DEF Ledgers
<1> HIDE DEF l
<1>4. SessionInv(fifo[s], owner[s], l)
  BY <1>2, <1>3 DEF SessionInv, Phases, Awaited
<1> QED BY <1>1, <1>2, <1>3, <1>4, SessionChange

LEMMA LeaveInv == ASSUME IInv, NEW s \in Sessions, Leave(s) PROVE IInv'
<1> DEFINE o == [owner[s] EXCEPT !.pc = "ending"]
<1>1. /\ fifo' = fifo /\ owner' = [owner EXCEPT ![s] = o] /\ ledger' = ledger
      /\ bounds' = bounds /\ source' = source /\ worker' = worker /\ router' = router
      /\ owner[s].pc \in {"routing", "dialing", "active"}
  BY DEF Leave
<1>2. /\ SessionInv(fifo[s], owner[s], ledger[s]) /\ fifo = [fifo EXCEPT ![s] = fifo[s]]
      /\ ledger = [ledger EXCEPT ![s] = ledger[s]]
      /\ fifo[s] \in Fifos /\ owner[s] \in Owners /\ router \in Routers
      /\ KnownTo(router, ledger[s].at) /\ KnownTo(router, ledger[s].redirect.to)
      /\ \A t \in Sessions : /\ KnownTo(router, ledger[t].at)
                             /\ KnownTo(router, ledger[t].redirect.to)
  BY AtSession
<1>3. /\ o \in Owners /\ o.redirect = owner[s].redirect /\ o.close = owner[s].close
      /\ o.dropping = owner[s].dropping /\ o.pc = "ending"
  BY <1>2 DEF Owners
<1> HIDE DEF o
<1>4. Items(fifo[s], o) = Items(fifo[s], owner[s])
  BY <1>3 DEF Items
<1>5. SessionInv(fifo[s], o, ledger[s])
  BY <1>1, <1>2, <1>3, <1>4 DEF SessionInv, Phases, Awaited
<1> QED BY <1>1, <1>2, <1>4, <1>5, SessionChange

LEMMA ReleaseInv == ASSUME IInv, NEW s \in Sessions, Release(s) PROVE IInv'
<1> DEFINE o == [owner[s] EXCEPT !.pc = "closed"]
           l == CloseSession(ledger[s])
<1>1. /\ fifo' = fifo /\ owner' = [owner EXCEPT ![s] = o] /\ ledger' = [ledger EXCEPT ![s] = l]
      /\ bounds' = bounds /\ source' = source /\ worker' = worker /\ router' = router
      /\ ~Locked /\ owner[s].pc = "release"
  BY DEF Release
<1>2. /\ SessionInv(fifo[s], owner[s], ledger[s]) /\ fifo = [fifo EXCEPT ![s] = fifo[s]]
      /\ fifo[s] \in Fifos /\ owner[s] \in Owners /\ ledger[s] \in Ledgers
      /\ router \in Routers
      /\ \A t \in Sessions : /\ KnownTo(router, ledger[t].at)
                             /\ KnownTo(router, ledger[t].redirect.to)
  BY AtSession
<1>3. /\ o \in Owners /\ o.redirect = owner[s].redirect /\ o.close = owner[s].close
      /\ o.dropping = owner[s].dropping /\ o.pc = "closed"
  BY <1>2 DEF Owners
<1>4. /\ l \in Ledgers /\ l.redirect = NoEnvelope /\ l.closing = 0
      /\ l.at = NoAccount /\ l.stage = "none"
  BY <1>2, CloseResults
<1> HIDE DEF o, l
<1>5. Items(fifo[s], o) = Items(fifo[s], owner[s])
  BY <1>3 DEF Items
<1>6. SessionInv(fifo[s], o, l)
  BY <1>1, <1>2, <1>3, <1>4, <1>5 DEF SessionInv, Phases, Awaited
<1>7. KnownTo(router, l.at) /\ KnownTo(router, l.redirect.to)
  BY <1>4 DEF KnownTo, NoEnvelope
<1> QED BY <1>1, <1>2, <1>6, <1>7, SessionChange

\* An envelope is used up, and the router knows what the ledger is left with.
LEMMA SettledKnown ==
    ASSUME NEW r, NEW l, NEW l2, KnownTo(r, l.at), KnownTo(r, l.redirect.to),
           l2.at \in {l.at, l.redirect.to, NoAccount}, l2.redirect \in {l.redirect, NoEnvelope}
    PROVE  KnownTo(r, l2.at) /\ KnownTo(r, l2.redirect.to)
<1>1. KnownTo(r, NoAccount) /\ NoEnvelope.to = NoAccount
  BY DEF KnownTo, NoEnvelope
<1> QED BY <1>1

LEMMA SettleDroppedInv == ASSUME IInv, NEW s \in Sessions, SettleDropped(s) PROVE IInv'
<1> DEFINE d == owner[s].dropping
           h == Head(d)
           o == [owner[s] EXCEPT !.dropping = Tail(d)]
           l == DropGuard(ledger[s], h)
<1>1. /\ fifo' = fifo /\ owner' = [owner EXCEPT ![s] = o] /\ ledger' = [ledger EXCEPT ![s] = l]
      /\ bounds' = bounds /\ source' = source /\ worker' = worker /\ router' = router
      /\ ~Locked /\ d # <<>>
  BY DEF SettleDropped
<1>2. /\ SessionInv(fifo[s], owner[s], ledger[s]) /\ fifo = [fifo EXCEPT ![s] = fifo[s]]
      /\ fifo[s] \in Fifos /\ owner[s] \in Owners /\ ledger[s] \in Ledgers
      /\ router \in Routers
      /\ KnownTo(router, ledger[s].at) /\ KnownTo(router, ledger[s].redirect.to)
      /\ \A t \in Sessions : /\ KnownTo(router, ledger[t].at)
                             /\ KnownTo(router, ledger[t].redirect.to)
  BY AtSession
<1>3. /\ d \in Seq(Commands) /\ fifo[s].entries \in Seq(Commands)
      /\ owner[s].redirect \in Places /\ owner[s].close \in Places
      /\ DistinctIn(fifo[s].entries, owner[s].redirect, owner[s].close, d)
  BY <1>2 DEF Owners, Fifos, Places, Commands, SessionInv
<1>4. Tail(d) \in Seq(Commands) /\ Len(d) \in Nat /\ Len(Tail(d)) = Len(d) - 1
  BY <1>1, <1>3, HeadAndTail
<1>5. /\ o \in Owners /\ o.redirect = owner[s].redirect /\ o.close = owner[s].close
      /\ o.dropping = Tail(d) /\ o.pc = owner[s].pc
  BY <1>2, <1>4 DEF Owners
<1>6. /\ DistinctIn(fifo[s].entries, owner[s].redirect, owner[s].close, Tail(d))
      /\ ItemsIn(fifo[s].entries, owner[s].redirect, owner[s].close, Tail(d))
           = ItemsIn(fifo[s].entries, owner[s].redirect, owner[s].close, d) \ {h}
      /\ h \in ItemsIn(fifo[s].entries, owner[s].redirect, owner[s].close, d)
  BY <1>1, <1>3, DroppedGone
<1> HIDE DEF h, o, l
<1>7. /\ h \in Items(fifo[s], owner[s])
      /\ Items(fifo[s], o) = Items(fifo[s], owner[s]) \ {h}
      /\ DistinctIn(fifo[s].entries, o.redirect, o.close, o.dropping)
  BY <1>5, <1>6 DEF Items
<1>8. Phases(fifo[s], o, ledger[s])
  <2>1. Phases(fifo[s], owner[s], ledger[s])
    BY <1>2 DEF SessionInv
  <2>2. \A n \in Nat : Len(d) <= n => Len(Tail(d)) <= n
    BY <1>4
  <2>3. Capacity + 2 \in Nat
    BY CapacityAssumption
  <2>4. owner[s].pc \notin {"new", "routing", "dialing"}
    BY <1>7, <2>1 DEF Phases
  <2> QED BY <1>5, <2>1, <2>2, <2>3, <2>4 DEF Phases
<1>9. /\ SessionInv(fifo[s], o, l)
      /\ l.at \in {ledger[s].at, ledger[s].redirect.to, NoAccount}
      /\ l.redirect \in {ledger[s].redirect, NoEnvelope}
  <2>1. l = DropGuard(ledger[s], h)
    BY DEF l
  <2> QED BY <1>2, <1>5, <1>7, <1>8, <2>1, Settled
<1>10. KnownTo(router, l.at) /\ KnownTo(router, l.redirect.to)
  BY <1>2, <1>9, SettledKnown
<1> QED BY <1>1, <1>2, <1>9, <1>10, SessionChange

\* The owner's redirect is one that the ledger may wait for, and not a close.
LEMMA RedirectFinishedInv ==
    ASSUME IInv, NEW s \in Sessions, NEW ok \in BOOLEAN, RedirectFinished(s, ok)
    PROVE  IInv'
<1> DEFINE h == owner[s].redirect
           o == [owner[s] EXCEPT !.redirect = NoEnvelope]
           l == FinishRedirect(ledger[s], h, ok)
<1>1. /\ fifo' = fifo /\ owner' = [owner EXCEPT ![s] = o] /\ ledger' = [ledger EXCEPT ![s] = l]
      /\ bounds' = bounds /\ source' = source /\ worker' = worker /\ router' = router
      /\ ~Locked /\ h # NoEnvelope /\ owner[s].pc = "active"
  BY DEF RedirectFinished
<1>2. /\ SessionInv(fifo[s], owner[s], ledger[s]) /\ fifo = [fifo EXCEPT ![s] = fifo[s]]
      /\ fifo[s] \in Fifos /\ owner[s] \in Owners /\ ledger[s] \in Ledgers
      /\ router \in Routers
      /\ KnownTo(router, ledger[s].at) /\ KnownTo(router, ledger[s].redirect.to)
      /\ \A t \in Sessions : /\ KnownTo(router, ledger[t].at)
                             /\ KnownTo(router, ledger[t].redirect.to)
  BY AtSession
<1>3. /\ owner[s].dropping \in Seq(Commands) /\ fifo[s].entries \in Seq(Commands)
      /\ h \in Places /\ owner[s].close \in Places /\ h \in Redirects
      /\ DistinctIn(fifo[s].entries, h, owner[s].close, owner[s].dropping)
  BY <1>1, <1>2 DEF Owners, Fifos, Places, Commands, SessionInv
<1>4. /\ o \in Owners /\ o.redirect = NoEnvelope /\ o.close = owner[s].close
      /\ o.dropping = owner[s].dropping /\ o.pc = owner[s].pc
  BY <1>2 DEF Owners
<1>5. /\ DistinctIn(fifo[s].entries, NoEnvelope, owner[s].close, owner[s].dropping)
      /\ ItemsIn(fifo[s].entries, NoEnvelope, owner[s].close, owner[s].dropping)
           = ItemsIn(fifo[s].entries, h, owner[s].close, owner[s].dropping) \ {h}
  BY <1>1, <1>3, RedirectGone
<1> HIDE DEF o, l
<1>6. /\ h \in Items(fifo[s], owner[s])
      /\ Items(fifo[s], o) = Items(fifo[s], owner[s]) \ {h}
      /\ DistinctIn(fifo[s].entries, o.redirect, o.close, o.dropping)
  BY <1>1, <1>4, <1>5 DEF Items, ItemsIn
<1>7. Phases(fifo[s], o, ledger[s])
  BY <1>1, <1>2, <1>4 DEF Phases, SessionInv
<1>8. /\ SessionInv(fifo[s], o, l)
      /\ l.at \in {ledger[s].at, ledger[s].redirect.to, NoAccount}
      /\ l.redirect \in {ledger[s].redirect, NoEnvelope}
  <2>1. \E v \in BOOLEAN : l = FinishRedirect(ledger[s], h, v)
    BY Zenon DEF l
  <2> HIDE DEF h
  <2> QED BY <1>2, <1>3, <1>4, <1>6, <1>7, <2>1, Settled
<1>9. KnownTo(router, l.at) /\ KnownTo(router, l.redirect.to)
  BY <1>2, <1>8, SettledKnown
<1> QED BY <1>1, <1>2, <1>8, <1>9, SessionChange

LEMMA ReceiveInv == ASSUME IInv, NEW s \in Sessions, Receive(s) PROVE IInv'
<1> DEFINE q == fifo[s].entries
           h == Head(q)
           f == [fifo[s] EXCEPT !.entries = Tail(q)]
<1>1. /\ fifo' = [fifo EXCEPT ![s] = f] /\ ledger' = ledger
      /\ bounds' = bounds /\ source' = source /\ worker' = worker /\ router' = router
      /\ owner[s].pc = "active" /\ owner[s].dropping = <<>> /\ q # <<>>
  BY DEF Receive
<1>2. /\ SessionInv(fifo[s], owner[s], ledger[s])
      /\ ledger = [ledger EXCEPT ![s] = ledger[s]]
      /\ fifo[s] \in Fifos /\ owner[s] \in Owners
      /\ router \in Routers
      /\ KnownTo(router, ledger[s].at) /\ KnownTo(router, ledger[s].redirect.to)
      /\ \A t \in Sessions : /\ KnownTo(router, ledger[t].at)
                             /\ KnownTo(router, ledger[t].redirect.to)
  BY AtSession
<1>3. /\ q \in Seq(Commands) /\ owner[s].redirect \in Places
      /\ owner[s].close = NoEnvelope
      /\ DistinctIn(q, owner[s].redirect, NoEnvelope, <<>>)
      /\ Items(fifo[s], owner[s]) = ItemsIn(q, owner[s].redirect, NoEnvelope, <<>>)
  BY <1>1, <1>2 DEF Owners, Fifos, Places, Commands, SessionInv, Phases, Items
<1>4. h \in Commands /\ Tail(q) \in Seq(Commands) /\ Len(q) \in Nat /\ Len(Tail(q)) = Len(q) - 1
  BY <1>1, <1>3, HeadAndTail
<1>5. f \in Fifos /\ f.entries = Tail(q) /\ f.closed = fifo[s].closed /\ Len(Tail(q)) <= Capacity
  <2>1. Len(q) <= Capacity
    BY <1>2 DEF SessionInv, Phases
  <2>2. Len(Tail(q)) <= Capacity
    <3> HIDE DEF q
    <3> QED BY <1>4, <2>1, CapacityAssumption
  <2> QED BY <1>2, <1>4, <2>2 DEF Fifos
<1>6. <<>> \in Seq(Commands)
  OBVIOUS
<1>7. \/ /\ h.kind = "redirect" /\ owner[s].redirect = NoEnvelope
         /\ owner' = [owner EXCEPT ![s].redirect = h]
      \/ /\ h.kind = "redirect"
         /\ owner' = [owner EXCEPT ![s].dropping = <<h>>]
      \/ /\ h.kind = "close"
         /\ owner' = [owner EXCEPT ![s].pc = "ending", ![s].close = h,
                        ![s].redirect = NoEnvelope, ![s].dropping = Kept(owner[s].redirect)]
  BY DEF Receive
<1> HIDE DEF h, f
<1>8. /\ h.kind = "redirect" => h \in Redirects
      /\ h.kind = "close" => h \in Closes
  BY <1>4 DEF Commands, Redirects, Closes
<1>9. SUFFICES ASSUME NEW o \in Owners, owner' = [owner EXCEPT ![s] = o],
                      DistinctIn(f.entries, o.redirect, o.close, o.dropping),
                      Items(f, o) = Items(fifo[s], owner[s]), Phases(f, o, ledger[s])
               PROVE  IInv'
  <2>1. CASE h.kind = "redirect" /\ owner[s].redirect = NoEnvelope
             /\ owner' = [owner EXCEPT ![s].redirect = h]
    <3> DEFINE o == [owner[s] EXCEPT !.redirect = h]
    <3>1. owner' = [owner EXCEPT ![s] = o]
      BY <2>1
    <3>2. /\ o \in Owners /\ o.redirect = h /\ o.close = NoEnvelope /\ o.dropping = <<>>
          /\ o.pc = "active"
      BY <1>1, <1>2, <1>3, <1>8, <2>1 DEF Owners
    <3> HIDE DEF o
    <3>3. /\ DistinctIn(Tail(q), h, NoEnvelope, <<>>)
          /\ ItemsIn(Tail(q), h, NoEnvelope, <<>>) = ItemsIn(q, NoEnvelope, NoEnvelope, <<>>)
      BY <1>1, <1>3, <1>6, <2>1, TakenAsRedirect DEF h, Places
    <3>4. Phases(f, o, ledger[s])
      BY <1>5, <3>2 DEF Phases
    <3>5. Items(f, o) = Items(fifo[s], owner[s])
      BY <1>3, <1>5, <2>1, <3>2, <3>3 DEF Items
    <3> QED BY <1>5, <1>9, <3>1, <3>2, <3>3, <3>4, <3>5
  <2>2. CASE h.kind = "redirect" /\ owner' = [owner EXCEPT ![s].dropping = <<h>>]
    <3> DEFINE u == <<h>>
               o == [owner[s] EXCEPT !.dropping = u]
    <3>1. owner' = [owner EXCEPT ![s] = o]
      BY <2>2
    <3>2. u \in Seq(Commands) /\ Len(u) <= 1
      BY <1>4, Single
    <3>3. /\ DistinctIn(Tail(q), owner[s].redirect, NoEnvelope, u)
          /\ ItemsIn(Tail(q), owner[s].redirect, NoEnvelope, u)
               = ItemsIn(q, owner[s].redirect, NoEnvelope, <<>>)
      BY <1>1, <1>3, TakenAndDropped DEF h, Places
    <3> HIDE DEF u
    <3>4. /\ o \in Owners /\ o.redirect = owner[s].redirect /\ o.close = NoEnvelope
          /\ o.dropping = u /\ o.pc = "active"
      BY <1>1, <1>2, <1>3, <3>2 DEF Owners
    <3> HIDE DEF o
    <3>5. Phases(f, o, ledger[s])
      BY <1>5, <3>2, <3>4 DEF Phases
    <3>6. Items(f, o) = Items(fifo[s], owner[s])
      BY <1>3, <1>5, <3>3, <3>4 DEF Items
    <3> QED BY <1>5, <1>9, <3>1, <3>3, <3>4, <3>5, <3>6
  <2>3. CASE /\ h.kind = "close"
             /\ owner' = [owner EXCEPT ![s].pc = "ending", ![s].close = h,
                            ![s].redirect = NoEnvelope, ![s].dropping = Kept(owner[s].redirect)]
    <3> DEFINE u == Kept(owner[s].redirect)
               o == [owner[s] EXCEPT !.pc = "ending", !.close = h, !.redirect = NoEnvelope,
                                     !.dropping = u]
    <3>1. owner' = [owner EXCEPT ![s] = o]
      BY <2>3
    <3>2. u \in Seq(Commands) /\ Len(u) <= 1
      <4>1. CASE owner[s].redirect = NoEnvelope
        BY <4>1 DEF Kept
      <4>2. CASE owner[s].redirect # NoEnvelope
        <5>1. owner[s].redirect \in Commands /\ u = <<owner[s].redirect>>
          BY <1>3, <4>2 DEF Kept, Places
        <5> QED BY <5>1, Single
      <4> QED BY <4>1, <4>2
    <3>3. /\ DistinctIn(Tail(q), NoEnvelope, h, u)
          /\ ItemsIn(Tail(q), NoEnvelope, h, u)
               = ItemsIn(q, owner[s].redirect, NoEnvelope, <<>>)
      BY <1>1, <1>3, TakenAsClose DEF h
    <3> HIDE DEF u
    <3>4. /\ o \in Owners /\ o.redirect = NoEnvelope /\ o.close = h
          /\ o.dropping = u /\ o.pc = "ending"
      BY <1>2, <1>8, <2>3, <3>2 DEF Owners
    <3> HIDE DEF o
    <3>5. Phases(f, o, ledger[s])
      BY <1>5, <3>2, <3>4 DEF Phases
    <3>6. Items(f, o) = Items(fifo[s], owner[s])
      BY <1>3, <1>5, <3>3, <3>4 DEF Items
    <3> QED BY <1>5, <1>9, <3>1, <3>3, <3>4, <3>5, <3>6
  <2> QED BY <1>7, <2>1, <2>2, <2>3
<1>10. SessionInv(f, o, ledger[s])
  BY <1>2, <1>5, <1>9, Moved
<1> QED BY <1>1, <1>2, <1>9, <1>10, SessionChange

LEMMA EndInv == ASSUME IInv, NEW s \in Sessions, End(s) PROVE IInv'
<1> DEFINE q == fifo[s].entries
           d == Held(s) \o q
           f == [registered |-> FALSE, closed |-> TRUE, entries |-> <<>>]
           o == [owner[s] EXCEPT !.pc = "release", !.redirect = NoEnvelope,
                                 !.close = NoEnvelope, !.dropping = d]
<1>1. /\ fifo' = [fifo EXCEPT ![s] = f] /\ owner' = [owner EXCEPT ![s] = o]
      /\ ledger' = ledger /\ bounds' = bounds /\ source' = source
      /\ worker' = worker /\ router' = router
      /\ owner[s].pc = "ending" /\ owner[s].dropping = <<>>
  BY DEF End
<1>2. /\ SessionInv(fifo[s], owner[s], ledger[s])
      /\ ledger = [ledger EXCEPT ![s] = ledger[s]]
      /\ fifo[s] \in Fifos /\ owner[s] \in Owners
      /\ router \in Routers
      /\ KnownTo(router, ledger[s].at) /\ KnownTo(router, ledger[s].redirect.to)
      /\ \A t \in Sessions : /\ KnownTo(router, ledger[t].at)
                             /\ KnownTo(router, ledger[t].redirect.to)
  BY AtSession
<1>3. /\ q \in Seq(Commands) /\ owner[s].redirect \in Places /\ owner[s].close \in Places
      /\ DistinctIn(q, owner[s].redirect, owner[s].close, <<>>)
      /\ Items(fifo[s], owner[s]) = ItemsIn(q, owner[s].redirect, owner[s].close, <<>>)
      /\ Len(q) <= Capacity /\ Len(q) \in Nat
  BY <1>1, <1>2 DEF Owners, Fifos, Places, Commands, SessionInv, Phases, Items
<1>4. /\ DistinctIn(<<>>, NoEnvelope, NoEnvelope, d)
      /\ ItemsIn(<<>>, NoEnvelope, NoEnvelope, d)
           = ItemsIn(q, owner[s].redirect, owner[s].close, <<>>)
      /\ d \in Seq(Commands) /\ Len(d) <= Len(q) + 2
  <2> HIDE DEF q
  <2> QED BY <1>3, AllDropped DEF Held
<1>5. f \in Fifos /\ f.entries = <<>> /\ f.closed /\ Len(f.entries) <= Capacity
  BY CapacityAssumption DEF Fifos
<1>6. Len(d) <= Capacity + 2
  <2>1. Len(d) \in Nat
    BY <1>4
  <2> HIDE DEF q, d
  <2> QED BY <1>3, <1>4, <2>1, CapacityAssumption
<1> HIDE DEF d, f, q
<1>7. /\ o \in Owners /\ o.redirect = NoEnvelope /\ o.close = NoEnvelope
      /\ o.dropping = d /\ o.pc = "release"
  BY <1>2, <1>4 DEF Owners
<1> HIDE DEF o
<1>8. Phases(f, o, ledger[s])
  BY <1>5, <1>6, <1>7 DEF Phases
<1>9. Items(f, o) = Items(fifo[s], owner[s]) /\ DistinctIn(f.entries, o.redirect, o.close, o.dropping)
  BY <1>3, <1>4, <1>5, <1>7 DEF Items
<1>10. SessionInv(f, o, ledger[s])
  BY <1>2, <1>5, <1>7, <1>8, <1>9, Moved
<1> QED BY <1>1, <1>2, <1>9, <1>10, SessionChange

-----------------------------------------------------------------------------
(* The worker, the sources and time                                        *)

LEMMA NoneOrSome == 0 \in 0 .. Cardinality(Sessions) /\ Cardinality(Sessions) \in Nat
BY SessionsAssumption, FS_CardinalityType

LEMMA NoAccountIsOne == NoAccount \in Accounts /\ \A r : KnownTo(r, NoAccount)
BY DEF NoAccount, Accounts, KnownTo

\* A step that moves no envelope and leaves the ledger alone.
LEMMA RouterChange ==
    ASSUME IInv, bounds' = bounds, source' \in SourceSets, source'.gen <= bounds.publications,
           router' \in Routers, worker' \in Workers,
           fifo' = fifo, owner' = owner, ledger' = ledger,
           \A t \in Sessions : /\ KnownTo(router', ledger[t].at)
                               /\ KnownTo(router', ledger[t].redirect.to),
           \/ worker' = worker /\ router' = router
           \/ /\ worker'.pc \notin {"admit", "confirm"}
              /\ worker'.pc = "offer" => KnownTo(router', worker'.to)
              /\ worker'.pc # "offer" => worker'.to = NoAccount
    PROVE  IInv'
<1>1. /\ ledger \in [Sessions -> Ledgers] /\ fifo \in [Sessions -> Fifos]
      /\ owner \in [Sessions -> Owners] /\ bounds \in Bounds
      /\ \A s \in Sessions : SessionInv(fifo[s], owner[s], ledger[s])
  BY DEF IInv, Types
<1>2. Types'
  BY <1>1 DEF Types
<1>3. SentIsCarried' /\ ChargedKnown'
  <2>1. CASE worker' = worker /\ router' = router
    BY <2>1 DEF IInv, SentIsCarried, ChargedKnown
  <2>2. CASE /\ worker'.pc \notin {"admit", "confirm"}
             /\ worker'.pc = "offer" => KnownTo(router', worker'.to)
             /\ worker'.pc # "offer" => worker'.to = NoAccount
    BY <2>2 DEF SentIsCarried, ChargedKnown
  <2> QED BY <2>1, <2>2
<1> QED BY <1>1, <1>2, <1>3 DEF IInv

LEMMA Now ==
    ASSUME IInv
    PROVE  /\ bounds \in Bounds /\ source \in SourceSets /\ source.gen <= bounds.publications
           /\ source.gen \in Nat /\ bounds.publications \in Nat
           /\ router \in Routers /\ worker \in Workers
           /\ \A t \in Sessions : /\ KnownTo(router, ledger[t].at)
                                  /\ KnownTo(router, ledger[t].redirect.to)
           /\ worker.pc \in {"offer", "admit"} => KnownTo(router, worker.to)
           /\ worker.pc \notin {"offer", "admit"} => worker.to = NoAccount
<1>1. /\ bounds \in Bounds /\ source \in SourceSets /\ source.gen <= bounds.publications
      /\ router \in Routers /\ worker \in Workers
  BY DEF IInv, Types
<1>2. source.gen \in Nat /\ bounds.publications \in Nat
  BY <1>1 DEF SourceSets, Bounds
<1>3. /\ \A t \in Sessions : /\ KnownTo(router, ledger[t].at)
                             /\ KnownTo(router, ledger[t].redirect.to)
      /\ worker.pc \in {"offer", "admit"} => KnownTo(router, worker.to)
      /\ worker.pc \notin {"offer", "admit"} => worker.to = NoAccount
  BY DEF IInv, ChargedKnown
<1> QED BY <1>1, <1>2, <1>3

LEMMA WaitingIs == ASSUME NEW w \in Workers 
                  PROVE  Waiting(w) \in Workers /\ Waiting(w).pc = "wait" /\ Waiting(w).to = NoAccount
<1>1. NoAccount \in Accounts /\ 0 \in 0 .. Cardinality(Sessions)
  BY NoneOrSome, NoAccountIsOne
<1> QED BY <1>1 DEF Waiting, Workers

LEMMA SourceInv == ASSUME IInv, Publish \/ Replace PROVE IInv'
<1>1. CASE Publish
  <2>1. PICK x \in bounds.sources : source' = [gen |-> source.gen + 1, members |-> x.members,
                                               healthy |-> x.healthy, failed |-> x.failed]
    BY <1>1 DEF Publish
  <2>2. x \in [members : SUBSET Backends, healthy : SUBSET Backends, failed : SUBSET Backends]
    BY Now DEF Bounds
  <2>3. source' \in SourceSets /\ source'.gen = source.gen + 1
    BY <2>1, <2>2, Now DEF SourceSets
  <2>4. source'.gen <= bounds.publications
    BY <1>1, <2>3, Now DEF Publish
  <2> QED BY <1>1, <2>3, <2>4, Now, RouterChange DEF Publish
<1>2. CASE Replace
  BY <1>2, Now, RouterChange DEF Replace
<1> QED BY <1>1, <1>2

LEMMA ClockInv == ASSUME IInv, PauseEnds \/ (\E b \in Backends : FailoverDue(b)) PROVE IInv'
<1>0. ~Locked => worker.pc \notin {"admit", "confirm", "offer"}
  BY DEF Locked
<1>1. CASE PauseEnds
  <2>1. router' = [router EXCEPT !.paced = FALSE] /\ ~Locked
    BY <1>1 DEF PauseEnds
  <2>2. router' \in Routers /\ router'.known = router.known
    BY <2>1, Now DEF Routers
  <2>3. \A a : KnownTo(router, a) => KnownTo(router', a)
    BY <2>2, SameKnown
  <2> QED BY <1>0, <1>1, <2>1, <2>2, <2>3, Now, RouterChange DEF PauseEnds
<1>2. ASSUME NEW b \in Backends, FailoverDue(b) PROVE IInv'
  <2> DEFINE k == [router.known EXCEPT ![b].since = "due"]
  <2>1. router' = [router EXCEPT !.known = k] /\ ~Locked
    BY <1>2 DEF FailoverDue
  <2>2. router.known \in [Backends -> KnownBackends]
    BY Now DEF Routers
  <2>3. k \in [Backends -> KnownBackends]
    BY <2>2 DEF KnownBackends
  <2>4. \A c \in Backends : k[c].here = router.known[c].here /\ k[c].seq = router.known[c].seq
    BY <2>2 DEF KnownBackends
  <2> HIDE DEF k
  <2>5. router' \in Routers /\ router'.known = k
    BY <2>1, <2>3, Now DEF Routers
  <2>6. \A a : KnownTo(router, a) => KnownTo(router', a)
    BY <2>4, <2>5, SameKnown
  <2> QED BY <1>0, <1>2, <2>1, <2>5, <2>6, Now, RouterChange DEF FailoverDue
<1> QED BY <1>1, <1>2

\* Between rounds.
LEMMA BetweenRoundsInv ==
    ASSUME IInv, Wake \/ Stop \/ Capture \/ Stale \/ RefreshFailover PROVE IInv'
<1>1. CASE Wake
  <2>0. (worker.seen = source.gen) \in BOOLEAN
    OBVIOUS
  <2>1. worker' \in Workers /\ worker'.pc = "woken" /\ worker'.to = NoAccount
    BY <1>1, <2>0, Now DEF Wake, Workers
  <2> QED BY <1>1, <2>1, Now, RouterChange DEF Wake
<1>2. CASE Stop
  <2>1. worker' \in Workers /\ worker'.pc = "stopped" /\ worker'.to = NoAccount
    BY <1>2, Now DEF Stop, Workers
  <2> QED BY <1>2, <2>1, Now, RouterChange DEF Stop
<1>3. CASE Capture
  <2>1. worker' \in Workers /\ worker'.pc = "captured" /\ worker'.to = NoAccount
    BY <1>3, Now DEF Capture, Workers
  <2> QED BY <1>3, <2>1, Now, RouterChange DEF Capture
<1>4. CASE Stale
  <2>1. worker' \in Workers /\ worker'.pc = "wait" /\ worker'.to = NoAccount
    BY <1>4, Now, WaitingIs DEF Stale
  <2> QED BY <1>4, <2>1, Now, RouterChange DEF Stale
<1>5. CASE RefreshFailover
  <2>1. worker' \in Workers /\ worker'.pc = "wait" /\ worker'.to = NoAccount
    BY <1>5, Now, WaitingIs DEF RefreshFailover
  <2>2. router' \in Routers
        /\ \A t \in Sessions : KnownTo(router', ledger[t].at) /\ KnownTo(router', ledger[t].redirect.to)
    BY <1>5, RefreshCharged, FailoverKeeps DEF RefreshFailover
  <2> QED BY <1>5, <2>1, <2>2, Now, RouterChange DEF RefreshFailover
<1> QED BY <1>1, <1>2, <1>3, <1>4, <1>5

\* The budget of a pair with sessions is within the sessions.
LEMMA BudgetFits ==
    ASSUME NEW r, NEW src, NEW p \in Pairs(r, ledger, src)
    PROVE  Budget(r, src, p) \in 0 .. Cardinality(Sessions)
<1> DEFINE S == Active(ledger, Account(r, p[1]))
<1>1. S \subseteq Sessions /\ S # {}
  BY DEF Pairs, Active
<1> HIDE DEF S
<1>2. IsFiniteSet(S) /\ Cardinality(S) <= Cardinality(Sessions) /\ Cardinality(S) \in Nat
  BY <1>1, SessionsAssumption, FS_Subset, FS_CardinalityType
<1>3. Cardinality(S) # 0
  BY <1>1, <1>2, FS_EmptySet
<1>4. Cardinality(S) \in 0 .. Cardinality(Sessions) /\ 1 \in 0 .. Cardinality(Sessions)
  BY <1>2, <1>3, NoneOrSome
<1>5. Budget(r, src, p) \in {Cardinality(S), 0, 1}
  BY DEF Budget, S
<1> QED BY <1>4, <1>5, NoneOrSome

LEMMA StartRoundInv == ASSUME IInv, StartRound PROVE IInv'
<1> DEFINE r == Refresh(router, ledger, source)
           pairs == {p \in WorstPair(r, ledger, source) :
                       r.supports /\ bounds.keyspace[p[1]] = bounds.keyspace[p[2]]}
           p == CHOOSE p \in pairs : TRUE
<1>1. /\ router' = r
      /\ worker' = IF pairs = {} THEN [worker EXCEPT !.pc = "offer", !.todo = {}]
                   ELSE [worker EXCEPT !.pc = "offer",
                           !.todo = Active(ledger, Account(r, p[1])),
                           !.to = Account(r, p[2]),
                           !.budget = Budget(r, source, p)]
      /\ worker.pc = "captured"
  BY DEF StartRound
<1>2. /\ r \in Routers
      /\ \A t \in Sessions : KnownTo(r, ledger[t].at) /\ KnownTo(r, ledger[t].redirect.to)
  BY RefreshCharged
<1>3. worker \in Workers /\ worker.to = NoAccount
  BY <1>1, Now
<1>4. CASE pairs = {}
  <2>1. worker' = [worker EXCEPT !.pc = "offer", !.todo = {}]
    BY <1>1, <1>4
  <2>2. worker' \in Workers /\ worker'.pc = "offer" /\ worker'.to = NoAccount
    BY <1>3, <2>1 DEF Workers
  <2>3. KnownTo(router', worker'.to)
    BY <2>2, NoAccountIsOne
  <2> HIDE DEF r, pairs, p
  <2> QED BY <1>1, <1>2, <2>2, <2>3, Now, RouterChange DEF StartRound
<1>5. CASE pairs # {}
  <2>1. p \in pairs
    BY <1>5
  <2>2. p \in Pairs(r, ledger, source)
    BY <2>1 DEF WorstPair
  <2> DEFINE todo == Active(ledger, Account(r, p[1]))
             to == Account(r, p[2])
             budget == Budget(r, source, p)
  <2>3. worker' = [worker EXCEPT !.pc = "offer", !.todo = todo, !.to = to, !.budget = budget]
    BY <1>1, <1>5
  <2> HIDE DEF r, pairs, p
  <2>4. todo \subseteq Sessions
    BY DEF Active
  <2>5. p[2] \in Here(r) /\ p[2] \in Backends
    BY <2>2 DEF Pairs, Here
  <2>6. to \in Accounts /\ KnownTo(r, to)
    BY <1>2, <2>5, AccountsAre
  <2>7. budget \in 0 .. Cardinality(Sessions)
    BY <2>2, BudgetFits
  <2> HIDE DEF todo, to, budget
  <2>8. worker' \in Workers /\ worker'.pc = "offer" /\ worker'.to = to
    BY <1>3, <2>3, <2>4, <2>6, <2>7 DEF Workers
  <2> QED BY <1>1, <1>2, <2>6, <2>8, Now, RouterChange DEF StartRound
<1> QED BY <1>4, <1>5

\* Within a round.
LEMMA RoundInv ==
    ASSUME IInv, AbortRound \/ StartCloses \/ EndRound \/ (\E s \in Sessions : Skip(s))
    PROVE  IInv'
<1>1. CASE AbortRound
  <2>1. worker' \in Workers /\ worker'.pc = "wait" /\ worker'.to = NoAccount
    BY <1>1, Now, WaitingIs DEF AbortRound
  <2> QED BY <1>1, <2>1, Now, RouterChange DEF AbortRound
<1>2. CASE EndRound
  <2>1. worker' \in Workers /\ worker'.pc = "wait" /\ worker'.to = NoAccount
    BY <1>2, Now, WaitingIs DEF EndRound
  <2> QED BY <1>2, <2>1, Now, RouterChange DEF EndRound
<1>3. CASE StartCloses
  <2> DEFINE todo == UNION {Active(ledger, Account(router, b)) :
                              b \in {b \in Here(router) : router.known[b].since = "due"}}
  <2>1. worker' = [worker EXCEPT !.pc = "close", !.to = NoAccount, !.budget = 0, !.todo = todo]
    BY <1>3 DEF StartCloses
  <2>2. todo \subseteq Sessions
    BY DEF Active
  <2> HIDE DEF todo
  <2>3. worker' \in Workers /\ worker'.pc = "close" /\ worker'.to = NoAccount
    BY <2>1, <2>2, Now, NoneOrSome, NoAccountIsOne DEF Workers
  <2> QED BY <1>3, <2>3, Now, RouterChange DEF StartCloses
<1>4. ASSUME NEW s \in Sessions, Skip(s) PROVE IInv'
  <2>1. /\ worker' = [worker EXCEPT !.todo = worker.todo \ {s}]
        /\ worker.pc \in {"offer", "close"}
    BY <1>4 DEF Skip
  <2>2. worker.todo \ {s} \subseteq Sessions
    BY Now DEF Workers
  <2>3. worker' \in Workers /\ worker'.pc = worker.pc /\ worker'.to = worker.to
    BY <2>1, <2>2, Now DEF Workers
  <2> QED BY <1>4, <2>1, <2>3, Now, RouterChange DEF Skip
<1> QED BY <1>1, <1>2, <1>3, <1>4

Put(f, x) == [f EXCEPT !.entries = Append(f.entries, x)]

\* A session takes a command with a new token into its FIFO.
LEMMA Enqueued ==
    ASSUME NEW f, NEW o, NEW l, SessionInv(f, o, l), l.stage = "active",
           ~f.closed, Len(f.entries) < Capacity, NEW x \in Commands,
           \A y \in Items(f, o) : y.seq # x.seq
    PROVE  SessionInv(Put(f, x), o, l) /\ Items(Put(f, x), o) = Items(f, o) \cup {x}
<1> DEFINE q == f.entries
           a == Append(q, x)
           g == [f EXCEPT !.entries = a]
<1>1. /\ f \in Fifos /\ o \in Owners /\ q \in Seq(Commands) /\ o.dropping \in Seq(Commands)
      /\ o.redirect \in Places /\ o.close \in Places
      /\ DistinctIn(q, o.redirect, o.close, o.dropping) /\ Phases(f, o, l)
  BY DEF SessionInv, Fifos, Owners, Places, Commands
<1>2. a \in Seq(Commands) /\ Len(a) = Len(q) + 1 /\ Len(q) \in Nat
  BY <1>1
<1>3. Len(a) <= Capacity
  <2> HIDE DEF a
  <2> QED BY <1>2, CapacityAssumption
<1>4. /\ DistinctIn(a, o.redirect, o.close, o.dropping)
      /\ ItemsIn(a, o.redirect, o.close, o.dropping)
           = ItemsIn(q, o.redirect, o.close, o.dropping) \cup {x}
  BY <1>1, Appended DEF Items
<1> HIDE DEF a
<1>5. g \in Fifos /\ g.entries = a /\ g.closed = f.closed
  BY <1>1, <1>2 DEF Fifos
<1> HIDE DEF g
<1>6. Items(g, o) = Items(f, o) \cup {x}
  BY <1>4, <1>5 DEF Items
<1>7. Phases(g, o, l)
  <2>1. o.pc \notin {"new", "routing", "dialing", "release", "closed"}
    BY <1>1 DEF Phases
  <2> QED BY <1>1, <1>3, <1>5, <2>1 DEF Phases
<1>8. SessionInv(g, o, l)
  BY <1>1, <1>4, <1>5, <1>6, <1>7, Moved
<1> QED BY <1>6, <1>8 DEF g, a, Put

\* The worker sends a command; whether it was accepted is known, and not yet
\* in the ledger.
LEMMA SendInv ==
    ASSUME IInv, NEW s \in Sessions, NEW e \in Commands, NEW next, Send(s, e, next),
           e.seq = Token(s), ledger[s].stage = "active", ledger[s].closing = 0,
           \/ /\ next = "admit" /\ worker.pc = "offer" /\ worker.budget > 0
              /\ e \in Redirects /\ ledger[s].redirect = NoEnvelope /\ e.to = worker.to
           \/ next = "confirm" /\ worker.pc = "close" /\ e \in Closes
    PROVE  IInv'
<1> DEFINE ok == Accepts(s)
           sent == [session |-> s, envelope |-> e, accepted |-> ok]
           g == Put(fifo[s], e)
<1>1. /\ fifo' = IF ok THEN [fifo EXCEPT ![s] = g] ELSE fifo
      /\ worker' = [worker EXCEPT !.pc = next, !.todo = worker.todo \ {s}, !.sent = sent]
      /\ source' = source /\ router' = router /\ ledger' = ledger /\ owner' = owner
      /\ bounds' = bounds
  BY DEF Send, Put
<1>2. /\ SessionInv(fifo[s], owner[s], ledger[s]) /\ worker \in Workers
      /\ \A t \in Sessions : SessionInv(fifo[t], owner[t], ledger[t])
      /\ fifo \in [Sessions -> Fifos] /\ ledger \in [Sessions -> Ledgers]
      /\ owner \in [Sessions -> Owners]
  BY DEF IInv, Types
<1>3. ok \in BOOLEAN
  BY DEF Accepts
<1>4. ok => /\ SessionInv(g, owner[s], ledger[s]) /\ e \in Items(g, owner[s])
            /\ g \in Fifos
  <2>1. \A y \in Items(fifo[s], owner[s]) : y.seq # e.seq
    BY <1>2, TokenIsNew
  <2>2. ASSUME ok PROVE SessionInv(g, owner[s], ledger[s]) /\ e \in Items(g, owner[s])
    <3>1. ~fifo[s].closed /\ Len(fifo[s].entries) < Capacity
      BY <2>2 DEF Accepts
    <3> QED BY <1>2, <2>1, <3>1, Enqueued
  <2> QED BY <2>2 DEF SessionInv
<1> HIDE DEF g, ok
<1>5. /\ fifo' \in [Sessions -> Fifos]
      /\ \A t \in Sessions : SessionInv(fifo'[t], owner[t], ledger[t])
      /\ ok => e \in Items(fifo'[s], owner[s])
  <2>1. CASE ok
    <3>1. fifo' = [fifo EXCEPT ![s] = g]
      BY <1>1, <2>1
    <3>2. fifo' \in [Sessions -> Fifos] /\ fifo'[s] = g
          /\ \A t \in Sessions : t # s => fifo'[t] = fifo[t]
      BY <1>2, <1>4, <2>1, <3>1
    <3> QED BY <1>2, <1>4, <2>1, <3>2
  <2>2. CASE ~ok
    BY <1>1, <1>2, <2>2
  <2> QED BY <2>1, <2>2
<1>6. sent \in Sent
  BY <1>3 DEF Sent
<1>7. worker.todo \ {s} \subseteq Sessions
  BY <1>2 DEF Workers
<1>8. sent.session = s /\ sent.envelope = e /\ sent.accepted = ok
  OBVIOUS
<1> HIDE DEF sent
<1>9. /\ worker' \in Workers /\ worker'.pc = next /\ worker'.to = worker.to
      /\ worker'.budget = worker.budget /\ worker'.sent = sent
  BY <1>1, <1>2, <1>6, <1>7 DEF Workers
<1>10. Types'
  BY <1>1, <1>2, <1>5, <1>9, Now DEF Types
<1>11. KnownTo(router, worker.to)
  BY Now, NoAccountIsOne
<1>12. SentIsCarried'
  BY <1>1, <1>5, <1>8, <1>9, <1>11 DEF SentIsCarried
<1>13. ChargedKnown'
  BY <1>1, <1>9, Now DEF ChargedKnown
<1> QED BY <1>1, <1>5, <1>10, <1>12, <1>13 DEF IInv

LEMMA OfferInv ==
    ASSUME IInv, NEW s \in Sessions, OfferRedirect(s) \/ OfferClose(s) PROVE IInv'
<1>1. Token(s) \in Nat \ {0} /\ ledger[s] \in Ledgers
  BY AtSession, TokenIsNew
<1>2. CASE OfferRedirect(s)
  <2> DEFINE e == [kind |-> "redirect", seq |-> Token(s), to |-> worker.to]
  <2>1. worker.to \in Accounts
    BY Now DEF Workers
  <2>2. e \in Redirects /\ e.seq = Token(s) /\ e.to = worker.to
    BY <1>1, <2>1 DEF Redirects
  <2>3. /\ Send(s, e, "admit") /\ worker.pc = "offer" /\ worker.budget > 0
        /\ ledger[s].stage = "active" /\ ledger[s].closing = 0 /\ ledger[s].redirect.seq = 0
    BY <1>2 DEF OfferRedirect, Redirectable
  <2>4. ledger[s].redirect = NoEnvelope
    BY <1>1, <2>3 DEF Ledgers, Redirects
  <2> HIDE DEF e
  <2> QED BY <2>2, <2>3, <2>4, SendInv DEF Commands
<1>3. CASE OfferClose(s)
  <2> DEFINE e == [kind |-> "close", seq |-> Token(s), to |-> NoAccount]
  <2>1. e \in Closes /\ e.seq = Token(s)
    BY <1>1, NoAccountIsOne DEF Closes
  <2>2. /\ Send(s, e, "confirm") /\ worker.pc = "close"
        /\ ledger[s].stage = "active" /\ ledger[s].closing = 0
    BY <1>3 DEF OfferClose, Closeable
  <2> HIDE DEF e
  <2> QED BY <2>1, <2>2, SendInv DEF Commands
<1> QED BY <1>2, <1>3

\* The ledger takes the verdict of the FIFO.
LEMMA VerdictInv ==
    ASSUME IInv, NEW s \in Sessions, NEW l, SessionInv(fifo[s], owner[s], l),
           ledger' = [ledger EXCEPT ![s] = l], router' \in Routers,
           \A a : KnownTo(router, a) => KnownTo(router', a),
           KnownTo(router, l.at), KnownTo(router, l.redirect.to),
           worker' \in Workers,
           \/ worker'.pc = "offer" /\ KnownTo(router, worker'.to)
           \/ worker'.pc = "close" /\ worker'.to = NoAccount,
           source' = source, fifo' = fifo, owner' = owner, bounds' = bounds
    PROVE  IInv'
<1>1. /\ ledger \in [Sessions -> Ledgers] /\ fifo \in [Sessions -> Fifos]
      /\ owner \in [Sessions -> Owners]
      /\ \A t \in Sessions : SessionInv(fifo[t], owner[t], ledger[t])
  BY DEF IInv, Types
<1>2. l \in Ledgers
  BY DEF SessionInv
<1>3. /\ ledger' \in [Sessions -> Ledgers] /\ ledger'[s] = l
      /\ \A t \in Sessions : t # s => ledger'[t] = ledger[t]
  BY <1>1, <1>2
<1>4. \A t \in Sessions : SessionInv(fifo'[t], owner'[t], ledger'[t])
  BY <1>1, <1>3
<1>5. \A t \in Sessions : KnownTo(router', ledger'[t].at) /\ KnownTo(router', ledger'[t].redirect.to)
  BY <1>3, Now
<1>6. Types'
  BY <1>1, <1>3, Now DEF Types
<1>7. SentIsCarried' /\ ChargedKnown'
  BY <1>5 DEF SentIsCarried, ChargedKnown
<1> QED BY <1>4, <1>6, <1>7 DEF IInv

LEMMA NothingSentIs == NothingSent \in Sent
BY DEF NothingSent, Sent

LEMMA AdmitRedirectInv == ASSUME IInv, AdmitRedirect PROVE IInv'
<1> DEFINE s == worker.sent.session
           e == worker.sent.envelope
           a == [ledger[s] EXCEPT !.redirect = e]
           c == [ledger[s] EXCEPT !.cool = TRUE]
           b == worker.budget - 1
<1>1. worker.pc = "admit" /\ source' = source /\ fifo' = fifo /\ owner' = owner /\ bounds' = bounds
  BY DEF AdmitRedirect
<1>2. /\ s \in Sessions /\ ledger[s].stage = "active" /\ ledger[s].closing = 0
      /\ e \in Redirects /\ ledger[s].redirect = NoEnvelope
      /\ worker.budget > 0 /\ KnownTo(router, e.to)
      /\ worker.sent.accepted => e \in Items(fifo[s], owner[s])
  BY <1>1 DEF IInv, SentIsCarried
<1>3. worker \in Workers /\ router \in Routers /\ KnownTo(router, worker.to)
  BY <1>1, Now
<1>4. \/ /\ worker.sent.accepted
         /\ ledger' = [ledger EXCEPT ![s] = a] /\ router' = [router EXCEPT !.paced = TRUE]
         /\ worker' = [worker EXCEPT !.pc = "offer", !.budget = b, !.sent = NothingSent]
      \/ /\ ledger' = [ledger EXCEPT ![s] = c] /\ router' = router
         /\ worker' = [worker EXCEPT !.pc = "offer", !.sent = NothingSent]
  BY DEF AdmitRedirect
<1>5. b \in 0 .. Cardinality(Sessions)
  BY <1>2, <1>3, NoneOrSome DEF Workers
<1> HIDE DEF s, e, b
<1>6. /\ SessionInv(fifo[s], owner[s], ledger[s]) /\ ledger[s] \in Ledgers
      /\ KnownTo(router, ledger[s].at) /\ KnownTo(router, ledger[s].redirect.to)
  BY <1>2, AtSession
<1>7. CASE /\ worker.sent.accepted
           /\ ledger' = [ledger EXCEPT ![s] = a] /\ router' = [router EXCEPT !.paced = TRUE]
           /\ worker' = [worker EXCEPT !.pc = "offer", !.budget = b, !.sent = NothingSent]
  <2>1. /\ a \in Ledgers /\ a.stage = "active" /\ a.closing = 0 /\ a.redirect = e
        /\ a.at = ledger[s].at
    BY <1>2, <1>6 DEF Ledgers
  <2>2. SessionInv(fifo[s], owner[s], a)
    <3> HIDE DEF a
    <3>1. Phases(fifo[s], owner[s], a)
      BY <1>2, <1>6, <2>1 DEF SessionInv, Phases
    <3>2. Awaited(fifo[s], owner[s], a)
      BY <1>2, <1>7, <2>1 DEF Awaited
    <3> QED BY <1>6, <2>1, <3>1, <3>2 DEF SessionInv
  <2>3. router' \in Routers /\ router'.known = router.known
    BY <1>3, <1>7 DEF Routers
  <2>4. \A x : KnownTo(router, x) => KnownTo(router', x)
    BY <2>3, SameKnown
  <2>5. worker' \in Workers /\ worker'.pc = "offer" /\ worker'.to = worker.to
    BY <1>3, <1>5, <1>7, NothingSentIs DEF Workers
  <2> HIDE DEF a
  <2> QED BY <1>1, <1>2, <1>3, <1>6, <1>7, <2>1, <2>2, <2>3, <2>4, <2>5, VerdictInv
<1>8. CASE /\ ledger' = [ledger EXCEPT ![s] = c] /\ router' = router
           /\ worker' = [worker EXCEPT !.pc = "offer", !.sent = NothingSent]
  <2>1. /\ c \in Ledgers /\ c.stage = ledger[s].stage /\ c.closing = ledger[s].closing
        /\ c.redirect = ledger[s].redirect /\ c.at = ledger[s].at
    BY <1>6 DEF Ledgers
  <2> HIDE DEF c
  <2>2. SessionInv(fifo[s], owner[s], c)
    BY <1>6, <2>1 DEF SessionInv, Phases, Awaited
  <2>3. worker' \in Workers /\ worker'.pc = "offer" /\ worker'.to = worker.to
    BY <1>3, <1>8, NothingSentIs DEF Workers
  <2> QED BY <1>1, <1>2, <1>3, <1>6, <1>8, <2>1, <2>2, <2>3, VerdictInv
<1> QED BY <1>4, <1>7, <1>8

LEMMA AdmitCloseInv == ASSUME IInv, AdmitClose PROVE IInv'
<1> DEFINE s == worker.sent.session
           e == worker.sent.envelope
           a == [ledger[s] EXCEPT !.closing = e.seq]
           c == [ledger[s] EXCEPT !.cool = TRUE]
<1>1. /\ worker.pc = "confirm" /\ source' = source /\ fifo' = fifo /\ owner' = owner
      /\ bounds' = bounds /\ router' = router
      /\ worker' = [worker EXCEPT !.pc = "close", !.sent = NothingSent]
  BY DEF AdmitClose
<1>2. /\ s \in Sessions /\ ledger[s].stage = "active" /\ ledger[s].closing = 0
      /\ e \in Closes
      /\ worker.sent.accepted => e \in Items(fifo[s], owner[s])
  BY <1>1 DEF IInv, SentIsCarried
<1>3. worker \in Workers /\ router \in Routers /\ worker.to = NoAccount
  BY <1>1, Now
<1>4. \/ worker.sent.accepted /\ ledger' = [ledger EXCEPT ![s] = a]
      \/ ledger' = [ledger EXCEPT ![s] = c]
  BY DEF AdmitClose
<1> HIDE DEF s, e
<1>5. /\ SessionInv(fifo[s], owner[s], ledger[s]) /\ ledger[s] \in Ledgers
      /\ KnownTo(router, ledger[s].at) /\ KnownTo(router, ledger[s].redirect.to)
  BY <1>2, AtSession
<1>6. worker' \in Workers /\ worker'.pc = "close" /\ worker'.to = NoAccount
  BY <1>1, <1>3, NothingSentIs DEF Workers
<1>7. CASE worker.sent.accepted /\ ledger' = [ledger EXCEPT ![s] = a]
  <2>1. /\ a \in Ledgers /\ a.stage = "active" /\ a.closing = e.seq
        /\ a.redirect = ledger[s].redirect /\ a.at = ledger[s].at
    BY <1>2, <1>5 DEF Ledgers, Closes
  <2> HIDE DEF a
  <2>2. SessionInv(fifo[s], owner[s], a)
    <3>1. Phases(fifo[s], owner[s], a)
      BY <1>2, <1>5, <2>1 DEF SessionInv, Phases
    <3>2. Awaited(fifo[s], owner[s], a)
      BY <1>2, <1>5, <1>7, <2>1 DEF SessionInv, Awaited
    <3> QED BY <1>5, <2>1, <3>1, <3>2 DEF SessionInv
  <2> QED BY <1>1, <1>2, <1>3, <1>5, <1>6, <1>7, <2>1, <2>2, VerdictInv
<1>8. CASE ledger' = [ledger EXCEPT ![s] = c]
  <2>1. /\ c \in Ledgers /\ c.stage = ledger[s].stage /\ c.closing = ledger[s].closing
        /\ c.redirect = ledger[s].redirect /\ c.at = ledger[s].at
    BY <1>5 DEF Ledgers
  <2> HIDE DEF c
  <2>2. SessionInv(fifo[s], owner[s], c)
    BY <1>5, <2>1 DEF SessionInv, Phases, Awaited
  <2> QED BY <1>1, <1>2, <1>3, <1>5, <1>6, <1>8, <2>1, <2>2, VerdictInv
<1> QED BY <1>4, <1>7, <1>8

\* redirect_all_to_self: each session by itself.
LEMMA RedirectAllInv == ASSUME IInv, RedirectAll PROVE IInv'
<1> DEFINE offered == {s \in Sessions : ledger[s].stage = "active" /\ ledger[s].redirect.seq = 0
                                          /\ ledger[s].closing = 0}
           e(s) == [kind |-> "redirect", seq |-> Token(s), to |-> ledger[s].at]
           taken == {s \in offered : Accepts(s)}
<1>1. /\ ledger' = [s \in Sessions |->
                      IF s \in taken THEN [ledger[s] EXCEPT !.redirect = e(s)]
                      ELSE IF s \in offered THEN [ledger[s] EXCEPT !.cool = TRUE]
                      ELSE ledger[s]]
      /\ fifo' = [s \in Sessions |-> IF s \in taken THEN Put(fifo[s], e(s)) ELSE fifo[s]]
      /\ source' = source /\ router' = router /\ owner' = owner /\ worker' = worker
      /\ bounds' = bounds /\ ~Locked
  BY DEF RedirectAll, Put
<1>2. ASSUME NEW s \in Sessions
      PROVE  /\ SessionInv(fifo'[s], owner[s], ledger'[s])
             /\ KnownTo(router, ledger'[s].at) /\ KnownTo(router, ledger'[s].redirect.to)
  <2>1. /\ SessionInv(fifo[s], owner[s], ledger[s]) /\ ledger[s] \in Ledgers
        /\ KnownTo(router, ledger[s].at) /\ KnownTo(router, ledger[s].redirect.to)
    BY AtSession
  <2>2. CASE s \in taken
    <3> DEFINE a == [ledger[s] EXCEPT !.redirect = e(s)]
               g == Put(fifo[s], e(s))
    <3>1. ledger'[s] = a /\ fifo'[s] = g
      BY <1>1, <2>2
    <3>2. /\ ledger[s].stage = "active" /\ ledger[s].redirect.seq = 0 /\ ledger[s].closing = 0
          /\ ~fifo[s].closed /\ Len(fifo[s].entries) < Capacity
      BY <2>2 DEF Accepts
    <3>3. Token(s) \in Nat \ {0} /\ \A y \in Items(fifo[s], owner[s]) : y.seq # Token(s)
      BY <2>1, TokenIsNew
    <3>4. ledger[s].at \in Accounts
      BY <2>1 DEF Ledgers
    <3>5. e(s) \in Redirects /\ e(s).seq = Token(s) /\ e(s).to = ledger[s].at
      BY <3>3, <3>4 DEF Redirects
    <3> HIDE DEF e
    <3>6. SessionInv(g, owner[s], ledger[s]) /\ e(s) \in Items(g, owner[s])
      BY <2>1, <3>2, <3>3, <3>5, Enqueued DEF Commands
    <3>7. /\ a \in Ledgers /\ a.stage = "active" /\ a.closing = 0 /\ a.redirect = e(s)
          /\ a.at = ledger[s].at
      BY <2>1, <3>2, <3>5 DEF Ledgers
    <3> HIDE DEF a, g
    <3>8. Phases(g, owner[s], a)
      BY <3>2, <3>6, <3>7 DEF SessionInv, Phases
    <3>9. Awaited(g, owner[s], a)
      BY <3>6, <3>7 DEF Awaited
    <3>10. SessionInv(g, owner[s], a)
      BY <3>6, <3>7, <3>8, <3>9 DEF SessionInv
    <3> QED BY <2>1, <3>1, <3>5, <3>7, <3>10
  <2>3. CASE s \notin taken
    <3> DEFINE c == [ledger[s] EXCEPT !.cool = TRUE]
    <3>1. fifo'[s] = fifo[s] /\ ledger'[s] \in {c, ledger[s]}
      BY <1>1, <2>3
    <3>2. /\ c \in Ledgers /\ c.stage = ledger[s].stage /\ c.closing = ledger[s].closing
          /\ c.redirect = ledger[s].redirect /\ c.at = ledger[s].at
      BY <2>1 DEF Ledgers
    <3> HIDE DEF c, taken
    <3>3. SessionInv(fifo[s], owner[s], c)
      BY <2>1, <3>2 DEF SessionInv, Phases, Awaited
    <3> QED BY <2>1, <3>1, <3>2, <3>3
  <2> QED BY <2>2, <2>3
<1>3. ledger' = [s \in Sessions |-> ledger'[s]] /\ fifo' = [s \in Sessions |-> fifo'[s]]
  BY <1>1
<1> HIDE DEF offered, e, taken
<1>4. ledger' \in [Sessions -> Ledgers] /\ fifo' \in [Sessions -> Fifos]
  BY <1>2, <1>3 DEF SessionInv
<1>5. Types'
  <2>1. owner \in [Sessions -> Owners]
    BY DEF IInv, Types
  <2> QED BY <1>1, <1>4, <2>1, Now DEF Types
<1>6. worker.pc \notin {"offer", "admit", "confirm"}
  BY <1>1 DEF Locked
<1>7. SentIsCarried' /\ ChargedKnown'
  BY <1>1, <1>2, <1>6, Now DEF SentIsCarried, ChargedKnown
<1> QED BY <1>1, <1>2, <1>5, <1>7 DEF IInv

-----------------------------------------------------------------------------
(* The invariant                                                           *)

LEMMA InitIInv == Init => IInv
<1> SUFFICES ASSUME Init PROVE IInv
  OBVIOUS
<1>1. bounds \in Bounds
  BY InstancesAssumption DEF Init
<1>2. PICK x \in bounds.sources : source = [gen |-> 0, members |-> x.members,
                                            healthy |-> x.healthy, failed |-> x.failed]
  BY DEF Init
<1>3. x \in [members : SUBSET Backends, healthy : SUBSET Backends, failed : SUBSET Backends]
  BY <1>1 DEF Bounds
<1>4. bounds.publications \in Nat
  BY <1>1 DEF Bounds
<1>5. source \in SourceSets /\ source.gen <= bounds.publications
  BY <1>2, <1>3, <1>4 DEF SourceSets
<1>6. router \in Routers
  BY <1>4 DEF Init, Routers, KnownBackends, Unknown
<1> DEFINE l == [stage |-> "none", at |-> NoAccount, redirect |-> NoEnvelope,
                 closing |-> 0, cool |-> FALSE]
           f == [registered |-> FALSE, closed |-> FALSE, entries |-> <<>>]
           o == [pc |-> "new", tried |-> {}, redirect |-> NoEnvelope,
                 close |-> NoEnvelope, dropping |-> <<>>]
<1>7. /\ ledger = [s \in Sessions |-> l] /\ fifo = [s \in Sessions |-> f]
      /\ owner = [s \in Sessions |-> o]
  BY DEF Init
<1>8. /\ l \in Ledgers /\ l.stage = "none" /\ l.at = NoAccount /\ l.redirect = NoEnvelope
      /\ l.closing = 0
  BY NoAccountIsOne DEF Ledgers
<1>9. f \in Fifos /\ f.entries = <<>>
  BY DEF Fifos
<1>10. /\ o \in Owners /\ o.pc = "new" /\ o.redirect = NoEnvelope /\ o.close = NoEnvelope
       /\ o.dropping = <<>>
  BY DEF Owners
<1> HIDE DEF l, f, o
<1>11. Len(<<>>) = 0 /\ (\A i \in 1 .. Len(<<>>) : FALSE) /\ Capacity \in Nat
  BY CapacityAssumption
<1>12. Items(f, o) = {}
  BY <1>9, <1>10, <1>11 DEF Items, ItemsIn
<1>13. DistinctIn(f.entries, o.redirect, o.close, o.dropping)
  BY <1>9, <1>10, <1>11 DEF DistinctIn, Apart
<1>14. Phases(f, o, l)
  BY <1>8, <1>9, <1>10, <1>11, <1>12 DEF Phases
<1>15. SessionInv(f, o, l)
  BY <1>8, <1>9, <1>10, <1>13, <1>14 DEF SessionInv, Awaited
<1>16. /\ worker \in Workers /\ worker.pc = "woken" /\ worker.to = NoAccount
  BY NoneOrSome, NoAccountIsOne, NothingSentIs DEF Init, Workers
<1>17. Types
  BY <1>1, <1>5, <1>6, <1>7, <1>8, <1>9, <1>10, <1>16 DEF Types
<1>18. SentIsCarried
  BY <1>16 DEF SentIsCarried
<1>19. NoEnvelope.to = NoAccount
  BY DEF NoEnvelope
<1>20. ChargedKnown
  BY <1>7, <1>8, <1>16, <1>19, NoAccountIsOne DEF ChargedKnown
<1> QED BY <1>7, <1>15, <1>17, <1>18, <1>20 DEF IInv

LEMMA NextIInv == IInv /\ [Next]_vars => IInv'
<1> SUFFICES ASSUME IInv, [Next]_vars PROVE IInv'
  OBVIOUS
<1>1. CASE Publish \/ Replace
  BY <1>1, SourceInv
<1>2. CASE RedirectAll
  BY <1>2, RedirectAllInv
<1>3. CASE WorkerStep
  <2>1. CASE Wake \/ Stop \/ Capture \/ Stale \/ RefreshFailover
    BY <2>1, BetweenRoundsInv
  <2>2. CASE StartRound
    BY <2>2, StartRoundInv
  <2>3. CASE AbortRound \/ StartCloses \/ EndRound \/ (\E s \in Sessions : Skip(s))
    BY <2>3, RoundInv
  <2>4. CASE AdmitRedirect
    BY <2>4, AdmitRedirectInv
  <2>5. CASE AdmitClose
    BY <2>5, AdmitCloseInv
  <2>6. ASSUME NEW s \in Sessions, OfferRedirect(s) \/ OfferClose(s) PROVE IInv'
    BY <2>6, OfferInv
  <2> QED BY <1>3, <2>1, <2>2, <2>3, <2>4, <2>5, <2>6 DEF WorkerStep
<1>4. CASE Clock
  <2>1. ASSUME NEW s \in Sessions, CoolDown(s) PROVE IInv'
    BY <2>1, CoolDownInv
  <2> QED BY <1>4, <2>1, ClockInv DEF Clock
<1>5. ASSUME NEW s \in Sessions,
             \/ Open(s) \/ Leave(s) \/ DialFailed(s) \/ RedirectFinished(s, FALSE)
             \/ SessionStep(s)
      PROVE  IInv'
  <2>1. CASE Open(s)
    BY <2>1, OpenInv
  <2>2. CASE Leave(s)
    BY <2>2, LeaveInv
  <2>3. CASE DialFailed(s)
    BY <2>3, DialFailedInv
  <2>4. CASE RedirectFinished(s, FALSE)
    BY <2>4, RedirectFinishedInv
  <2>5. CASE RedirectFinished(s, TRUE)
    BY <2>5, RedirectFinishedInv
  <2>6. CASE Reserve(s)
    BY <2>6, ReserveInv
  <2>7. CASE Connected(s)
    BY <2>7, ConnectedInv
  <2>8. CASE Receive(s)
    BY <2>8, ReceiveInv
  <2>9. CASE SettleDropped(s)
    BY <2>9, SettleDroppedInv
  <2>10. CASE End(s)
    BY <2>10, EndInv
  <2>11. CASE Release(s)
    BY <2>11, ReleaseInv
  <2> QED BY <1>5, <2>1, <2>2, <2>3, <2>4, <2>5, <2>6, <2>7, <2>8, <2>9, <2>10, <2>11
          DEF SessionStep
<1>6. CASE UNCHANGED vars
  BY <1>6 DEF vars, IInv, Types, SentIsCarried, ChargedKnown
<1> QED BY <1>1, <1>2, <1>3, <1>4, <1>5, <1>6 DEF Next

LEMMA Implied == IInv => RouterConsistent
<1> SUFFICES ASSUME IInv PROVE RouterConsistent
  OBVIOUS
<1>1. TypeOK
  <2>1. source.members \subseteq Backends /\ source.gen \in 0 .. bounds.publications
    BY Now DEF SourceSets
  <2>2. \A b \in Backends : router.known[b].since \in {"no", "fresh", "due"}
    BY Now DEF Routers, KnownBackends
  <2>3. Redirects \cup {NoEnvelope} \subseteq Envelopes /\ Closes \cup {NoEnvelope} \subseteq Envelopes
    BY NoAccountIsOne DEF Redirects, Closes, Envelopes, NoEnvelope
  <2>4. ASSUME NEW s \in Sessions
        PROVE  /\ ledger[s].stage \in {"none", "idle", "pending", "active"}
               /\ ledger[s].at \in Accounts /\ ledger[s].redirect \in Envelopes
               /\ owner[s].redirect \in Envelopes /\ owner[s].close \in Envelopes
    BY <2>3, AtSession DEF Ledgers, Owners
  <2>5. worker.budget \in 0 .. Cardinality(Sessions) /\ worker.todo \subseteq Sessions
    BY Now DEF Workers
  <2> QED BY <2>1, <2>2, <2>4, <2>5 DEF TypeOK
<1>2. PendingIsOwned
  BY AtSession, AwaitedOnce DEF PendingIsOwned
<1>3. OwnersAreKnown
  BY AtSession DEF OwnersAreKnown, KnownTo
<1> QED BY <1>1, <1>2, <1>3 DEF RouterConsistent

\* Whatever the sources publish and however sessions, worker, operator and time
\* interleave: between two holders of the router lock a redirect or a close that
\* the ledger waits for is in exactly one envelope, and every account that is
\* charged is the one its backend has (offer_redirect_locked, admit_close,
\* TerminalGuard::drop, refresh_backend_metadata).
THEOREM Consistency == Spec => []RouterConsistent
<1>1. Spec => []IInv
  BY InitIInv, NextIInv, PTL DEF Spec
<1> QED BY <1>1, Implied, PTL
=============================================================================
