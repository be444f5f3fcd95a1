-------------------------- MODULE ConfigStoreProofs --------------------------
(***************************************************************************)
(* Proofs about ConfigStore, for any sections, namespaces, values, queue   *)
(* and budgets.  The published view is always the composition of what the  *)
(* store keeps (Fit), and every operation of the store starts a new        *)
(* incarnation under a generation nobody has seen (Succeeds).  The overlay *)
(* is etcd's as soon as nothing is on its way (OverlayFollows), because an *)
(* own write that is applied ahead of the watch leaves the reader behind   *)
(* until a candidate that includes it is queued (WriteIsAhead).            *)
(***************************************************************************)
EXTENDS ConfigStore, FiniteSetTheorems, TLAPS

Entries == [key : Keys, keys : [Keys -> 0 .. Malformed]]
Candidates == [rev : Nat, replace : BOOLEAN]
Overlays == [Online -> Values \cup {Absent}]
Documents == [Online -> Values \cup {Absent, Malformed}]
NamespaceMaps == [Names -> Values \cup {Absent}]
Stores ==
    [generation : Nat, rev : Nat, effective : [Online -> Values], base : [Online -> Values],
     overlay : Overlays, namespaces : NamespaceMaps, accepted : NamespaceMaps,
     born : [Names -> Nat], loaded : 0 .. 2, seeded : BOOLEAN]
Mutations == [key : Keys \cup {"none"}, value : Values \cup {Absent}, rev : Nat]
Modules ==
    [pc : {"running", "waiting", "failed"}, leading : BOOLEAN, ready : BOOLEAN,
     bootstrapped : BOOLEAN, missing : SUBSET Online, content : Overlays,
     fingerprint : 0 .. 2, rejected : BOOLEAN, mutation : Mutations]

\* The types of the variables, as sets.
Types ==
    /\ hist \in Seq(Entries)
    /\ reader \in [up : BOOLEAN, at : Nat]
    /\ queue \in Seq(Candidates)
    /\ store \in Stores
    /\ module \in Modules
    /\ disk \in Documents
    /\ material \in 0 .. 2
    /\ left \in Budgets

\* A store whose view is the composition of its parts, in which no incarnation
\* is younger than the view.
Fit(s) ==
    /\ s \in Stores
    /\ s.effective = Compose(s.base, s.overlay)
    /\ s.namespaces = s.accepted
    /\ \A n \in Names : s.born[n] <= s.generation

\* What comes after s: an incarnation that is not one of s has a generation
\* that s did not know.
Succeeds(s, t) ==
    /\ t.generation >= s.generation
    /\ \A n \in Names : t.namespaces[n] # Absent =>
         t.born[n] > s.generation \/ (t.born[n] = s.born[n] /\ t.namespaces[n] = s.namespaces[n])

\* Nothing is ahead of etcd, and the last candidate queued is where the reader is.
InStep ==
    /\ reader.at <= Len(hist) /\ store.rev <= Len(hist)
    /\ Len(queue) <= QueueCap
    /\ \A i \in 1 .. Len(queue) : queue[i].rev <= Len(hist)
    /\ queue # <<>> => queue[Len(queue)].rev = reader.at

\* The answer the module waits for is of a write that etcd has; a section
\* written is ahead of the reader unless a candidate is queued.
WriteIsAhead ==
    module.pc = "waiting" =>
        /\ module.mutation.key \in Keys /\ module.mutation.rev <= Len(hist)
        /\ module.mutation.key \in Online /\ queue = <<>> => reader.at < Len(hist)

\* When nothing is on its way, the overlay is what etcd holds.
OnlineAt(r) == [k \in Online |-> At(r)[k]]
OverlayFollows ==
    reader.at = Len(hist) /\ queue = <<>> /\ ~module.rejected => store.overlay = OnlineAt(Len(hist))

\* The inductive invariant.
IInv ==
    /\ Types /\ Fit(store) /\ InStep /\ WriteIsAhead /\ OverlayFollows
    /\ NamespaceAuthority

-----------------------------------------------------------------------------
(* Operators of the store                                                  *)

LEMMA ValueFacts == 1 \in Values /\ Absent \notin Values /\ Malformed \notin Values
BY ConfigAssumption DEF Values, Absent, Malformed

LEMMA NothingTyped == Nothing \in [Keys -> 0 .. Malformed]
<1>1. MaxValue \in Nat
  BY ConfigAssumption
<1>2. Absent \in 0 .. Malformed
  BY <1>1 DEF Absent, Malformed
<1> QED BY <1>2 DEF Nothing

LEMMA Composed ==
    ASSUME NEW base \in [Online -> Values], NEW patch \in Overlays
    PROVE  Merge(base, patch) \in [Online -> Values] /\ Compose(base, patch) \in [Online -> Values]
BY DEF Merge, Compose, Overlays

\* A snapshot keeps what the store keeps beside its view, and carries the
\* incarnations that are the same.
LEMMA SnapshotFacts ==
    ASSUME NEW s \in Stores, \A n \in Names : s.born[n] <= s.generation,
           NEW effective \in [Online -> Values], NEW namespaces \in NamespaceMaps,
           NEW rev \in Nat, material \in 0 .. 2
    PROVE  LET t == Snapshot(s, effective, namespaces, rev)
           IN  /\ t \in Stores
               /\ t.effective = effective /\ t.namespaces = namespaces /\ t.rev = rev
               /\ t.base = s.base /\ t.overlay = s.overlay /\ t.accepted = s.accepted
               /\ t.generation = s.generation + 1
               /\ \A n \in Names : t.born[n] <= t.generation
               /\ Succeeds(s, t)
<1> DEFINE g == s.generation + 1
           b == [n \in Names |-> IF Carried(s, namespaces, n) THEN s.born[n] ELSE g]
           t == Snapshot(s, effective, namespaces, rev)
<1>1. s.generation \in Nat /\ g \in Nat /\ s.born \in [Names -> Nat]
  BY DEF Stores
<1>2. b \in [Names -> Nat] /\ \A n \in Names : b[n] <= g
  BY <1>1
<1>3. t = [s EXCEPT !.generation = g, !.rev = rev, !.effective = effective,
                    !.namespaces = namespaces, !.loaded = material, !.born = b]
  BY DEF Snapshot
<1>4. \A n \in Names : b[n] # g => b[n] = s.born[n] /\ namespaces[n] = s.namespaces[n]
  BY DEF Carried
<1>5. g > s.generation
  BY <1>1
<1> HIDE DEF g, b, t
<1>6. /\ t \in Stores
      /\ t.effective = effective /\ t.namespaces = namespaces /\ t.rev = rev
      /\ t.base = s.base /\ t.overlay = s.overlay /\ t.accepted = s.accepted
      /\ t.generation = g /\ t.born = b
  BY <1>1, <1>2, <1>3 DEF Stores
<1>7. Succeeds(s, t)
  BY <1>1, <1>2, <1>4, <1>5, <1>6 DEF Succeeds
<1> QED BY <1>2, <1>6, <1>7 DEF g, t

LEMMA PublishFacts ==
    ASSUME NEW s \in Stores, \A n \in Names : s.born[n] <= s.generation,
           NEW effective \in [Online -> Values], NEW namespaces \in NamespaceMaps,
           NEW rev \in Nat, material \in 0 .. 2
    PROVE  LET t == PublishCandidate(s, effective, namespaces, rev)
           IN  /\ t \in Stores
               /\ t.effective = effective /\ t.namespaces = namespaces /\ t.rev \in {s.rev, rev}
               /\ t.base = s.base /\ t.overlay = s.overlay /\ t.accepted = s.accepted
               /\ \A n \in Names : t.born[n] <= t.generation
               /\ Succeeds(s, t)
<1>1. CASE Changes(s, effective, namespaces)
  BY <1>1, SnapshotFacts DEF PublishCandidate
<1>2. CASE ~Changes(s, effective, namespaces)
  <2>1. PublishCandidate(s, effective, namespaces, rev) = s
    BY <1>2 DEF PublishCandidate
  <2>2. s.effective = effective /\ s.namespaces = namespaces
    BY <1>2 DEF Changes
  <2>3. Succeeds(s, s)
    BY DEF Succeeds, Stores
  <2> QED BY <2>1, <2>2, <2>3
<1> QED BY <1>1, <1>2

LEMMA TomlFacts ==
    ASSUME NEW s, Fit(s), NEW patch \in Overlays, material \in 0 .. 2
    PROVE  LET t == ApplyToml(s, patch)
           IN  Fit(t) /\ Succeeds(s, t) /\ t.overlay = s.overlay /\ t.rev = s.rev
<1> DEFINE base == Merge(s.base, patch)
           effective == Compose(base, s.overlay)
           u == PublishCandidate(s, effective, s.accepted, s.rev)
           t == ApplyToml(s, patch)
<1>1. /\ s \in Stores /\ s.base \in [Online -> Values] /\ s.overlay \in Overlays
      /\ s.accepted \in NamespaceMaps /\ s.rev \in Nat
  BY DEF Fit, Stores
<1>2. base \in [Online -> Values] /\ effective \in [Online -> Values]
  BY <1>1, Composed
<1>3. t = [u EXCEPT !.base = base]
  BY DEF ApplyToml
<1> HIDE DEF base, t
<1>4. /\ u \in Stores /\ u.effective = effective /\ u.namespaces = s.accepted /\ u.rev = s.rev
      /\ u.overlay = s.overlay /\ u.accepted = s.accepted
      /\ \A n \in Names : u.born[n] <= u.generation
      /\ Succeeds(s, u)
  <2> HIDE DEF effective
  <2> QED BY <1>1, <1>2, PublishFacts DEF Fit
<1> HIDE DEF u
<1>5. /\ t \in Stores /\ t.effective = u.effective /\ t.namespaces = u.namespaces /\ t.rev = u.rev
      /\ t.overlay = u.overlay /\ t.accepted = u.accepted /\ t.base = base
      /\ t.born = u.born /\ t.generation = u.generation
  BY <1>2, <1>3, <1>4 DEF Stores
<1> QED BY <1>4, <1>5 DEF Fit, Succeeds, t

LEMMA PersistentFacts ==
    ASSUME NEW s, Fit(s), NEW overlay \in Overlays, NEW namespaces \in NamespaceMaps,
           NEW rev \in Nat, material \in 0 .. 2
    PROVE  LET t == ApplyPersistent(s, overlay, namespaces, rev)
           IN  /\ Fit(t) /\ Succeeds(s, t) /\ t.rev \in {s.rev, rev}
               /\ s.rev <= rev => t.overlay = overlay
               /\ t.overlay \in {s.overlay, overlay}
<1> DEFINE effective == Compose(s.base, overlay)
           u == PublishCandidate(s, effective, namespaces, rev)
           t == ApplyPersistent(s, overlay, namespaces, rev)
<1>1. s \in Stores /\ s.base \in [Online -> Values] /\ s.rev \in Nat
  BY DEF Fit, Stores
<1>2. effective \in [Online -> Values]
  BY <1>1, Composed
<1>3. CASE Outdated(s, rev)
  <2>1. t = s /\ ~(s.rev <= rev)
    BY <1>1, <1>3 DEF ApplyPersistent, Outdated
  <2>2. Succeeds(s, s)
    BY <1>1 DEF Succeeds, Stores
  <2> QED BY <2>1, <2>2
<1>4. CASE ~Outdated(s, rev)
  <2>1. t = [u EXCEPT !.overlay = overlay, !.accepted = namespaces]
    BY <1>4 DEF ApplyPersistent
  <2> HIDE DEF t
  <2>2. /\ u \in Stores /\ u.effective = effective /\ u.namespaces = namespaces
        /\ u.rev \in {s.rev, rev} /\ u.base = s.base
        /\ \A n \in Names : u.born[n] <= u.generation
        /\ Succeeds(s, u)
    <3> HIDE DEF effective
    <3> QED BY <1>1, <1>2, PublishFacts DEF Fit
  <2> HIDE DEF u
  <2>3. /\ t \in Stores /\ t.effective = u.effective /\ t.namespaces = u.namespaces
        /\ t.rev = u.rev /\ t.overlay = overlay /\ t.accepted = namespaces
        /\ t.base = u.base /\ t.born = u.born /\ t.generation = u.generation
    BY <2>1, <2>2 DEF Stores
  <2>4. Fit(t) /\ Succeeds(s, t)
    BY <2>2, <2>3 DEF Fit, Succeeds
  <2> QED BY <2>2, <2>3, <2>4 DEF t
<1> QED BY <1>3, <1>4

LEMMA SeedFacts ==
    ASSUME NEW s, Fit(s), material \in 0 .. 2
    PROVE  LET t == BootstrapNamespaces(s)
           IN  Fit(t) /\ Succeeds(s, t) /\ t.rev = s.rev /\ t.overlay = s.overlay
<1> DEFINE seed == [n \in Names |-> IF n = Implicit THEN 1 ELSE Absent]
           tried == [s EXCEPT !.seeded = TRUE]
           effective == Compose(s.base, s.overlay)
           u == PublishCandidate(tried, effective, seed, s.rev)
           t == BootstrapNamespaces(s)
<1>1. /\ s \in Stores /\ s.base \in [Online -> Values] /\ s.overlay \in Overlays /\ s.rev \in Nat
      /\ seed \in NamespaceMaps
  BY ValueFacts DEF Fit, Stores, NamespaceMaps
<1>2. effective \in [Online -> Values]
  BY <1>1, Composed
<1>3. /\ tried \in Stores /\ tried.generation = s.generation /\ tried.born = s.born
      /\ tried.rev = s.rev /\ tried.overlay = s.overlay /\ tried.base = s.base
      /\ tried.namespaces = s.namespaces /\ tried.accepted = s.accepted
      /\ tried.effective = s.effective
  BY <1>1 DEF Stores
<1>4. t = IF NoNamespaces(s) /\ Valid THEN [u EXCEPT !.accepted = seed] ELSE tried
  BY DEF BootstrapNamespaces
<1> HIDE DEF t, tried, seed
<1>5. CASE NoNamespaces(s) /\ Valid
  <2>1. /\ u \in Stores /\ u.effective = effective /\ u.namespaces = seed /\ u.rev = s.rev
        /\ u.base = s.base /\ u.overlay = s.overlay
        /\ \A n \in Names : u.born[n] <= u.generation
        /\ Succeeds(tried, u)
    <3> HIDE DEF effective
    <3> QED BY <1>1, <1>2, <1>3, PublishFacts DEF Fit
  <2> HIDE DEF u
  <2>2. /\ t \in Stores /\ t.effective = u.effective /\ t.namespaces = u.namespaces
        /\ t.rev = u.rev /\ t.overlay = u.overlay /\ t.accepted = seed
        /\ t.base = u.base /\ t.born = u.born /\ t.generation = u.generation
    BY <1>1, <1>4, <1>5, <2>1 DEF Stores
  <2>3. Fit(t) /\ Succeeds(s, t)
    BY <1>3, <2>1, <2>2 DEF Fit, Succeeds
  <2> QED BY <2>1, <2>2, <2>3 DEF t
<1>6. CASE ~(NoNamespaces(s) /\ Valid)
  <2>1. t = tried
    BY <1>4, <1>6
  <2>2. Fit(t) /\ Succeeds(s, t)
    BY <1>3, <2>1 DEF Fit, Succeeds, Stores
  <2> QED BY <1>3, <2>1, <2>2 DEF t
<1> QED BY <1>5, <1>6

LEMMA RefreshFacts ==
    ASSUME NEW s, Fit(s), material \in 0 .. 2
    PROVE  LET t == RefreshExternalMaterial(s)
           IN  Fit(t) /\ Succeeds(s, t) /\ t.rev = s.rev /\ t.overlay = s.overlay
<1>1. s \in Stores /\ s.effective \in [Online -> Values] /\ s.namespaces \in NamespaceMaps /\ s.rev \in Nat
  BY DEF Fit, Stores
<1> QED BY <1>1, SnapshotFacts DEF Fit, RefreshExternalMaterial

LEMMA SucceedsTwice ==
    ASSUME NEW s, NEW t, NEW u, Fit(s), Fit(t), Fit(u), Succeeds(s, t), Succeeds(t, u)
    PROVE  Succeeds(s, u)
BY DEF Fit, Stores, Succeeds

\* The authority is exactly that of the new view: what it does not carry is
\* revoked, what it begins is new.
LEMMA Installed ==
    ASSUME NEW t, Fit(store), Fit(t), Succeeds(store, t), permits = Authorities(store), Install(t)
    PROVE  Fit(store)' /\ NamespaceAuthority' /\ store' = t
<1>1. store' = t /\ Fit(store)'
  BY DEF Install, Fit, Compose, Merge, Stores
<1>2. permits' = Authorities(t)
  <2>1. ASSUME NEW p \in permits, ~Retired(t, p) PROVE p \in Authorities(t)
    BY <2>1 DEF Authorities, Retired, Fit, Stores, Succeeds
  <2>2. ASSUME NEW p \in Authorities(t), ~(p.born > store.generation)
        PROVE  p \in permits /\ ~Retired(t, p)
    BY <2>2 DEF Authorities, Retired, Fit, Stores, Succeeds
  <2> QED BY <2>1, <2>2 DEF Install
<1>3. NamespaceAuthority'
  BY <1>1, <1>2 DEF NamespaceAuthority, Authorities
<1> QED BY <1>1, <1>3

-----------------------------------------------------------------------------
(* The history and the budget                                              *)

\* h continues the history.
Continues(h) ==
    /\ h \in Seq(Entries) /\ Len(h) >= Len(hist)
    /\ \A r \in 1 .. Len(hist) : h[r] = hist[r]

LEMMA AtTyped ==
    ASSUME hist \in Seq(Entries), NEW r \in 0 .. Len(hist)
    PROVE  At(r) \in [Keys -> 0 .. Malformed]
<1>1. CASE r = 0
  BY <1>1, NothingTyped DEF At
<1>2. CASE r # 0
  <2>1. r \in 1 .. Len(hist)
    BY <1>2
  <2>2. hist[r] \in Entries
    BY <2>1
  <2>3. hist[r].keys \in [Keys -> 0 .. Malformed]
    BY <2>2 DEF Entries
  <2> QED BY <1>2, <2>3 DEF At
<1> QED BY <1>1, <1>2

\* What etcd held at a revision stays what it held.
LEMMA HistoryKept ==
    ASSUME hist \in Seq(Entries), Continues(hist'), NEW r \in 0 .. Len(hist)
    PROVE  At(r)' = At(r) /\ OnlineAt(r)' = OnlineAt(r)
BY DEF Continues, At, OnlineAt, Nothing

LEMMA WrittenContinues ==
    ASSUME hist \in Seq(Entries), NEW k \in Keys, NEW v \in 0 .. Malformed
    PROVE  Continues(Written(hist, k, v)) /\ Len(Written(hist, k, v)) = Len(hist) + 1
<1> DEFINE keys == IF hist = <<>> THEN Nothing ELSE Last(hist).keys
           e == [key |-> k, keys |-> [keys EXCEPT ![k] = v]]
<1>1. keys \in [Keys -> 0 .. Malformed]
  <2>1. hist = <<>> \/ Len(hist) \in 1 .. Len(hist)
    OBVIOUS
  <2>2. Len(hist) \in 1 .. Len(hist) => hist[Len(hist)] \in Entries
    OBVIOUS
  <2>3. Len(hist) \in 1 .. Len(hist) => hist[Len(hist)].keys \in [Keys -> 0 .. Malformed]
    BY <2>2 DEF Entries
  <2> QED BY <2>1, <2>3, NothingTyped DEF Last
<1>2. e \in Entries
  BY <1>1 DEF Entries
<1>3. Written(hist, k, v) = Append(hist, e)
  BY DEF Written
<1> HIDE DEF e
<1> QED BY <1>2, <1>3 DEF Continues

\* The keys created are those that were missing: none that is there changes.
LEMMA CreatesContinue ==
    ASSUME hist \in Seq(Entries), NEW missing \in SUBSET Online, NEW base \in [Online -> Values],
           NEW n \in 0 .. Cardinality(Create(missing))
    PROVE  LET h == InitializeMissing(missing, base, n)
           IN  /\ Continues(h)
               /\ n = 0 => h = hist
               /\ n > 0 => \A k \in Keys : Latest[k] # Absent => h[Len(h)].keys[k] = Latest[k]
<1> DEFINE S == Create(missing)
           order == SetToSeq(S)
           e(i) == [key |-> order[i],
                    keys |-> [k \in Keys |-> IF \E j \in 1 .. i : order[j] = k THEN base[k]
                                             ELSE Latest[k]]]
           new == [i \in 1 .. n |-> e(i)]
           h == InitializeMissing(missing, base, n)
<1>1. S \subseteq Online /\ IsFiniteSet(S) /\ Cardinality(S) \in Nat
  <2>1. IsFiniteSet(Online) /\ S \in SUBSET Online
    BY ConfigAssumption DEF Create
  <2> QED BY <2>1, FS_Subset, FS_CardinalityType
<1>2. order \in [1 .. Cardinality(S) -> S]
  <2>1. ExistsBijection(1 .. Cardinality(S), S)
    BY <1>1, FS_CardinalityType
  <2>2. \E f \in [1 .. Cardinality(S) -> S] : IsInjective(f)
    BY <2>1 DEF ExistsBijection, Bijection, Injection, IsInjective
  <2> QED BY <2>2 DEF SetToSeq
<1>3. Latest \in [Keys -> 0 .. Malformed]
  BY AtTyped DEF Latest
<1>4. \A i \in 1 .. n : e(i) \in Entries
  <2>1. TAKE i \in 1 .. n
  <2>2. order[i] \in Keys
    BY <1>1, <1>2 DEF Keys
  <2>3. ASSUME NEW k \in Keys
        PROVE  (IF \E j \in 1 .. i : order[j] = k THEN base[k] ELSE Latest[k]) \in 0 .. Malformed
    <3>1. CASE \E j \in 1 .. i : order[j] = k
      <4>1. k \in Online
        BY <1>1, <1>2, <3>1
      <4>2. base[k] \in 0 .. Malformed
        BY <4>1, ConfigAssumption DEF Values, Malformed
      <4> QED BY <3>1, <4>2
    <3>2. CASE ~\E j \in 1 .. i : order[j] = k
      BY <1>3, <3>2
    <3> QED BY <3>1, <3>2
  <2> QED BY <2>2, <2>3 DEF Entries
<1>5. new \in Seq(Entries) /\ Len(new) = n
  <2> HIDE DEF e
  <2> QED BY <1>1, <1>4
<1>6. h = hist \o new
  BY DEF InitializeMissing
<1>7. n > 0 => \A k \in Keys : Latest[k] # Absent => new[n].keys[k] = Latest[k]
  <2> SUFFICES ASSUME n > 0, NEW k \in Keys, Latest[k] # Absent PROVE new[n].keys[k] = Latest[k]
    OBVIOUS
  <2>1. \A j \in 1 .. n : order[j] # k
    BY <1>1, <1>2 DEF Create
  <2>2. new[n] = e(n)
    BY <1>1
  <2> QED BY <2>1, <2>2
<1> HIDE DEF new, h
<1>8. Continues(h) /\ (n = 0 => h = hist) /\ (n > 0 => h[Len(h)] = new[n])
  <2>1. n \in Nat /\ h \in Seq(Entries) /\ Len(h) = Len(hist) + n
    BY <1>1, <1>5, <1>6
  <2>2. \A r \in 1 .. Len(hist) : h[r] = hist[r]
    BY <1>5, <1>6
  <2>3. n = 0 => h = hist
    BY <1>5, <1>6
  <2>4. n > 0 => h[Len(h)] = new[n]
    BY <1>5, <1>6, <2>1
  <2> QED BY <2>1, <2>2, <2>3, <2>4 DEF Continues
<1> QED BY <1>7, <1>8 DEF h

LEMMA Spending ==
    ASSUME left \in Budgets,
           NEW what \in {"writes", "mutations", "files", "materials", "faults"},
           left[what] > 0, Spend(what)
    PROVE  left' \in Budgets
<1> DEFINE v == left[what] - 1
<1>1. v \in Nat
  BY DEF Budgets
<1>2. left' = [left EXCEPT ![what] = v]
  BY DEF Spend
<1> HIDE DEF v
<1> QED BY <1>1, <1>2 DEF Budgets

\* The defaults are created, or not, and the module goes on or fails.
LEMMA TakesMissing ==
    ASSUME Types, NEW m \in Modules, NEW base \in [Online -> Values], TakeMissing(m, base)
    PROVE  /\ Continues(hist') /\ left' \in Budgets
           /\ module' \in Modules /\ module'.pc \in {m.pc, "failed"}
           /\ module'.rejected = m.rejected /\ module'.mutation = m.mutation
           /\ module'.bootstrapped = m.bootstrapped
           /\ \A k \in Keys : Latest[k] # Absent => Latest'[k] = Latest[k]
<1> DEFINE done == [m EXCEPT !.missing = {}]
           all == Cardinality(Create(m.missing))
<1>1. /\ done \in Modules /\ [done EXCEPT !.pc = "failed"] \in Modules
      /\ done.bootstrapped = m.bootstrapped
      /\ [done EXCEPT !.pc = "failed"].bootstrapped = m.bootstrapped
      /\ done.pc = m.pc /\ done.rejected = m.rejected /\ done.mutation = m.mutation
      /\ [done EXCEPT !.pc = "failed"].pc = "failed"
      /\ [done EXCEPT !.pc = "failed"].rejected = m.rejected
      /\ [done EXCEPT !.pc = "failed"].mutation = m.mutation
  BY DEF Modules
<1>2. hist \in Seq(Entries) /\ left \in Budgets /\ m.missing \in SUBSET Online
  BY DEF Types, Modules
<1>3. all \in Nat
  <2>1. IsFiniteSet(Online) /\ Create(m.missing) \in SUBSET Online
    BY <1>2, ConfigAssumption DEF Create
  <2> QED BY <2>1, FS_Subset, FS_CardinalityType
<1>4. /\ \/ hist' = hist
         \/ \E n \in 0 .. all : hist' = InitializeMissing(m.missing, base, n)
      /\ module' \in {done, [done EXCEPT !.pc = "failed"]}
      /\ UNCHANGED left \/ (left.faults > 0 /\ Spend("faults"))
  <2> HIDE DEF done
  <2>1. CASE m.leading /\ m.missing # {}
    <3>1. all \in 0 .. all
      BY <1>3
    <3> QED BY <2>1, <3>1 DEF TakeMissing, done
  <2>2. CASE ~(m.leading /\ m.missing # {})
    BY <2>2 DEF TakeMissing, done
  <2> QED BY <2>1, <2>2
<1> HIDE DEF done, all
<1>5. left' \in Budgets
  BY <1>2, <1>4, Spending
<1>6. Continues(hist') /\ \A k \in Keys : Latest[k] # Absent => Latest'[k] = Latest[k]
  <2>1. CASE hist' = hist
    <3>1. Continues(hist')
      BY <1>2, <2>1 DEF Continues
    <3>2. Latest' = Latest
      BY <2>1 DEF Latest, At, Nothing
    <3> QED BY <3>1, <3>2
  <2>2. CASE \E n \in 0 .. all : hist' = InitializeMissing(m.missing, base, n)
    <3>1. PICK n \in 0 .. all : hist' = InitializeMissing(m.missing, base, n)
      BY <2>2
    <3>2. /\ Continues(hist')
          /\ n = 0 => hist' = hist
          /\ n > 0 => \A k \in Keys : Latest[k] # Absent => hist'[Len(hist')].keys[k] = Latest[k]
      BY <1>2, <3>1, CreatesContinue DEF all
    <3>3. CASE n = 0
      BY <3>2, <3>3 DEF Latest, At, Nothing
    <3>4. CASE n > 0
      <4>2. CASE Len(hist') = 0
        <5>1. Len(hist) = 0 /\ Len(hist) \in Nat
          BY <1>2, <3>2, <4>2 DEF Continues
        <5> QED BY <3>2, <4>2, <5>1 DEF Latest, At, Nothing
      <4>3. CASE Len(hist') # 0
        <5>1. Latest' = hist'[Len(hist')].keys
          BY <4>3 DEF Latest, At
        <5> QED BY <3>2, <3>4, <5>1
      <4> QED BY <4>2, <4>3
    <3>5. n = 0 \/ n > 0
      BY <1>3, <3>1
    <3> QED BY <3>2, <3>3, <3>4, <3>5
  <2> QED BY <1>4, <2>1, <2>2
<1>7. /\ module' \in Modules /\ module'.pc \in {m.pc, "failed"}
      /\ module'.rejected = m.rejected /\ module'.mutation = m.mutation
      /\ module'.bootstrapped = m.bootstrapped
  BY <1>1, <1>4
<1> QED BY <1>5, <1>6, <1>7

-----------------------------------------------------------------------------
(* The steps                                                               *)

LEMMA InitIInv == Init => IInv
<1> SUFFICES ASSUME Init PROVE IInv
  OBVIOUS
<1>1. Base \in [Online -> Values]
  BY ValueFacts DEF Base
<1>2. Types
  <2>1. hist \in Seq(Entries) /\ queue \in Seq(Candidates) /\ reader \in [up : BOOLEAN, at : Nat]
    BY DEF Init
  <2>2. store \in Stores
    BY <1>1 DEF Init, Stores, Overlays, NamespaceMaps
  <2>3. module \in Modules
    BY DEF Init, Modules, Overlays, Mutations, NoMutation
  <2>4. disk \in Documents /\ material \in 0 .. 2 /\ left \in Budgets
    BY ConfigAssumption DEF Init, Documents
  <2> QED BY <2>1, <2>2, <2>3, <2>4 DEF Types
<1>3. Fit(store)
  <2>1. Compose(Base, [k \in Online |-> Absent]) = Base
    BY DEF Compose, Merge, Base
  <2> QED BY <1>2, <2>1 DEF Fit, Types, Init
<1>4. InStep /\ WriteIsAhead
  BY ConfigAssumption DEF Init, InStep, WriteIsAhead
<1>5. OverlayFollows
  BY DEF Init, OverlayFollows, OnlineAt, At, Nothing, Keys
<1>6. NamespaceAuthority
  BY DEF Init, NamespaceAuthority, Authorities
<1> QED BY <1>2, <1>3, <1>4, <1>5, <1>6 DEF IInv

\* A step that continues the history and leaves reader, queue and store alone.
LEMMA HistoryGrows ==
    ASSUME IInv, Continues(hist'), UNCHANGED <<reader, queue, store, permits>>,
           module' \in Modules, disk' \in Documents, material' \in 0 .. 2, left' \in Budgets,
           module'.rejected = module.rejected,
           module'.pc = "waiting" =>
              \/ module.pc = "waiting" /\ module'.mutation = module.mutation
              \/ /\ module'.mutation.key \in Keys /\ module'.mutation.rev <= Len(hist')
                 /\ module'.mutation.key \in Online => Len(hist') > Len(hist)
    PROVE  IInv'
<1>1. /\ hist \in Seq(Entries) /\ Len(hist) \in Nat /\ hist' \in Seq(Entries) /\ Len(hist') \in Nat
      /\ Len(hist') >= Len(hist) /\ store \in Stores /\ reader.at \in Nat /\ store.rev \in Nat
      /\ queue \in Seq(Candidates)
  BY DEF IInv, Types, Continues, Stores
<1>2. Types'
  BY <1>1 DEF IInv, Types
<1>3. Fit(store)' /\ NamespaceAuthority'
  BY DEF IInv, Fit, Compose, Merge, NamespaceAuthority, Authorities
<1>4. InStep'
  <2>1. ASSUME NEW i \in 1 .. Len(queue) PROVE queue[i].rev \in Nat
    <3>1. queue[i] \in Candidates
      BY <1>1
    <3> QED BY <3>1 DEF Candidates
  <2>2. ASSUME NEW i \in 1 .. Len(queue) PROVE queue[i].rev <= Len(hist')
    BY <1>1, <2>1 DEF IInv, InStep
  <2>3. UNCHANGED queue /\ UNCHANGED reader /\ UNCHANGED store
    OBVIOUS
  <2>4. reader.at <= Len(hist') /\ store.rev <= Len(hist')
    BY <1>1 DEF IInv, InStep
  <2> QED BY <2>2, <2>3, <2>4 DEF IInv, InStep
<1>5. WriteIsAhead'
  <2> SUFFICES ASSUME module'.pc = "waiting" PROVE WriteIsAhead'
    BY DEF WriteIsAhead
  <2>1. CASE module.pc = "waiting" /\ module'.mutation = module.mutation
    <3>1. module.mutation.rev \in Nat
      BY DEF IInv, Types, Modules, Mutations
    <3> QED BY <1>1, <2>1, <3>1 DEF IInv, WriteIsAhead
  <2>2. CASE /\ module'.mutation.key \in Keys /\ module'.mutation.rev <= Len(hist')
             /\ module'.mutation.key \in Online => Len(hist') > Len(hist)
    BY <1>1, <2>2 DEF IInv, WriteIsAhead, InStep, Keys
  <2> QED BY <2>1, <2>2
<1>6. OverlayFollows'
  <2> SUFFICES ASSUME (reader.at = Len(hist) /\ queue = <<>> /\ ~module.rejected)'
               PROVE  (store.overlay = OnlineAt(Len(hist)))'
    BY DEF OverlayFollows
  <2>1. Len(hist') = Len(hist) /\ reader.at = Len(hist)
    BY <1>1 DEF IInv, InStep
  <2>2. PICK r \in Nat : r = Len(hist)
    BY <1>1
  <2>3. OnlineAt(r)' = OnlineAt(r)
    BY <1>1, <2>2, HistoryKept
  <2>4. store.overlay = OnlineAt(r)
    BY <2>1, <2>2 DEF IInv, OverlayFollows
  <2>5. OnlineAt(Len(hist))' = OnlineAt(r)'
    BY <2>1, <2>2 DEF OnlineAt, At
  <2> QED BY <2>3, <2>4, <2>5
<1> QED BY <1>2, <1>3, <1>4, <1>5, <1>6 DEF IInv

LEMMA OtherWritesStep ==
    ASSUME IInv, NEW k \in left.keys, NEW v \in Values \cup {Absent, Malformed}, OtherWrites(k, v)
    PROVE  IInv'
<1>1. k \in Keys /\ v \in 0 .. Malformed
  BY ConfigAssumption DEF IInv, Types, Budgets, Keys, Values, Absent, Malformed
<1>2. Continues(hist')
  BY <1>1, WrittenContinues DEF IInv, Types, OtherWrites
<1>3. left' \in Budgets
  BY Spending DEF IInv, Types, OtherWrites
<1> QED BY <1>2, <1>3, HistoryGrows DEF IInv, Types, OtherWrites

LEMMA Stays == ASSUME IInv PROVE Continues(hist)
BY DEF IInv, Types, Continues

LEMMA EditFileStep == ASSUME IInv, NEW p \in Patches, EditFile(p) PROVE IInv'
<1>1. left' \in Budgets /\ disk' \in Documents
  BY Spending DEF IInv, Types, EditFile, Patches, Documents
<1> QED BY <1>1, Stays, HistoryGrows DEF IInv, Types, EditFile

LEMMA EditMaterialStep == ASSUME IInv, NEW m \in {Broken, 1, 2}, EditMaterial(m) PROVE IInv'
<1>1. left' \in Budgets /\ material' \in 0 .. 2
  BY Spending DEF IInv, Types, EditMaterial, Broken
<1> QED BY <1>1, Stays, HistoryGrows DEF IInv, Types, EditMaterial

\* A candidate is queued, which is where the reader is now.
LEMMA CandidateQueued ==
    ASSUME IInv, NEW rev \in 0 .. Len(hist), NEW replace \in BOOLEAN, Send(rev, replace),
           Len(queue) < QueueCap, reader' \in [up : BOOLEAN, at : Nat], reader'.at = rev,
           UNCHANGED <<hist, store, permits, module, disk, material, left>>
    PROVE  IInv'
<1> DEFINE c == [rev |-> rev, replace |-> replace]
<1>1. /\ queue \in Seq(Candidates) /\ Len(hist) \in Nat /\ rev \in Nat /\ rev <= Len(hist)
      /\ QueueCap \in Nat
  BY ConfigAssumption DEF IInv, Types
<1>2. c \in Candidates /\ c.rev = rev /\ queue' = Append(queue, c)
  BY <1>1 DEF Candidates, Send
<1> HIDE DEF c
<1>3. Types'
  BY <1>1, <1>2 DEF IInv, Types
<1>4. /\ Len(queue') = Len(queue) + 1 /\ queue'[Len(queue')] = c /\ queue' # <<>>
      /\ \A i \in 1 .. Len(queue) : queue'[i] = queue[i]
  BY <1>1, <1>2
<1>5. InStep'
  BY <1>1, <1>2, <1>4 DEF IInv, InStep
<1>6. WriteIsAhead' /\ OverlayFollows'
  BY <1>4 DEF IInv, WriteIsAhead, OverlayFollows, Keys
<1>7. Fit(store)' /\ NamespaceAuthority'
  BY DEF IInv, Fit, Compose, Merge, NamespaceAuthority, Authorities
<1> QED BY <1>3, <1>5, <1>6, <1>7 DEF IInv

LEMMA RelistStep == ASSUME IInv, Relist PROVE IInv'
<1>1. Len(hist) \in 0 .. Len(hist) /\ HasNamespace(Latest) \in BOOLEAN
  BY DEF IInv, Types, HasNamespace
<1>2. reader' \in [up : BOOLEAN, at : Nat] /\ reader'.at = Len(hist)
  BY <1>1 DEF Relist
<1> QED BY <1>1, <1>2, CandidateQueued DEF Relist

LEMMA WatchResponseStep == ASSUME IInv, NEW n \in 1 .. Len(hist), WatchResponse(n) PROVE IInv'
<1> DEFINE replace == \E r \in reader.at + 1 .. n : hist[r].key \in Names
<1>1. n \in 0 .. Len(hist) /\ n \in Nat /\ replace \in BOOLEAN
  BY DEF IInv, Types
<1>2. reader' \in [up : BOOLEAN, at : Nat] /\ reader'.at = n
  BY <1>1 DEF IInv, Types, WatchResponse
<1>3. Send(n, replace)
  BY DEF WatchResponse
<1> HIDE DEF replace
<1> QED BY <1>1, <1>2, <1>3, CandidateQueued DEF WatchResponse

\* The reader is disconnected, the module leaves or changes what no part of the
\* invariant names: the rest stays.
LEMMA ReaderOnly ==
    ASSUME IInv, reader' \in [up : BOOLEAN, at : Nat], reader'.at = reader.at,
           UNCHANGED <<hist, queue, disk, material>>, left' \in Budgets,
           module' \in Modules, module'.rejected = module.rejected,
           module'.pc \in {module.pc, "failed"}, module'.mutation = module.mutation,
           Fit(store)', NamespaceAuthority', store'.rev = store.rev,
           store'.overlay = store.overlay
    PROVE  IInv'
<1>1. Types'
  BY DEF IInv, Types, Fit
<1>2. InStep' /\ WriteIsAhead'
  BY DEF IInv, InStep, WriteIsAhead, Keys
<1>3. OverlayFollows'
  BY DEF IInv, OverlayFollows, OnlineAt, At, Nothing, Keys
<1> QED BY <1>1, <1>2, <1>3 DEF IInv

LEMMA StoreStays ==
    ASSUME IInv, UNCHANGED <<store, permits>>
    PROVE  Fit(store)' /\ NamespaceAuthority'
BY DEF IInv, Fit, Compose, Merge, NamespaceAuthority, Authorities

LEMMA DisconnectStep == ASSUME IInv, Disconnect PROVE IInv'
<1>1. reader' \in [up : BOOLEAN, at : Nat] /\ reader'.at = reader.at /\ left' \in Budgets
  BY Spending DEF IInv, Types, Disconnect
<1>2. Fit(store)' /\ NamespaceAuthority'
  BY StoreStays DEF Disconnect
<1> QED BY <1>1, <1>2, ReaderOnly DEF IInv, Types, Disconnect

LEMMA LoseElectionStep == ASSUME IInv, LoseElection PROVE IInv'
<1>1. left' \in Budgets
  BY Spending DEF IInv, Types, LoseElection
<1>2. /\ module' \in Modules /\ module'.rejected = module.rejected
      /\ module'.pc = module.pc /\ module'.mutation = module.mutation
  BY DEF IInv, Types, Modules, LoseElection
<1>3. Fit(store)' /\ NamespaceAuthority'
  BY StoreStays DEF LoseElection
<1> QED BY <1>1, <1>2, <1>3, ReaderOnly DEF IInv, Types, LoseElection

LEMMA WinElectionStep ==
    ASSUME IInv, WinElection PROVE IInv' /\ module'.bootstrapped = module.bootstrapped
<1> DEFINE m == [module EXCEPT !.leading = TRUE]
<1>1. /\ m \in Modules /\ m.pc = "running" /\ m.rejected = module.rejected
      /\ m.mutation = module.mutation /\ store.base \in [Online -> Values]
      /\ m.bootstrapped = module.bootstrapped
  BY DEF IInv, Types, Modules, Stores, WinElection, Running
<1>2. TakeMissing(m, store.base)
  BY DEF WinElection
<1> HIDE DEF m
<1>3. /\ Continues(hist') /\ left' \in Budgets /\ module' \in Modules
      /\ module'.pc # "waiting" /\ module'.rejected = module.rejected
      /\ module'.bootstrapped = module.bootstrapped
  BY <1>1, <1>2, TakesMissing DEF IInv
<1> QED BY <1>3, HistoryGrows DEF IInv, Types, WinElection

\* What a candidate that decodes holds, as the store takes it.
LEMMA Decoded ==
    ASSUME Types, NEW c \in Candidates, c.rev \in 0 .. Len(hist), Decodes(c)
    PROVE  /\ OnlineAt(c.rev) \in Overlays
           /\ c.replace => [n \in Names |-> At(c.rev)[n]] \in NamespaceMaps
<1>1. At(c.rev) \in [Keys -> 0 .. Malformed]
  BY AtTyped DEF Types
<1>2. \A v \in 0 .. Malformed : v # Malformed => v \in Values \cup {Absent}
  <2>1. MaxValue \in Nat
    BY ConfigAssumption
  <2> QED BY <2>1 DEF Values, Malformed, Absent
<1>3. ASSUME NEW k \in Online PROVE At(c.rev)[k] \in Values \cup {Absent}
  <2>1. At(c.rev)[k] # Malformed
    BY DEF Decodes
  <2> QED BY <1>1, <1>2, <2>1 DEF Keys
<1>4. ASSUME c.replace, NEW n \in Names PROVE At(c.rev)[n] \in Values \cup {Absent}
  <2>1. At(c.rev)[n] # Malformed
    BY <1>4 DEF Decodes
  <2> QED BY <1>1, <1>2, <2>1 DEF Keys
<1> QED BY <1>3, <1>4 DEF OnlineAt, Overlays, NamespaceMaps

LEMMA AppliedFacts ==
    ASSUME IInv, NEW c \in Candidates, c.rev \in 0 .. Len(hist), Decodes(c)
    PROVE  /\ Fit(Applied(c)) /\ Succeeds(store, Applied(c)) /\ Applied(c).rev \in {store.rev, c.rev}
           /\ store.rev <= c.rev => Applied(c).overlay = OnlineAt(c.rev)
<1> DEFINE ns == IF c.replace THEN [n \in Names |-> At(c.rev)[n]] ELSE store.accepted
<1>1. OnlineAt(c.rev) \in Overlays /\ ns \in NamespaceMaps /\ c.rev \in Nat /\ material \in 0 .. 2
  BY Decoded DEF IInv, Types, Stores, Candidates
<1>2. Applied(c) = ApplyPersistent(store, OnlineAt(c.rev), ns, c.rev)
  BY DEF Applied, OnlineAt
<1> HIDE DEF ns
<1> QED BY <1>1, <1>2, PersistentFacts DEF IInv

LEMMA ReceiveCandidateStep ==
    ASSUME IInv, ReceiveCandidate
    PROVE  IInv' /\ \A k \in Keys : Latest[k] # Absent => Latest'[k] = Latest[k]
<1> DEFINE c == Head(queue)
           bootstrap == ~module.bootstrapped
           miss == IF bootstrap THEN MissingDefaults(c) ELSE module.missing
           ready == module.ready \/ Accepts(c)
           print == IF Accepts(c) THEN material ELSE module.fingerprint
           m == [module EXCEPT !.bootstrapped = TRUE, !.missing = miss, !.ready = ready,
                               !.fingerprint = print, !.rejected = ~Accepts(c)]
           t == IF Accepts(c) THEN Applied(c) ELSE store
<1>1. /\ queue \in Seq(Candidates) /\ queue # <<>> /\ Running /\ hist \in Seq(Entries)
      /\ module \in Modules /\ store \in Stores /\ reader.at \in Nat /\ Len(hist) \in Nat
  BY DEF IInv, Types, ReceiveCandidate
<1>2. c \in Candidates /\ c = queue[1] /\ c.rev \in 0 .. Len(hist) /\ c.rev \in Nat
  <2>1. c \in Candidates /\ c = queue[1] /\ 1 \in 1 .. Len(queue)
    BY <1>1
  <2>2. c.rev \in Nat
    BY <2>1 DEF Candidates
  <2> QED BY <1>1, <2>1, <2>2 DEF IInv, InStep
<1>3. /\ m \in Modules /\ m.rejected = ~Accepts(c) /\ m.pc = "running"
      /\ [m EXCEPT !.pc = "failed"] \in Modules /\ [m EXCEPT !.pc = "failed"].pc = "failed"
      /\ [m EXCEPT !.pc = "failed"].rejected = m.rejected
  <2>1. /\ miss \in SUBSET Online /\ ready \in BOOLEAN /\ print \in 0 .. 2
        /\ (~Accepts(c)) \in BOOLEAN
    <3>1. MissingDefaults(c) \in SUBSET Online
      BY DEF MissingDefaults
    <3>2. material \in 0 .. 2 /\ module.missing \in SUBSET Online /\ module.fingerprint \in 0 .. 2
      BY <1>1 DEF IInv, Types, Modules
    <3>3. ready \in BOOLEAN /\ (~Accepts(c)) \in BOOLEAN
      BY Zenon
    <3> QED BY <3>1, <3>2, <3>3
  <2> HIDE DEF miss, ready, print
  <2> QED BY <1>1, <2>1 DEF Modules, Running
<1>4. queue' = Tail(queue) /\ UNCHANGED <<reader, disk, material>>
  BY DEF ReceiveCandidate
<1>7. /\ queue' \in Seq(Candidates) /\ Len(queue') = Len(queue) - 1 /\ Len(queue) \in Nat
      /\ \A i \in 1 .. Len(queue') : queue'[i] = queue[i + 1] /\ i + 1 \in 1 .. Len(queue)
  BY <1>1, <1>4
<1>8. /\ \A i \in 1 .. Len(queue') : queue'[i].rev \in Nat /\ queue'[i].rev <= Len(hist)
      /\ Len(queue') <= QueueCap
      /\ queue' # <<>> => queue'[Len(queue')] = queue[Len(queue)]
  <2>1. ASSUME NEW i \in 1 .. Len(queue') PROVE queue'[i].rev \in Nat /\ queue'[i].rev <= Len(hist)
    <3>1. queue[i + 1] \in Candidates /\ queue[i + 1].rev <= Len(hist)
      BY <1>1, <1>7 DEF IInv, InStep
    <3> QED BY <1>7, <3>1 DEF Candidates
  <2>2. Len(queue') <= QueueCap
    BY <1>7, ConfigAssumption DEF IInv, InStep
  <2>3. queue' # <<>> => queue'[Len(queue')] = queue[Len(queue)]
    BY <1>1, <1>7
  <2> QED BY <2>1, <2>2, <2>3
<1>5. CASE bootstrap /\ ~Accepts(c)
  <2>1. module' = [m EXCEPT !.pc = "failed"] /\ UNCHANGED <<hist, store, permits, left>>
    BY <1>5 DEF ReceiveCandidate
  <2> HIDE DEF m, c
  <2>2. Types'
    BY <1>1, <1>3, <1>4, <2>1 DEF IInv, Types
  <2>3. Fit(store)' /\ NamespaceAuthority'
    BY <2>1, StoreStays
  <2>4. WriteIsAhead' /\ OverlayFollows'
    BY <1>3, <1>5, <2>1 DEF WriteIsAhead, OverlayFollows
  <2>5. InStep'
    BY <1>1, <1>4, <1>8, <2>1 DEF IInv, InStep
  <2>6. Latest' = Latest
    BY <2>1 DEF Latest, At, Nothing
  <2> QED BY <2>2, <2>3, <2>4, <2>5, <2>6 DEF IInv
<1>6. CASE ~(bootstrap /\ ~Accepts(c))
  <2>1. Install(t) /\ TakeMissing(m, store.base)
    BY <1>6 DEF ReceiveCandidate
  <2>2. /\ Fit(t) /\ Succeeds(store, t) /\ t.rev <= Len(hist) /\ t.rev \in Nat
        /\ Accepts(c) /\ store.rev <= c.rev => t.overlay = OnlineAt(c.rev)
    <3>1. CASE Accepts(c)
      <4>1. Decodes(c)
        BY <3>1 DEF Accepts
      <4>2. /\ Fit(Applied(c)) /\ Succeeds(store, Applied(c)) /\ Applied(c).rev \in {store.rev, c.rev}
            /\ store.rev <= c.rev => Applied(c).overlay = OnlineAt(c.rev)
        <5> HIDE DEF c
        <5> QED BY <1>2, <4>1, AppliedFacts
      <4> QED BY <1>1, <1>2, <3>1, <4>2 DEF IInv, InStep, Stores
    <3>2. CASE ~Accepts(c)
      <4>1. Succeeds(store, store)
        BY <1>1 DEF Succeeds, Stores
      <4> QED BY <1>1, <3>2, <4>1 DEF IInv, InStep, Stores
    <3> QED BY <3>1, <3>2
  <2> HIDE DEF t, m, c
  <2>3. Fit(store)' /\ NamespaceAuthority' /\ store' = t
    BY <2>1, <2>2, Installed DEF IInv, NamespaceAuthority
  <2>4. /\ Continues(hist') /\ left' \in Budgets
        /\ module' \in Modules /\ module'.pc \in {m.pc, "failed"} /\ module'.rejected = m.rejected
        /\ \A k \in Keys : Latest[k] # Absent => Latest'[k] = Latest[k]
    <3>1. store.base \in [Online -> Values]
      BY <1>1 DEF Stores
    <3> QED BY <1>3, <2>1, <3>1, TakesMissing DEF IInv
  <2>5. hist' \in Seq(Entries) /\ Len(hist') \in Nat /\ Len(hist') >= Len(hist)
    BY <2>4 DEF Continues
  <2>6. Types'
    BY <1>1, <1>4, <2>2, <2>3, <2>4, <2>5 DEF IInv, Types, Fit
  <2>8. InStep'
    <3>1. \A i \in 1 .. Len(queue') : queue'[i].rev <= Len(hist')
      BY <1>1, <1>8, <2>5
    <3>2. reader'.at <= Len(hist') /\ store'.rev <= Len(hist')
      BY <1>1, <1>4, <2>2, <2>3, <2>5 DEF IInv, InStep
    <3> QED BY <1>1, <1>4, <1>8, <3>1, <3>2 DEF IInv, InStep
  <2>9. WriteIsAhead'
    BY <1>3, <2>4 DEF WriteIsAhead
  <2>10. OverlayFollows'
    <3> SUFFICES ASSUME (reader.at = Len(hist) /\ queue = <<>> /\ ~module.rejected)'
                 PROVE  (store.overlay = OnlineAt(Len(hist)))'
      BY DEF OverlayFollows
    <3>1. Len(hist') = Len(hist) /\ reader.at = Len(hist)
      BY <1>1, <1>4, <2>5 DEF IInv, InStep
    <3>2. Len(queue) = 1
      BY <1>1, <1>7
    <3>3. c.rev = Len(hist)
      BY <1>1, <1>2, <3>1, <3>2 DEF IInv, InStep
    <3>4. store.rev <= c.rev /\ Accepts(c)
      BY <1>3, <2>4, <3>3 DEF IInv, InStep
    <3>5. PICK r \in Nat : r = Len(hist)
      BY <1>1
    <3>6. store'.overlay = OnlineAt(r)
      BY <2>2, <2>3, <3>3, <3>4, <3>5
    <3>7. OnlineAt(r)' = OnlineAt(r)
      BY <1>1, <2>4, <3>5, HistoryKept
    <3>8. OnlineAt(Len(hist))' = OnlineAt(r)'
      BY <3>1, <3>5 DEF OnlineAt, At
    <3> QED BY <3>6, <3>7, <3>8
  <2> QED BY <2>3, <2>4, <2>6, <2>8, <2>9, <2>10 DEF IInv
<1> QED BY <1>5, <1>6

\* A document that is accepted names values only.
LEMMA Loaded == ASSUME NEW patch \in Documents, Loads(patch) PROVE patch \in Overlays
BY DEF Documents, Overlays, Loads

LEMMA FileTickStep == ASSUME IInv, FileTick PROVE IInv'
<1> DEFINE s == IF Reloads THEN ApplyToml(store, disk) ELSE store
           m == IF Reloads THEN [module EXCEPT !.content = disk, !.fingerprint = material] ELSE module
           refresh == m.fingerprint # material /\ Valid
           t == IF refresh THEN RefreshExternalMaterial(s) ELSE s
           n == IF refresh THEN [m EXCEPT !.fingerprint = material] ELSE m
<1>1. /\ module \in Modules /\ (Reloads => disk \in Overlays)
      /\ material \in 0 .. 2 /\ Fit(store)
      /\ reader \in [up : BOOLEAN, at : Nat]
  BY Loaded DEF IInv, Types, Reloads
<1>2. Install(t) /\ Reconfigure(t.generation # store.generation, n)
  BY DEF FileTick
<1>3. /\ n \in Modules /\ n.pc = module.pc /\ n.rejected = module.rejected
      /\ n.mutation = module.mutation
  <2>1. /\ m \in Modules /\ m.pc = module.pc /\ m.rejected = module.rejected
        /\ m.mutation = module.mutation
    BY <1>1 DEF Modules
  <2> HIDE DEF m, refresh
  <2> QED BY <1>1, <2>1 DEF Modules
<1> HIDE DEF n
<1>4. Fit(s) /\ Succeeds(store, s) /\ s.rev = store.rev /\ s.overlay = store.overlay
  <2>1. Succeeds(store, store)
    BY <1>1 DEF Succeeds, Fit, Stores
  <2> QED BY <1>1, <2>1, TomlFacts
<1>5. Fit(t) /\ Succeeds(store, t) /\ t.rev = store.rev /\ t.overlay = store.overlay
  <2> HIDE DEF s, refresh
  <2> QED BY <1>1, <1>4, RefreshFacts, SucceedsTwice
<1> HIDE DEF t
<1>6. Fit(store)' /\ NamespaceAuthority' /\ store' = t
  BY <1>1, <1>2, <1>5, Installed DEF IInv, NamespaceAuthority
<1>7. /\ module' \in Modules /\ module'.rejected = module.rejected
      /\ module'.pc \in {module.pc, "failed"} /\ module'.mutation = module.mutation
      /\ reader' \in [up : BOOLEAN, at : Nat] /\ reader'.at = reader.at
  BY <1>1, <1>2, <1>3 DEF Reconfigure, Modules
<1> QED BY <1>5, <1>6, <1>7, ReaderOnly DEF IInv, Types, FileTick

LEMMA LocalTomlStep == ASSUME IInv, NEW p \in Patches, LocalToml(p) PROVE IInv'
<1> DEFINE t == ApplyToml(store, p)
<1>1. p \in Overlays /\ material \in 0 .. 2 /\ left' \in Budgets
  BY Spending, Loaded DEF IInv, Types, LocalToml, Patches, Documents
<1>2. Fit(t) /\ Succeeds(store, t) /\ t.rev = store.rev /\ t.overlay = store.overlay
  BY <1>1, TomlFacts DEF IInv
<1>3. Install(t)
  BY DEF LocalToml
<1> HIDE DEF t
<1>4. Fit(store)' /\ NamespaceAuthority' /\ store' = t
  BY <1>2, <1>3, Installed DEF IInv, NamespaceAuthority
<1>5. /\ module' \in Modules /\ module'.rejected = module.rejected
      /\ module'.pc = module.pc /\ module'.mutation = module.mutation
  BY <1>1 DEF IInv, Types, Modules, LocalToml
<1> QED BY <1>1, <1>2, <1>4, <1>5, ReaderOnly DEF IInv, Types, LocalToml

LEMMA SeedNamespacesStep == ASSUME IInv, SeedNamespaces PROVE IInv'
<1> DEFINE t == BootstrapNamespaces(store)
<1>1. material \in 0 .. 2 /\ module \in Modules /\ [module EXCEPT !.pc = "failed"] \in Modules
  BY DEF IInv, Types, Modules
<1>2. Fit(t) /\ Succeeds(store, t) /\ t.rev = store.rev /\ t.overlay = store.overlay
  BY <1>1, SeedFacts DEF IInv
<1>3. Install(t)
  BY DEF SeedNamespaces
<1> HIDE DEF t
<1>4. Fit(store)' /\ NamespaceAuthority' /\ store' = t
  BY <1>2, <1>3, Installed DEF IInv, NamespaceAuthority
<1>5. CASE module' = module
  BY <1>2, <1>4, <1>5, ReaderOnly DEF IInv, Types, SeedNamespaces
<1>6. CASE module' = [module EXCEPT !.pc = "failed"]
  <2>1. /\ module' \in Modules /\ module'.pc = "failed" /\ module'.rejected = module.rejected
        /\ module'.mutation = module.mutation
    BY <1>1, <1>6 DEF Modules
  <2> QED BY <1>2, <1>4, <2>1, ReaderOnly DEF IInv, Types, SeedNamespaces
<1> QED BY <1>5, <1>6 DEF SeedNamespaces

LEMMA MutateStep ==
    ASSUME IInv, NEW k \in left.keys, NEW v \in Values \cup {Absent}, Mutate(k, v)
    PROVE  IInv'
<1> DEFINE committed == IF v = Absent /\ Latest[k] = Absent THEN hist ELSE Written(hist, k, v)
           mut == [key |-> k, value |-> v, rev |-> Len(committed)]
<1>1. k \in Keys /\ v \in 0 .. Malformed /\ hist \in Seq(Entries) /\ module \in Modules
  BY ConfigAssumption DEF IInv, Types, Budgets, Keys, Values, Absent, Malformed
<1>2. Continues(committed) /\ Len(committed) \in Nat
  <2>1. Continues(hist) /\ Continues(Written(hist, k, v))
    BY <1>1, Stays, WrittenContinues
  <2> QED BY <2>1 DEF Continues
<1>3. k \in Online => Len(committed) > Len(hist)
  <2> SUFFICES ASSUME k \in Online PROVE Len(committed) > Len(hist)
    OBVIOUS
  <2>1. v # Absent
    BY ConfigAssumption DEF Mutate
  <2> QED BY <1>1, <2>1, WrittenContinues
<1>4. mut \in Mutations /\ mut.key = k /\ mut.rev = Len(committed)
  BY <1>1, <1>2 DEF Mutations
<1>5. hist' = committed /\ module' = [module EXCEPT !.pc = "waiting", !.mutation = mut]
  BY DEF Mutate
<1>6. left' \in Budgets
  BY Spending DEF IInv, Types, Mutate
<1>7. UNCHANGED <<reader, queue, store, permits, disk, material>>
  BY DEF Mutate
<1> HIDE DEF mut, committed
<1>8. module' \in Modules /\ module'.mutation = mut /\ module'.rejected = module.rejected
  BY <1>1, <1>4, <1>5 DEF Modules
<1>9. disk' \in Documents /\ material' \in 0 .. 2
  BY <1>7 DEF IInv, Types
<1> QED BY <1>1, <1>2, <1>3, <1>4, <1>5, <1>6, <1>7, <1>8, <1>9, HistoryGrows

LEMMA ResumedFacts ==
    ASSUME Types
    PROVE  Resumed \in Modules /\ Resumed.pc = "running" /\ Resumed.rejected = module.rejected
<1>1. NoMutation \in Mutations
  BY DEF NoMutation, Mutations
<1> QED BY <1>1 DEF Types, Modules, Resumed

\* The write of this process, applied to its own view.
LEMMA CommittedFacts ==
    ASSUME IInv, module.pc = "waiting"
    PROVE  LET t == Committed(module.mutation)
           IN  /\ Fit(t) /\ Succeeds(store, t) /\ t.rev \in {store.rev, module.mutation.rev}
               /\ module.mutation.key \notin Online => t.overlay = store.overlay
<1> DEFINE mut == module.mutation
           o == [store.overlay EXCEPT ![mut.key] = mut.value]
           ns == [store.accepted EXCEPT ![mut.key] = mut.value]
<1>1. /\ mut \in Mutations /\ mut.rev \in Nat /\ mut.key \in Keys /\ mut.value \in Values \cup {Absent}
      /\ store.overlay \in Overlays /\ store.accepted \in NamespaceMaps /\ material \in 0 .. 2
  BY DEF IInv, Types, Modules, Stores, Mutations, WriteIsAhead
<1>2. o \in Overlays /\ ns \in NamespaceMaps
  BY <1>1 DEF Overlays, NamespaceMaps
<1>3. CASE mut.key \in Online
  <2>1. Committed(mut) = ApplyPersistent(store, o, store.accepted, mut.rev)
    BY <1>3 DEF Committed
  <2> HIDE DEF o, ns, mut
  <2>2. Fit(Committed(mut)) /\ Succeeds(store, Committed(mut)) /\ Committed(mut).rev \in {store.rev, mut.rev}
    BY <1>1, <1>2, <2>1, PersistentFacts DEF IInv
  <2> QED BY <1>3, <2>2 DEF mut
<1>4. CASE mut.key \notin Online
  <2>1. Committed(mut) = ApplyPersistent(store, store.overlay, ns, mut.rev)
    BY <1>4 DEF Committed
  <2> HIDE DEF o, ns, mut
  <2>2. /\ Fit(Committed(mut)) /\ Succeeds(store, Committed(mut))
        /\ Committed(mut).rev \in {store.rev, mut.rev}
        /\ Committed(mut).overlay = store.overlay
    BY <1>1, <1>2, <2>1, PersistentFacts DEF IInv
  <2> QED BY <2>2 DEF mut
<1> QED BY <1>3, <1>4

LEMMA AnsweredStep == ASSUME IInv, Answered PROVE IInv'
<1> DEFINE t == IF Valid THEN Committed(module.mutation) ELSE store
<1>1. /\ module.pc = "waiting" /\ Install(t) /\ module' = Resumed
      /\ UNCHANGED <<hist, reader, queue, disk, material, left>>
  BY DEF Answered
<1>2. /\ Fit(t) /\ Succeeds(store, t) /\ t.rev \in {store.rev, module.mutation.rev}
      /\ module.mutation.key \notin Online => t.overlay = store.overlay
  <2>1. Succeeds(store, store)
    BY DEF IInv, Fit, Stores, Succeeds
  <2> QED BY <1>1, <2>1, CommittedFacts DEF IInv
<1> HIDE DEF t
<1>3. Fit(store)' /\ NamespaceAuthority' /\ store' = t
  BY <1>1, <1>2, Installed DEF IInv, NamespaceAuthority
<1>4. module' \in Modules /\ module'.pc = "running" /\ module'.rejected = module.rejected
  BY <1>1, ResumedFacts DEF IInv
<1>5. Types'
  BY <1>1, <1>2, <1>3, <1>4 DEF IInv, Types, Fit
<1>6. InStep' /\ WriteIsAhead'
  BY <1>1, <1>2, <1>3, <1>4 DEF IInv, InStep, WriteIsAhead
<1>7. OverlayFollows'
  <2> SUFFICES ASSUME (reader.at = Len(hist) /\ queue = <<>> /\ ~module.rejected)'
               PROVE  (store.overlay = OnlineAt(Len(hist)))'
    BY DEF OverlayFollows
  <2>1. reader.at = Len(hist) /\ queue = <<>> /\ ~module.rejected
    BY <1>1, <1>4
  <2>2. module.mutation.key \notin Online
    BY <1>1, <2>1 DEF IInv, Types, WriteIsAhead
  <2>3. store'.overlay = OnlineAt(Len(hist))
    BY <1>2, <1>3, <2>1, <2>2 DEF IInv, OverlayFollows
  <2> QED BY <1>1, <2>3 DEF OnlineAt, At, Nothing, Keys
<1> QED BY <1>3, <1>5, <1>6, <1>7 DEF IInv

LEMMA AnswerLostStep == ASSUME IInv, AnswerLost PROVE IInv'
<1>1. module' \in Modules /\ module'.pc = "running" /\ module'.rejected = module.rejected
  BY ResumedFacts DEF IInv, AnswerLost
<1>2. left' \in Budgets
  BY Spending DEF IInv, Types, AnswerLost
<1> QED BY <1>1, <1>2, Stays, HistoryGrows DEF IInv, Types, AnswerLost

LEMMA StutterStep == ASSUME IInv, UNCHANGED vars PROVE IInv'
<1>1. Fit(store)' /\ NamespaceAuthority'
  BY StoreStays DEF vars
<1> QED BY <1>1, ReaderOnly DEF IInv, Types, vars

LEMMA NextIInv == IInv /\ [Next]_vars => IInv'
<1> SUFFICES ASSUME IInv, [Next]_vars PROVE IInv'
  OBVIOUS
<1>1. CASE Next
  BY <1>1, OtherWritesStep, EditFileStep, EditMaterialStep, RelistStep, WatchResponseStep,
     DisconnectStep, ReceiveCandidateStep, WinElectionStep, LoseElectionStep, FileTickStep,
     LocalTomlStep, SeedNamespacesStep, MutateStep, AnsweredStep, AnswerLostStep DEF Next
<1>2. CASE UNCHANGED vars
  BY <1>2, StutterStep
<1> QED BY <1>1, <1>2

LEMMA Invariance == Spec => []IInv
<1> QED BY InitIInv, NextIInv, PTL DEF Spec

-----------------------------------------------------------------------------
(* The theorems                                                            *)

LEMMA IInvTypes == IInv => TypeOK
<1> SUFFICES ASSUME IInv PROVE TypeOK
  OBVIOUS
<1>1. \A r \in DOMAIN hist : hist[r] \in [key : Keys, keys : [Keys -> 0 .. Malformed]]
  <2>1. hist \in Seq(Entries)
    BY DEF IInv, Types
  <2>2. \A r \in DOMAIN hist : hist[r] \in Entries
    BY <2>1
  <2> QED BY <2>2 DEF Entries
<1>2. reader \in [up : BOOLEAN, at : 0 .. Len(hist)] /\ store.rev \in 0 .. Len(hist)
  BY DEF IInv, Types, InStep, Stores
<1>3. queue \in BoundedSeq([rev : 0 .. Len(hist), replace : BOOLEAN], QueueCap)
  <2>1. queue \in Seq(Candidates) /\ Len(queue) \in 0 .. QueueCap
    BY ConfigAssumption DEF IInv, Types, InStep
  <2>2. ASSUME NEW i \in 1 .. Len(queue)
        PROVE  queue[i] \in [rev : 0 .. Len(hist), replace : BOOLEAN]
    <3>1. queue[i] \in Candidates /\ queue[i].rev <= Len(hist)
      BY <2>1 DEF IInv, InStep
    <3> QED BY <3>1 DEF Candidates, IInv, Types
  <2>3. queue \in [1 .. Len(queue) -> [rev : 0 .. Len(hist), replace : BOOLEAN]]
    BY <2>1, <2>2
  <2> QED BY <2>1, <2>3 DEF BoundedSeq, SeqOf
<1>4. /\ store.generation \in Nat /\ store.seeded \in BOOLEAN
      /\ store.effective \in [Online -> Values] /\ store.base \in [Online -> Values]
      /\ store.overlay \in [Online -> Values \cup {Absent}]
      /\ {store.namespaces, store.accepted} \subseteq [Names -> Values \cup {Absent}]
  BY DEF IInv, Types, Stores, Overlays, NamespaceMaps
<1>5. /\ module.pc \in {"running", "waiting", "failed"}
      /\ module.bootstrapped \in BOOLEAN /\ module.missing \subseteq Online
      /\ {module.fingerprint, store.loaded, material} \subseteq 0 .. 2
  BY DEF IInv, Types, Stores, Modules
<1> QED BY <1>1, <1>2, <1>3, <1>4, <1>5 DEF TypeOK

\* Whatever order candidates, own writes, reconnections, edits and rotations
\* come in, the sections show etcd over the file once nothing is on its way, and
\* the authority of a namespace is exactly that of the published view
\* (apply_persistent_inner, apply_toml, retain_identities).
THEOREM Consistency == Spec => []ConfigConsistent
<1>1. IInv => ConfigConsistent
  <2> SUFFICES ASSUME IInv PROVE ConfigConsistent
    OBVIOUS
  <2>1. OnlineConverges
    BY DEF IInv, Fit, OverlayFollows, OnlineConverges, Settled, OnlineAt, Latest
  <2> QED BY <2>1, IInvTypes DEF IInv, ConfigConsistent
<1> QED BY <1>1, Invariance, PTL

\* The defaults the first listing lacked never replace a value somebody wrote
\* after it, whichever of the creating transactions fails (initialize_missing).
THEOREM DefaultsCreateOnly == Spec => DefaultsDoNotOverwrite
<1> DEFINE Spared == ~module.bootstrapped /\ module'.bootstrapped =>
                       \A k \in Keys : Latest[k] # Absent => Latest'[k] = Latest[k]
<1>1. IInv /\ [Next]_vars => [Spared]_vars
  <2> SUFFICES ASSUME IInv, Next, ~module.bootstrapped, module'.bootstrapped PROVE Spared
    OBVIOUS
  <2>1. module \in Modules
    BY DEF IInv, Types
  <2>2. \/ ReceiveCandidate \/ WinElection
        \/ module'.bootstrapped = module.bootstrapped
    BY <2>1 DEF Next, Relist, WatchResponse, Disconnect, OtherWrites, EditFile, EditMaterial,
       LoseElection, FileTick, Reconfigure, LocalToml, SeedNamespaces, Mutate, Answered,
       AnswerLost, Resumed, Modules
  <2> QED BY <2>2, ReceiveCandidateStep, WinElectionStep
<1> QED BY <1>1, Invariance, PTL DEF Spec, DefaultsDoNotOverwrite
=============================================================================
