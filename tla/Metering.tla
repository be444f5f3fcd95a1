------------------------------ MODULE Metering ------------------------------
(***************************************************************************)
(* Billing of backend traffic: from the byte counters of a session to the  *)
(* objects in the customer's store, across crashes.                        *)
(*                                                                         *)
(*   sessions  register a source per backend incarnation and finalise it   *)
(*             at a swap or at their end (session_engine.rs, metering.rs); *)
(*   sampler   reads all sources, seals them as a batch in the write-ahead *)
(*             log, hands the batch to the consumer and trims the log      *)
(*             (metering.rs, control_commands.rs);                         *)
(*   consumer  turns absolute counters into bytes and stages them for the  *)
(*             outbox, in its own file (control-meter consumer.rs);        *)
(*   outbox    adds them up, durably, and seals windows (outbox.rs);       *)
(*   exporter  uploads the sealed window once a minute (runtime.rs).       *)
(*                                                                         *)
(* A step is one durable write or one access to the registry's lock, so a  *)
(* crash can fall between any two of them.  Traffic has one direction and  *)
(* one tenant: the two counters of a source go through the same code, and  *)
(* tenants are independent.  The consumer and the outbox in memory are the *)
(* ones on disk, unless a write failed; then nothing is written any more.  *)
(***************************************************************************)
EXTENDS Naturals, Sequences, FiniteSets, FiniteSetsExt

CONSTANTS
    Conns,         \* connection ids
    Instances,     \* the bounds explored, each a record of Bounds
    ChunkSize,     \* MAX_DELTAS_PER_BATCH
    MaxUnacked     \* MAX_UNACKED_METERING_BATCHES

\* generations: backend incarnations of a connection; processes: process
\* starts; bytes: bytes of one source; batches: batches sealed; minutes: the
\* wall clock, in export intervals; faults: failed disk writes and uploads;
\* crashes: process crashes; width: a byte counter is a number modulo this;
\* live: whether the tasks, the clock and the restarts are fair.
Bounds == [generations : Nat, processes : Nat, bytes : Nat, batches : Nat, minutes : Nat,
           faults : Nat, crashes : Nat, width : Nat \ {0}, live : BOOLEAN]

ASSUME MeteringAssumption ==
    /\ Conns \subseteq Nat \ {0} /\ IsFiniteSet(Conns)
    /\ Instances \subseteq Bounds
    /\ {ChunkSize, MaxUnacked} \subseteq Nat \ {0}

VARIABLES
    conns,     \* phase and backend generation of every connection
    sources,   \* the registry's sources: what was read last, whether final
    retired,   \* retired_totals: bytes of sources already handed over
    closed,    \* closed_connections: forgotten, with sources still to hand over
    sampler,   \* control point, phase, whether stopping, chunks still to seal
    exporter,  \* control point, next minute, outcome of the upload
    health,    \* consumer, outbox and writer health, and accepting
    wal,       \* durable: the producer's log
    consumer,  \* durable: checkpoint, baselines, pending bytes
    outbox,    \* durable: checkpoint, active bytes, sealed window
    store,     \* the object store: minute to bytes
    minute,    \* the wall clock
    faults,    \* failures that have happened
    crashes,
    traffic,   \* bytes every source really carried
    sealed,    \* of which in the log, or once in it
    rejected,  \* arms that reject a request as inconsistent
    bounds     \* the instance explored, never changed

registry == <<conns, sources, retired, closed>>
disk == <<wal, consumer, outbox>>
vars == <<conns, sources, retired, closed, sampler, exporter, health, wal,
          consumer, outbox, store, minute, faults, crashes, traffic, sealed,
          rejected, bounds>>
environment == <<crashes, bounds>>

Keys == (1 .. bounds.processes) \X Conns \X (1 .. bounds.generations)
Minutes == 0 .. bounds.minutes + 1

Key(c, g) == <<wal.process, c, g>>
Sum(f(_), S) == MapThenSumSet(f, S)

\* A counter as the code sees it, and what value and epoch stand for.
Raw(n) == n % bounds.width
Absolute(s) == s.epoch * bounds.width + s.value

NoWindow == [minute |-> 0, bytes |-> 0, stored |-> FALSE]
SumOf(S) == Sum(LAMBDA n : n, S)

-----------------------------------------------------------------------------
(* Processes *)

Down == [pc |-> "down", phase |-> "recover", stopping |-> FALSE, chunks |-> <<>>]
ExporterDown == [pc |-> "down", next |-> 0, ok |-> FALSE]
AllHealthy == [consumer |-> TRUE, outbox |-> TRUE, writer |-> TRUE, accepting |-> TRUE]
NewConn == [phase |-> "new", generation |-> 0, total |-> {}]

\* Nothing of the process is left; what is durable stays.
Reset ==
    /\ conns' = [c \in Conns |-> NewConn]
    /\ sources' = {}
    /\ retired' = [c \in Conns |-> {}]
    /\ closed' = {}
    /\ sampler' = Down
    /\ exporter' = ExporterDown
    /\ health' = AllHealthy

Crash ==
    /\ sampler.pc # "down" /\ crashes < bounds.crashes
    /\ crashes' = crashes + 1
    /\ Reset
    /\ UNCHANGED <<disk, store, minute, faults, traffic, sealed, rejected, bounds>>

\* The checks of Consumer::validate_sink on the durable state.
SinkAgrees ==
    IF consumer.last = 0 THEN outbox.last = 0
    ELSE IF consumer.pending = {} THEN outbox.last = consumer.last
    ELSE outbox.last \in {consumer.last, consumer.last - 1}

\* What the sampler does once a batch is delivered, or at once when there is
\* none: the rest of the log, then its own chunks, then it waits.
ContinueAfresh(phase, stopping, chunks, log) ==
    [phase |-> IF phase = "recover" THEN "sample" ELSE "chunks",
     stopping |-> stopping, chunks |-> chunks,
     pc |-> IF phase = "recover" THEN "idle" ELSE IF phase = "replay" THEN "take"
            ELSE IF chunks # <<>> THEN "seal" ELSE IF stopping THEN "done" ELSE "idle"]
Continue(phase, stopping, chunks, log) ==
    [phase |-> IF log = <<>> /\ phase \in {"recover", "replay"}
                 THEN IF phase = "recover" THEN "sample" ELSE "chunks"
                 ELSE phase,
     stopping |-> stopping, chunks |-> chunks,
     pc |-> CASE log # <<>> -> "stage"
              [] log = <<>> /\ phase = "recover" -> "idle"
              [] log = <<>> /\ phase = "replay" -> "take"
              [] log = <<>> /\ phase = "chunks" ->
                   IF chunks # <<>> THEN "seal" ELSE IF stopping THEN "done" ELSE "idle"]

\* The exporter starts once the log has been recovered.
Recovered(next) ==
    IF sampler.phase = "recover" /\ next.phase # "recover"
      THEN exporter' = [exporter EXCEPT !.pc = "start"] ELSE UNCHANGED exporter

Goes(next) == sampler' = next /\ Recovered(next)
Fails == sampler' = [sampler EXCEPT !.pc = "failed"] /\ UNCHANGED exporter

\* The log is opened, then the outbox and the consumer, then what is in the
\* log is delivered; only then are sessions admitted.
Start ==
    /\ sampler.pc = "down" /\ wal.process < bounds.processes
    /\ wal' = [wal EXCEPT !.process = @ + 1]
    /\ IF SinkAgrees
         THEN Goes(Continue("recover", FALSE, <<>>, wal.unacked)) /\ UNCHANGED rejected
         ELSE UNCHANGED <<sampler, exporter>> /\ rejected' = rejected \cup {"open"}
    /\ UNCHANGED <<registry, health, consumer, outbox, store, minute, faults,
                   environment, traffic, sealed>>

Serving ==
    /\ sampler.pc \notin {"down", "done", "failed"}
    /\ sampler.phase # "recover" /\ ~sampler.stopping

-----------------------------------------------------------------------------
(* Sessions *)

NewSource(c, g) == [key |-> Key(c, g), value |-> 0, epoch |-> 0, final |-> {}]
SourceOf(c, g) == {s \in sources : s.key = Key(c, g)}
Has(c, g) == SourceOf(c, g) # {}

\* A key that is in use or unknown is an invariant violation, and closes.
Refuses(why) == rejected' = rejected \cup {why}

\* A backend is attached: its counters run since the dial.
Register(c, g, n) ==
    /\ IF Has(c, g)
         THEN Refuses("register") /\ UNCHANGED sources
         ELSE sources' = sources \cup {NewSource(c, g)} /\ UNCHANGED rejected
    /\ traffic' = [traffic EXCEPT ![Key(c, g)] = n]

Attach(c) ==
    /\ Serving /\ conns[c].phase = "new"
    /\ \E n \in 0 .. 1 : n <= bounds.bytes /\ Register(c, 1, n)
    /\ conns' = [conns EXCEPT ![c].phase = "live", ![c].generation = 1]
    /\ UNCHANGED <<retired, closed, sampler, exporter, health, disk, store,
                   minute, faults, environment, sealed>>

\* A sample comes before a counter has gone around once.
CountsOnce(s) == traffic[s.key] + 1 - Absolute(s) < bounds.width

Transfer(c) ==
    /\ conns[c].phase = "live"
    /\ \E s \in SourceOf(c, conns[c].generation) :
          /\ traffic[s.key] < bounds.bytes /\ CountsOnce(s)
          /\ traffic' = [traffic EXCEPT ![s.key] = @ + 1]
    /\ UNCHANGED <<registry, sampler, exporter, health, disk, store, minute,
                   faults, environment, sealed, rejected>>

Finalize(c, g) ==
    IF \E s \in SourceOf(c, g) : s.final = {}
      THEN /\ sources' = {IF s.key = Key(c, g)
                            THEN [s EXCEPT !.final = {Raw(traffic[s.key])}]
                            ELSE s : s \in sources}
           /\ UNCHANGED rejected
      ELSE Refuses("finalize") /\ UNCHANGED sources

\* A migration finalises the old source and then registers the new one.
SwapBegins(c) ==
    /\ conns[c].phase = "live" /\ conns[c].generation < bounds.generations
    /\ Finalize(c, conns[c].generation)
    /\ conns' = [conns EXCEPT ![c].phase = "swapping"]
    /\ UNCHANGED <<retired, closed, sampler, exporter, health, disk, store,
                   minute, faults, environment, traffic, sealed>>

SwapEnds(c) ==
    /\ conns[c].phase = "swapping"
    /\ Register(c, conns[c].generation + 1, 0)
    /\ conns' = [conns EXCEPT ![c].phase = "live", ![c].generation = @ + 1]
    /\ UNCHANGED <<retired, closed, sampler, exporter, health, disk, store,
                   minute, faults, environment, sealed>>

\* The engine ends by itself and finalises the source it is using.
EngineEnds(c) ==
    /\ conns[c].phase = "live"
    /\ Finalize(c, conns[c].generation)
    /\ conns' = [conns EXCEPT ![c].phase = "ended"]
    /\ UNCHANGED <<retired, closed, sampler, exporter, health, disk, store,
                   minute, faults, environment, traffic, sealed>>

Mine(c) == {s \in sources : s.key[2] = c}
Value(s) == IF s.final = {} THEN Raw(traffic[s.key]) ELSE CHOOSE v \in s.final : TRUE

Totals(c) == SumOf(retired[c]) + Sum(Value, Mine(c))

\* The engine was aborted: its owner finalises what is left and reports the
\* bytes of all incarnations, those the sampler has taken included.
FinalizeConnection(c) ==
    /\ conns[c].phase = "live"
    /\ sources' = {IF s \in Mine(c) THEN [s EXCEPT !.final = {Value(s)}] ELSE s
                     : s \in sources}
    /\ conns' = [conns EXCEPT ![c].phase = "ended", ![c].total = {Totals(c)}]
    /\ UNCHANGED <<retired, closed, sampler, exporter, health, disk, store,
                   minute, faults, environment, traffic, sealed, rejected>>

StillSampling(c) == Mine(c) # {}

\* The session's end was reported.
Forget(c) ==
    /\ conns[c].phase = "ended"
    /\ conns' = [conns EXCEPT ![c].phase = "closed"]
    /\ retired' = [retired EXCEPT ![c] = {}]
    /\ closed' = IF StillSampling(c) THEN closed \cup {c} ELSE closed \ {c}
    /\ UNCHANGED <<sources, sampler, exporter, health, disk, store, minute,
                   faults, environment, traffic, sealed, rejected>>


-----------------------------------------------------------------------------
(* Durable writes *)

\* A write that fails may still have reached the disk.
Write(w) ==
    /\ w \in [ok : BOOLEAN, kept : BOOLEAN] /\ (w.ok => w.kept)
    /\ ~w.ok => faults < bounds.faults
    /\ faults' = IF w.ok THEN faults ELSE faults + 1

-----------------------------------------------------------------------------
(* The sampler and the log *)

\* A tick, or the stop once every session has been joined.  A failure that
\* a session reported ends the sampler; otherwise the log comes first.
BeginSample(stopping) ==
    /\ sampler.pc = "idle"
    /\ IF stopping THEN \A c \in Conns : conns[c].phase \in {"new", "closed"}
                   ELSE wal.next <= bounds.batches
    /\ IF rejected = {} THEN Goes(Continue("replay", stopping, <<>>, wal.unacked))
                       ELSE Fails
    /\ UNCHANGED <<registry, health, disk, store, minute, faults, environment,
                   traffic, sealed, rejected>>

\* The counter went around when it is below what was read last.
Read(s) == [s EXCEPT !.value = Value(s),
                     !.epoch = IF Value(s) < s.value THEN @ + 1 ELSE @]

Before(k, l) == k[2] < l[2] \/ (k[2] = l[2] /\ k[3] < l[3])
Rank(s, S) == Cardinality({t \in S : Before(t.key, s.key)})
Chunks(S) ==
    [i \in 1 .. (Cardinality(S) + ChunkSize - 1) \div ChunkSize |->
        {s \in S : Rank(s, S) \div ChunkSize = i - 1}]

\* All sources are read under one lock.
Prepare ==
    /\ sampler.pc = "take"
    /\ sources' = {Read(s) : s \in sources}
    /\ Goes(Continue("chunks", sampler.stopping, Chunks(sources'), <<>>))
    /\ UNCHANGED <<conns, retired, closed, health, disk, store, minute, faults,
                   environment, traffic, sealed, rejected>>

Sealing(snaps) == Sum(LAMBDA s : Absolute(s) - sealed[s.key], snaps)

\* The batch is durable before anyone sees it.
RecordSnapshots(w) ==
    LET snaps == Head(sampler.chunks)
        batch == [sequence |-> wal.next, snaps |-> snaps, bytes |-> Sealing(snaps)]
    IN
    /\ sampler.pc = "seal"
    /\ IF Len(wal.unacked) >= MaxUnacked
         THEN /\ Fails
              /\ rejected' = rejected \cup {"backlog"}
              /\ UNCHANGED <<wal, faults, sealed>>
         ELSE /\ Write(w)
              /\ wal' = IF w.kept THEN [wal EXCEPT !.next = @ + 1, !.unacked = Append(@, batch)]
                         ELSE wal
              /\ sealed' = IF ~w.kept THEN sealed
                            ELSE [k \in Keys |-> IF \E s \in snaps : s.key = k
                                    THEN Absolute(CHOOSE s \in snaps : s.key = k)
                                    ELSE sealed[k]]
              /\ IF w.ok THEN Goes([sampler EXCEPT !.pc = "commit"]) ELSE Fails
              /\ UNCHANGED rejected
    /\ UNCHANGED <<registry, health, consumer, outbox, store, minute, environment, traffic>>

\* What was final when it was sealed.
FinalByNow(chunk) ==
    {s.key : s \in {t \in sources : t.final # {} /\ \E u \in chunk : u.key = t.key}}
Finals(chunk) == {s.key : s \in {t \in chunk : t.final # {}}}

\* The final sources of the chunk leave the registry.  Their bytes stay in
\* retired_totals until the connection is forgotten.
Commit ==
    LET finals == Finals(Head(sampler.chunks))
        gone == {s \in sources : s.key \in finals}
        Of(c) == {s \in gone : s.key[2] = c}
        left == sources \ gone
        settled == {c \in closed : Of(c) # {} /\ ~\E s \in left : s.key[2] = c}
    IN
    /\ sampler.pc = "commit"
    /\ IF Cardinality(gone) = Cardinality(finals) /\ \A s \in gone : s.final # {}
         THEN /\ sources' = left
              /\ retired' = [c \in Conns |->
                    IF c \in settled THEN {}
                    ELSE IF Of(c) = {} \/ c \in closed THEN retired[c]
                    ELSE {SumOf(retired[c]) + Sum(Value, Of(c))}]
              /\ closed' = closed \ settled
              /\ sampler' = [sampler EXCEPT !.pc = "stage", !.chunks = Tail(@)]
              /\ UNCHANGED rejected
         ELSE /\ sampler' = [sampler EXCEPT !.pc = "failed"]
              /\ rejected' = rejected \cup {"commit"}
              /\ UNCHANGED <<sources, retired, closed>>
    /\ UNCHANGED <<conns, exporter, health, disk, store, minute, faults, environment,
                   traffic, sealed>>

-----------------------------------------------------------------------------
(* Consumer and outbox: Meter::apply, under the meter's lock *)

Batch == Head(wal.unacked)

\* What a snapshot adds to the last one of its source; {} is a rejection.
CounterDelta(base, s) ==
    LET known == {b \in base : b.key = s.key}
        p == CHOOSE b \in known : TRUE
    IN  IF known = {} THEN IF s.epoch = 0 THEN {s.value} ELSE {}
        ELSE IF s.epoch = p.epoch THEN IF s.value >= p.value THEN {s.value - p.value} ELSE {}
        ELSE IF s.epoch = p.epoch + 1 /\ p.value # 0
               THEN {bounds.width - p.value + s.value} ELSE {}

Baseline(s) == [key |-> s.key, value |-> s.value, epoch |-> s.epoch]

\* Baselines of earlier processes are dropped, a final source has none, and
\* the bytes are pending until the outbox has them.
Stage(snaps, generation) ==
    LET base == {b \in consumer.base : b.key[1] >= generation}
    IN  [last |-> Batch.sequence,
         gen |-> generation,
         base |-> {b \in base : \A s \in snaps : s.key # b.key}
                    \cup {Baseline(s) : s \in {t \in snaps : t.final = {}}},
         pending |-> {SumOf(consumer.pending)
                        + Sum(LAMBDA s : SumOf(CounterDelta(base, s)), snaps)}]

\* apply: a batch that is new is staged and drained, the last one again is
\* drained only, an older one changes nothing.
StageBatch(w) ==
    LET snaps == Batch.snaps
        generation == (CHOOSE s \in snaps : TRUE).key[1]
        base == {b \in consumer.base : b.key[1] >= generation}
        wellFormed == /\ Batch.sequence = consumer.last + 1
                      /\ generation >= consumer.gen
                      /\ \A s \in snaps : CounterDelta(base, s) # {}
        drains == IF consumer.pending = {} THEN "ack" ELSE "sink"
    IN
    /\ sampler.pc = "stage"
    /\ IF ~(health.accepting /\ health.consumer /\ health.outbox /\ health.writer)
         THEN Fails /\ UNCHANGED <<consumer, health, faults, rejected>>
       ELSE IF ~SinkAgrees
         THEN /\ Fails /\ health' = [health EXCEPT !.consumer = FALSE]
              /\ rejected' = rejected \cup {"sink checkpoint"}
              /\ UNCHANGED <<consumer, faults>>
       ELSE IF Batch.sequence <= consumer.last
         THEN /\ Goes([sampler EXCEPT
                   !.pc = IF Batch.sequence = consumer.last THEN drains ELSE "ack"])
              /\ UNCHANGED <<consumer, health, faults, rejected>>
       ELSE IF ~wellFormed
         THEN Fails /\ rejected' = rejected \cup {"batch"} /\ UNCHANGED <<consumer, health, faults>>
       ELSE /\ Write(w)
            /\ consumer' = IF w.kept THEN Stage(snaps, generation) ELSE consumer
            /\ IF w.ok THEN Goes([sampler EXCEPT !.pc = "sink"]) /\ UNCHANGED health
                       ELSE Fails /\ health' = [health EXCEPT !.consumer = FALSE]
            /\ UNCHANGED rejected
    /\ UNCHANGED <<registry, wal, outbox, store, minute, environment, traffic, sealed>>

\* Outbox::apply: the sequence and the bytes are one write, and a sequence
\* it has is skipped.
IngestAgain(o) ==
    [o EXCEPT !.last = consumer.last, !.data = {SumOf(@) + SumOf(consumer.pending)}]
Ingest(o) ==
    IF consumer.last <= o.last THEN o
    ELSE [o EXCEPT !.last = consumer.last, !.data = {SumOf(@) + SumOf(consumer.pending)}]

Sink(w) ==
    LET next == Ingest(outbox)
    IN
    /\ sampler.pc = "sink"
    /\ IF consumer.last > outbox.last + 1
         THEN /\ Fails /\ health' = [health EXCEPT !.consumer = FALSE]
              /\ rejected' = rejected \cup {"sink gap"}
              /\ UNCHANGED <<outbox, faults>>
       ELSE IF next = outbox
         THEN /\ w.ok /\ w.kept /\ Goes([sampler EXCEPT !.pc = "clear"])
              /\ UNCHANGED <<outbox, health, faults, rejected>>
       ELSE /\ Write(w)
            /\ outbox' = IF w.kept THEN next ELSE outbox
            /\ IF w.ok THEN Goes([sampler EXCEPT !.pc = "clear"]) /\ UNCHANGED health
               ELSE Fails /\ health' = [health EXCEPT !.consumer = FALSE, !.outbox = FALSE]
            /\ UNCHANGED rejected
    /\ UNCHANGED <<registry, wal, consumer, store, minute, environment, traffic, sealed>>

ClearPending(w) ==
    /\ sampler.pc = "clear"
    /\ Write(w)
    /\ consumer' = IF w.kept THEN [consumer EXCEPT !.pending = {}] ELSE consumer
    /\ IF w.ok THEN Goes([sampler EXCEPT !.pc = "ack"]) /\ UNCHANGED health
               ELSE Fails /\ health' = [health EXCEPT !.consumer = FALSE]
    /\ UNCHANGED <<registry, wal, outbox, store, minute, environment, traffic, sealed, rejected>>

\* acknowledge: the log is trimmed after the batch was applied.
Acknowledge(w) ==
    LET trimmed == Tail(wal.unacked)
    IN
    /\ sampler.pc = "ack"
    /\ Write(w)
    /\ wal' = IF w.kept THEN [wal EXCEPT !.unacked = trimmed] ELSE wal
    /\ IF w.ok THEN Goes(Continue(sampler.phase, sampler.stopping, sampler.chunks, trimmed))
               ELSE Fails
    /\ UNCHANGED <<registry, health, consumer, outbox, store, minute, environment,
                   traffic, sealed, rejected>>

-----------------------------------------------------------------------------
(* The exporter *)

\* The intake holds the meter's lock from staging to clearing.
Unlocked == sampler.pc \notin {"sink", "clear"}

\* Outbox::seal: a window that is there is used again, unchanged.
Seal(at, w) ==
    IF health.outbox /\ outbox.window = NoWindow /\ outbox.data # {}
      THEN /\ Write(w)
           /\ outbox' = IF ~w.kept THEN outbox
                ELSE [outbox EXCEPT !.data = {},
                        !.window = [minute |-> at, bytes |-> SumOf(outbox.data), stored |-> FALSE]]
      ELSE w.ok /\ w.kept /\ UNCHANGED <<outbox, faults>>

\* flush, up to the upload.  An error ends the attempt.
Attempt(at, w, accepting) ==
    LET uploads == health.outbox /\ w.ok /\ (outbox.window # NoWindow \/ outbox.data # {})
    IN
    /\ Unlocked
    /\ Seal(at, w)
    /\ health' = [health EXCEPT !.accepting = accepting, !.outbox = @ /\ w.ok]
    /\ exporter' = [pc |-> IF uploads THEN "upload" ELSE IF accepting THEN "waiting" ELSE "stopped",
                    next |-> Min({at, bounds.minutes}) + 1, ok |-> FALSE]
    /\ UNCHANGED <<registry, sampler, wal, consumer, store, minute, environment,
                   traffic, sealed, rejected>>

FirstAttempt(w) == exporter.pc = "start" /\ Attempt(minute, w, TRUE)

Stopping == sampler.pc \in {"done", "failed"}

\* Once the clock has run out only retries are left.
PeriodicAttempt(w) ==
    /\ exporter.pc = "waiting" /\ ~Stopping
    /\ minute >= exporter.next \/ (minute = bounds.minutes /\ outbox.window # NoWindow)
    /\ Attempt(exporter.next, w, TRUE)

\* The sampler has ended: intake closes, and what is there is exported under
\* the next minute.
FinalAttempt(w) ==
    /\ exporter.pc = "waiting" /\ Stopping
    /\ Attempt(exporter.next, w, FALSE)

\* put_new: an object that exists is never replaced.  An upload that fails
\* may have stored the object.
Upload(ok, stored) ==
    LET exists == store[outbox.window.minute] # {}
    IN
    /\ exporter.pc = "upload"
    /\ exists => ~ok /\ ~stored
    /\ ok => stored
    /\ (~ok /\ ~exists) => faults < bounds.faults
    /\ faults' = IF ok \/ exists THEN faults ELSE faults + 1
    /\ store' = IF stored THEN [store EXCEPT ![outbox.window.minute] = {outbox.window.bytes}]
                ELSE store
    /\ outbox' = [outbox EXCEPT !.window.stored = @ \/ stored]
    /\ exporter' = [exporter EXCEPT !.pc = "settle", !.ok = ok]
    /\ UNCHANGED <<registry, sampler, health, wal, consumer, minute, environment,
                   traffic, sealed, rejected>>

\* exported clears the window; export_failed keeps it, and closes intake.
Settle(w) ==
    /\ exporter.pc = "settle" /\ Unlocked
    /\ exporter' = [exporter EXCEPT !.pc = IF health.accepting THEN "waiting" ELSE "stopped"]
    /\ IF exporter.ok /\ health.outbox
         THEN /\ Write(w)
              /\ outbox' = IF w.kept THEN [outbox EXCEPT !.window = NoWindow] ELSE outbox
              /\ health' = [health EXCEPT !.outbox = w.ok, !.writer = @ \/ w.ok]
         ELSE /\ w.ok /\ w.kept /\ UNCHANGED <<outbox, faults>>
              /\ health' = [health EXCEPT !.writer = @ /\ exporter.ok]
    /\ UNCHANGED <<registry, sampler, wal, consumer, store, minute, environment,
                   traffic, sealed, rejected>>

\* Sampler and exporter have ended, and so does the process.  A process that
\* fails while it recovers has no exporter yet.
Exit ==
    /\ Stopping
    /\ exporter.pc = "stopped" \/ (exporter.pc = "down" /\ sampler.phase = "recover")
    /\ Reset
    /\ UNCHANGED <<disk, store, minute, faults, environment, traffic, sealed, rejected>>

Tick ==
    /\ minute < bounds.minutes
    /\ minute' = minute + 1
    /\ UNCHANGED <<registry, sampler, exporter, health, disk, store, faults,
                   environment, traffic, sealed, rejected>>

-----------------------------------------------------------------------------
(* Specification *)

Init ==
    /\ bounds \in Instances
    /\ conns = [c \in Conns |-> NewConn]
    /\ sources = {}
    /\ retired = [c \in Conns |-> {}]
    /\ closed = {}
    /\ sampler = Down
    /\ exporter = ExporterDown
    /\ health = AllHealthy
    /\ wal = [process |-> 0, next |-> 1, unacked |-> <<>>]
    /\ consumer = [last |-> 0, gen |-> 0, base |-> {}, pending |-> {}]
    /\ outbox = [last |-> 0, data |-> {}, window |-> NoWindow]
    /\ store = [m \in Minutes |-> {}]
    /\ minute = 1 /\ faults = 0 /\ crashes = 0
    /\ traffic = [k \in Keys |-> 0]
    /\ sealed = [k \in Keys |-> 0]
    /\ rejected = {}

AWrite == [ok : BOOLEAN, kept : BOOLEAN]

SamplerStep ==
    \/ \E stopping \in BOOLEAN : BeginSample(stopping)
    \/ Prepare
    \/ \E w \in AWrite : RecordSnapshots(w)
    \/ Commit
    \/ \E w \in AWrite : StageBatch(w)
    \/ \E w \in AWrite : Sink(w)
    \/ \E w \in AWrite : ClearPending(w)
    \/ \E w \in AWrite : Acknowledge(w)

ExporterStep ==
    \/ \E w \in AWrite : FirstAttempt(w)
    \/ \E w \in AWrite : PeriodicAttempt(w)
    \/ \E w \in AWrite : FinalAttempt(w)
    \/ \E ok \in BOOLEAN, stored \in BOOLEAN : Upload(ok, stored)
    \/ \E w \in AWrite : Settle(w)

Process == Start \/ Exit

Next ==
    \/ Process
    \/ Crash
    \/ \E c \in Conns : Attach(c)
    \/ \E c \in Conns : Transfer(c)
    \/ \E c \in Conns : SwapBegins(c)
    \/ \E c \in Conns : SwapEnds(c)
    \/ \E c \in Conns : EngineEnds(c)
    \/ \E c \in Conns : FinalizeConnection(c)
    \/ \E c \in Conns : Forget(c)
    \/ SamplerStep
    \/ ExporterStep
    \/ Tick

Spec == Init /\ [][Next]_vars

\* A process that ended is started again, its tasks run and the clock goes
\* on; sessions owe nothing.
FairSpec ==
    /\ Spec
    /\ WF_vars(bounds.live /\ Process) /\ WF_vars(bounds.live /\ SamplerStep)
    /\ WF_vars(bounds.live /\ ExporterStep) /\ WF_vars(bounds.live /\ Tick)

-----------------------------------------------------------------------------
(* Properties *)

Source == [key : Keys, value : Nat, epoch : Nat]
AtMostOne(S) == S \subseteq Nat /\ Cardinality(S) <= 1

\* Every variable has its shape.
TypeOK ==
    /\ \A c \in Conns : /\ conns[c].phase \in {"new", "live", "swapping", "ended", "closed"}
                         /\ conns[c].generation \in 0 .. bounds.generations
                         /\ AtMostOne(conns[c].total) /\ AtMostOne(retired[c])
    /\ \A s \in sources : Baseline(s) \in Source /\ AtMostOne(s.final)
    /\ closed \subseteq Conns
    /\ sampler.pc \in {"down", "idle", "take", "seal", "commit", "stage", "sink",
                       "clear", "ack", "done", "failed"}
    /\ sampler.phase \in {"recover", "sample", "replay", "chunks"}
    /\ exporter.pc \in {"down", "start", "waiting", "upload", "settle", "stopped"}
    /\ \A b \in {wal.unacked[i] : i \in DOMAIN wal.unacked} : b.snaps # {}
    /\ consumer.base \subseteq Source /\ AtMostOne(consumer.pending)
    /\ AtMostOne(outbox.data) /\ outbox.window.minute \in Minutes
    /\ \A m \in Minutes : AtMostOne(store[m])
    /\ minute \in 1 .. bounds.minutes

\* Every byte the log took over is in exactly one place: exported, in the
\* window, in the outbox, pending at the consumer, or in a batch the consumer
\* has not applied.  Whatever write failed and wherever the process crashed,
\* nothing is billed twice and nothing is lost (consumer.rs, outbox.rs).
BilledOnce ==
    LET unsunk == IF consumer.last > outbox.last THEN SumOf(consumer.pending) ELSE 0
        waiting == {i \in DOMAIN wal.unacked : wal.unacked[i].sequence > consumer.last}
    IN  Sum(LAMBDA k : sealed[k], Keys)
          = Sum(LAMBDA m : SumOf(store[m]), Minutes)
              + (IF outbox.window.stored THEN 0 ELSE outbox.window.bytes)
              + SumOf(outbox.data) + unsunk
              + Sum(LAMBDA i : wal.unacked[i].bytes, waiting)

\* When the sampler ends without an error, every byte of every session is
\* with the consumer's outbox and nothing is left in the log, the registry
\* or the consumer's baselines (native_meter.rs, run).
CleanStopLosesNothing ==
    sampler.pc = "done" =>
        /\ \A k \in Keys : k[1] = wal.process => sealed[k] = traffic[k]
        /\ wal.unacked = <<>> /\ consumer.pending = {}
        /\ sources = {} /\ {b \in consumer.base : b.key[1] = wal.process} = {}

\* The totals an owner reports for an engine it aborted are the bytes of all
\* incarnations, however the sampler raced with the swap and the abort, as
\* long as no counter wrapped round (the totals add up raw counters).
ClosedTotalsExact ==
    \A c \in Conns : \A n \in conns[c].total :
        LET carried == {k \in Keys : k[1] = wal.process /\ k[2] = c}
        IN  (\A k \in carried : traffic[k] < bounds.width) => n = Sum(LAMBDA k : traffic[k], carried)

\* What is kept for a connection goes with it: no totals once it is closed,
\* and a mark only while a source still has to be handed over.
ClosedLeavesNothing ==
    \A c \in Conns : /\ conns[c].phase = "closed" => retired[c] = {}
                     /\ c \in closed => Mine(c) # {}

\* No batch, source or checkpoint the program makes is rejected as
\* inconsistent by the component that receives it, after any crash.
NothingRejected == rejected = {}

\* The state invariants around the bill together: a clean stop loses nothing,
\* totals of closed connections are exact and leave nothing, nothing is
\* rejected.
MeteringConsistent ==
    TypeOK /\ CleanStopLosesNothing /\ ClosedTotalsExact /\ ClosedLeavesNothing /\ NothingRejected

\* A batch in the log is delivered and trimmed in the end, through failures
\* and restarts, as long as the process is started again.
LogDrains ==
    bounds.live /\ wal.unacked # <<>> ~> (wal.unacked = <<>> \/ wal.process = bounds.processes)

=============================================================================
