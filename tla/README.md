# A TLA+ model of cadent's write path

Cadent receives metrics (statsd, graphite, carbon2.0, json), accumulates and
aggregates them, routes lines to other servers by a consistent hash, and writes
aggregated points to databases through write-back caches.  This directory holds
TLA+ specifications of parts of it, the TLC configurations that check them, and
proofs checked by TLAPS.  Paths below are relative to `src/cadent/server/`.

## The system

| Part | Code | State here |
|---|---|---|
| chunked write-back cache | `writers/metrics/cache_chunk.go` | `CacherChunk` |
| log writers | `writers/metrics/cassandra_log.go`, `leveldb_log.go` | `LogMetric`, `SliceInsert` |
| start-up gate `okToWrite` | the same, and `writers/indexer/cassandra.go` | `StartGate` |
| Start/Stop guard | `utils/once.go` | `StartStop` |
| job dispatcher | `dispatch/dispatch.go` | `Dispatch` |
| accumulator, aggregation loop, writer loop | `accumulator/`, `schemas/repr/aggregator.go`, `writers/writer.go` | `Accumulator`, `AggLoop`, `Pipeline` |
| single-point cache, series writer, kafka injector | `writers/metrics/cache_single.go`, `cassandra.go`, `writers/injectors/` | `KafkaInjector` |
| triggered rollup | `writers/metrics/rollup.go` | `Rollup` |
| consistent hasher, server pool, LRU cache | `hasherpool.go`, `serverpool.go`, `lrucache/` | `Hasher` |
| output workers, connection pools | `output.go`, `netpool/` | `Output` |
| server front end, broadcaster | `server.go`, `broadcast/` | the parts the others use |
| indexers, read cache, other metric writers, series encodings | `writers/`, `series/`, `schemas/` | not modelled |
| splitters, prereg, APIs, gossip, configuration, pages, commands | | not modelled: parsing, I/O, libraries |

`PROJECT.json` lists the parts in full.

How the parts work together.  A line that another server owns is routed by the
hasher and sent by an output worker.  A line this server owns is accumulated; a
flush tick sends the accumulated stats to the aggregation loop, and a second tick
sends its items to the writer loop, which calls the metric writer's Write.  A
kafka injector calls the metric writer directly.

A log writer holds a Write at a gate until start-up has replayed the log, and
adds the point to the current *chunk* and the current *slice*.  Every few seconds
the slice is inserted in the log table under the current *sequence* number.  Every
few minutes the chunk is rotated, the sequence number advanced, and the old chunk
sent to the series writer, which inserts its series and then deletes the chunk's
sequence from the log.  A series writer without a log keeps one growing series per
metric and writes it when it is too long or too old; a kafka topic can be its log.

## Modules

**CacherChunk** is the cache.  A point stands for one `StatRepr`; a chunk, a
`CacheChunkSlice` and a `CacheChunkLog` are a sequence number with a set of
points.  Each goroutine has a control point: `dumpPc` for `runLogDump`, `cyclePc`
for `cycleChunks`.  A step ends where the code releases a lock or may block.  The
listener channels of the two broadcasters hold one message each.

**LogMetric** extends it to the two writers, chosen by `Backend`.  Disk state is
`table` (log) and `db` (series).  `WriteEnter` and `WriteAdd` are the two halves
of Write, before and after its unlocked checks.  `TakeLog`, `WriteLogRow` and
`DropLogRow` are the log writer.  `TakeSlice`, `InsertSeries`, `InsertGivesUp`,
`InsertRetried`, `WaitHangs` and `PurgeSequence` are the series writer.  Once an
insert fails while several workers share `err`, its WaitGroup is `shaken`: the
purge may come too early, and the series it overtakes are `strays`, or never.
`GetSequences`, `BackFillRow` and `OkToWrite` are Start.  `Crash` may come at any
time; `Exit` is the end of a Stop whose final log write was done in time.  The
variables `acked`, `logged`, `abandoned`, `replayed` and `crashLost` are history,
read by properties only.

**PointCustody** is the abstract specification: a point is offered, held and
stored; it may be gone instead only with an excuse, which takes a failed database
call or the end of a process.  `LogMetric!KeepsCustody` is the refinement.

**SliceInsert** opens up the series writer of `cassandra_log.go`: workers that
share one variable `err`, which the purge assigns too, and a WaitGroup.  Each read
and write of `err` is a step.  What it shows a failed insert can lead to (a series
given up unnoticed, a wait that returns early or never, a panic) is what `LogMetric`
allows after one.

**StartGate** has each read and write of the field `okToWrite` as a step.
`Remakes` tells `cassandra_log` (Start makes a new channel) from `leveldb_log`.

**StartStop** has each lock operation and each test of `done` as a step.

**Dispatch** has one step per channel operation of the dispatcher and its workers:
`TakeJob`, `TakeWorker` and `HandJob`; `Register`, `DoWork`, `DoWorkFails` and
`Requeue`; `Shutdown` and `StopWorker`, worker after worker.  **JobQueue** is what
its users count on, `Dispatch!IsAJobQueue` the refinement.

**KafkaInjector** composes the consumer of one partition, the single-point cache,
the overflow writer and the marks.  A message is an offset and a series.  `Start`
reads the marks of the local database or the commit topic and picks the offset to
resume at; `Skip`, `Refuse`, `Consume` and `OutOfRange` are the consumer;
`pushExpired` the expiry tick; `InsertSeries`, `onMessageWritten` and
`processMarkWrote` carry a written series to its marks; `Stop`, `LateAdd` and
`Purge` are the shutdown.  `orphans` and `dropped` are history.

**Accumulator** and **AggLoop** are the two halves of **Pipeline**, which composes
them.  A line is followed from `ProcessLine` through `LineQueue`, `FlushList` and
`Reset` (two critical sections), `InputChan`, the dispatcher (as a JobQueue),
`Add` (which looks an item up and then changes it through the pointer),
`WriteTick`, `post` and the writer loop's channel and queue to `metrics.Write`.
A stat carries the lines it counts, each with the flush that copied it.

**Output** is `PoolWriter.Write` over the buffered pool: taking a connection,
dialling again, writing to the buffer, flushing, resetting, putting it back; the
goroutine that flushes every connection; and `purgenode`, which destroys the pool
under the workers.  A buffer is a set of lines, and its size a number of lines.
`deadline` is the connection's write deadline: each Write sets it anew, it may pass
at any time (`DeadlinePasses`), and then every flush times out until the next Write.

**Hasher** has lookups (`CacheGet`, `GetN`, `Get`, `CacheSet`) against calls of
addnode and purgenode (`Begin`, `WriteXref`, `LockPool`, `ChangeRing`, `Clear`)
that change the ring, the pool's list and the two maps one by one.  The ring holds
hash keys; addnode may give a server any, one in use too, which the map from hash
keys to servers then has for the new server, while the ring has it once and counts
it twice.  `Order` gives the hash keys a key meets on the ring, and `Route` walks
along it as GetN does; a walk that wants more members than there are may never end
("spin").  The LRU cache is its list, most recent first, and its size field.  The
ring's RWMutex lets no reader in while a writer waits, as Go's does.

**Rollup** has both run modes: `Add`, the queue that holds a series once,
`popQueue`, and workers that read the rows back and write every resolution.

Operators marked "Mutant" are altered forms of the operator that follows them.
No specification uses them; `PROJECT.json` says which property each one breaks.
The modules named MC... give constants their values.

## Runs

Passing runs:

| Run | Instance | Shows |
|---|---|---|
| LogMetric_faults | 2 points, 1 fault of any kind, 2 crashes or stops | rows are never filed too low; the log outlives the chunk; no accepted point is silently lost; replay finds every row; the refinement of PointCustody |
| LogMetric_live | 2 points, 1 fault of any kind, 1 crash or stop | accepted points are eventually written, unless the series writer hangs after a failed insert |
| SliceInsert_racing | 3 series, 2 workers, 3 failures | until a call fails, the WaitGroup counts the open series and the purge is reached; until an insert fails, the purge comes when all series are written |
| StartGate_leveldb | 3 writers, channel kept | no early write; waiting writes are released |
| StartStop_calls | 3 goroutines, 2 calls each | Start and Stop alternate |
| Dispatch_jobs | 5 jobs, 2 workers, queue of 2, 2 failures, a stop | the refinement of JobQueue; a deadlock takes more open jobs than the queue and the workers hold, a stuck stop more than the queue holds; short of that every job gets done and Stop ends |
| Kafka_restarts | 3 messages of 2 series in 2 orders, every `starting_offset`, 1 stop or crash, 1 fault | no mark promises more than is stored; a point the consumer is past is stored, in memory or lost in a known way; every other point gets stored |
| Pipeline_lines | 2 lines, 1 flusher beside Stop's, 2 ticks, queues of 1, a stop | up to the tick a line vanishes, or counts twice, only by the races named below; points are written in time order; a line left alone is written; Stop returns |
| Output_pool | 2 lines, 2 workers, 2 connections, 2 faults, a purge | a connection is in one place; an accepted line stays in a buffer until sent; lines get accepted, and sent if the connection stays up and the deadline does not stay over |
| Hasher_routes | 2 keys, 2 servers, 2 hash keys, 2 lookups, 2 calls, 1 or 2 replicas, 1 or 2 places each | only a lookup that read the ring before it changed leaves a stale route; the cache keeps to its capacity unless such an entry is in it; ring, count, list and maps agree, but that a server whose hash key was given to another is not reached; calls end, but for the two waits named below |
| Rollup_chunks | 3 chunks of a series, 2 resolutions, 2 workers, 1 fault, a stop | the skip of queued series leaves no chunk without a rollup to come; chunks get rolled up; the goroutines end after Stop |

In Pipeline a line vanishes when it is processed between `FlushList` and `Reset`,
counts twice when two flushes overlap, is late when `Add` still holds an item that
was written, and is dropped by a full writer channel, with its whole tick, or by a
full write queue.  In Hasher a call and a lookup may wait for each other, and a call
for a walk that never ends.

LogMetric_raced is expected to fail: a point added between clone and reset of the
slice is in the chunk and in no log, contrary to the comment `PROJECT.json` quotes.

The code differs from what a document or comment says in more places.  TLC finds
each of the following when the property replaces those of the run named, with the
changes given:

| Property | Run and changes | What happens |
|---|---|---|
| ReplayedStayOnDisk | raced, `TwoPoints`, `MaxCrashes = 1` | start-up deletes older sequences whose points are only in RAM |
| SlurpsAllLogs | the same, `Backend = "leveldb"` | older sequences are deleted unread |
| ReplaySeesEveryRow | the same, `Backend = "leveldb"` | the newest sequence is purged while it is read |
| NoWriteDuringReplay | raced, `TwoPoints`, `MaxCrashes = 1` | writes are let in while replayed points are still queued |
| PurgedOnlyIfWritten | raced, `FaultKinds = {"insert"}`, `MaxFaults = 1` | a series that was given up is purged from the log all the same |
| CleanExitKeepsAll | raced, `MaxCrashes = 1` | a point added after the final flush is lost by a completed Stop |
| AllWrittenBeforePurge | SliceInsert_racing, `Spec`, `MayGiveUp = FALSE`, `MaxFails = 2` | a failed insert is taken for a success, and the log purged |
| WaitEnds | SliceInsert_racing, `MayGiveUp = FALSE`, `MaxFails = 2` | a series is never marked done, and the purge never comes |
| BlocksOnlyUntilReady | StartGate_leveldb | a Write waits for ever on a nil channel |
| WaitingIsReleased | StartGate_leveldb, `Remakes = TRUE` | a Write waits for ever on the channel Start replaced |
| CallReturns | StartStop_calls, `OnceLiveSpec`, `TwoProcs`, no symmetry | Start and Stop wait for each other's lock |
| SeriesInMemoryAreBackfilled | Kafka_restarts | points of a series with no mark yet, before the smallest mark, are not read again (`writers/injectors/kafka.go:22` says all series in RAM are backfilled) |
| FlushedNoMatterWhat | Output_pool | a line stays in the buffer of a connection that is down (`netpool/buffered.go:81`: "periodically flush data no matter what") |
| FlushedNoMatterWhat | Output_pool, `MaxFaults = 0`, `MaxPools = 1` | a line stays in the buffer of a connection whose write deadline is over: `output.go:113` sets it before a Write, the flush does not |
| NodeIsAdded | Hasher_routes | addnode waits for a lookup of one server, which waits for addnode: GetN takes the read lock twice |
| HashkeysAreUnique | Hasher_routes | addnode gives a server the hash key of another, which is no longer reached (`config/hashers.go:229`: "Hashkeys need to be unique") |
| WalkEnds | Hasher_routes | the ring counts two members and has one: a walk from the first place passes it for ever, with the read lock held (`consistent.go:278`: "GetN returns the N closest distinct elements") |

For the first two a comment in the code says that older sequences are given up on
purpose; it is the documentation that differs.

Three differences were found by reading and change nothing a model could reach.
A failed health check adds 0 to the count of failures (`serverpool.go:347`), so
that no server is ever dropped, whatever `docs/configtoml.md` says of retries.
`rollup` merges with no old data (`rollup.go:596`), so that every rollup inserts a
row where `rollup.go:35` says rows are updated; chunks read twice are counted
twice, which `docs/injectors.md` admits.  `AddIfBigger` (`kafka_offsets.go:44`)
lets a smaller offset replace a larger one; KafkaInjector has it so.

Bounds.  Two points suffice for one to be in a chunk and a log row while the
other is in the next.  `LogPart` is 1, so a log of two metrics takes two rows.
`MaxIdle` bounds rotations of an empty chunk, which only advance the sequence
number; it is 0 in the passing runs, and both also pass with 1 (3.6 million states
for LogMetric_faults).  `MaxFaults` and `MaxCrashes` bound failures; two crashes
include one during the replay after the other.  `NumChunks` is 1: rotated chunks
are only read.  The code has four insert workers; two are enough to share `err`.
All passing LogMetric runs are of the cassandra writer with time stamps on all
points; the leveldb writer and points without time are covered by the theorems
that do not exclude them.

Five jobs are one more than two workers and a queue of two hold, so the deadlock of
Dispatch is reached.  Two series at different marks and two messages of one are
enough for a restart to skip; the theorems hold for any topic, and the run passes
with four messages too (1.9 million states).  Queues of one in Pipeline make every
full-queue case happen.  Hasher passes with three calls and two places each (2.7
million states) and, with a third server, with two calls, or three against a single
client.  Rollup has one series, as series share only the
queue.

Deadlock is checked in the LogMetric runs.  The other systems end: a chunk is
purged, all writers have passed, all calls are made, jobs, lines or messages are
used up.

Fairness.  Each goroutine that can run eventually does (weak fairness of its
steps), as Go's scheduler provides.  `runLogDump` selects between a tick and the
closed shutdown channel; Go picks at random among ready cases, so it does not
ignore one for ever (strong fairness of the final flush).  Tickers tick, and the
expiry tick of the cache reaches every series.  Kafka_restarts assumes that a
process that ended is started again, and Output_pool that an operator's purge, once
begun, goes on; there a flusher that times out sleeps a second between two attempts
and leaves the lock, so that a Write or purge that waits for it gets it (strong
fairness).  Nothing is assumed of clients, Stop, crashes, or calls of addnode
and purgenode; failures are bounded by `MaxFaults` and not fair, nor
has a deadline to pass.

## Proofs

| Theorem | Module | Assumes |
|---|---|---|
| TypeCorrect, LogRowsAreFiledLate | LogMetricProofs | |
| LogOutlivesTheChunk | LogMetricProofs | ShouldWrite |
| ReplayReadsEveryRow | LogMetricProofs | cassandra |
| NothingSilentlyLost, WriterKeepsCustody | LogMetricProofs | ShouldWrite, cassandra |
| NothingPassesEarly (StartGate) | SyncProofs | |
| GuardIsSound, StartAndStopAlternate (StartStop) | SyncProofs | |
| WaitIsExact, LogIsPurgedLast (SliceInsert) | SyncProofs | |
| DispatchIsSafe, OnlyIdleWorkersAreChosen, StopLosesNothingInHand | DispatchProofs | |
| AJobIsInOnePlace, AWedgeIsAFullHouse, AWedgeIsForEver | DispatchProofs | |
| DispatcherIsAJobQueue | DispatchProofs | |
| InjectorIsSafe, NoMarkOvertakesAPoint, NoPointIsForgotten | KafkaProofs | |
| NoChunkIsForgotten | RollupProofs | |
| CallsKeepTheServersTogether, CachedRoutesAreCurrent, OneEvictionIsEnough | HasherProofs | |
| ConnectionsAreNotShared, AcceptedLinesAreKept | OutputProofs | |
| LinesReachTheWriterLoop, LinesCountOnce, WriterGetsThemInOrder | PipelineProofs | finitely many lines |

All rest on the named assumptions on the constants and hold for any sets and any
bounds.  ShouldWrite excludes cache-only replicas, which purge without writing.
The leveldb writer is excluded where its replay loses rows.

The argument.  `LogNotOlderThanChunk` is not inductive: a rotation between the
clone and the read of the sequence number is harmless only because numbers grow.
`OrderInv` adds that chunks in flight carry increasing numbers (`NumbersInOrder`),
that nothing is accepted before the replay is over (`QuietUntilUp`), and that only
accepted points are logged (`OnlyKnownPoints`).  `LoggedUntilWritten` then needs
`FreshPointsHeld`: a point of this incarnation is in flight until it is written or
given up, so when a purge removes its row no pending chunk with that number holds
it, unless the purge overtook its insert.  `ChainOfCustody` follows from
`CustodyInv`, which needs the log only for rows start-up has yet to read, and from
`ReplayInv`, which says those rows are still there.  The refinement adds that no
point comes back once it is gone.  For StartGate, `GateInv` adds that the field is
nil, and a channel closed, only after the replay.  For StartStop, `DoInv` ties
each lock to its holder and the Once whose function ran last to its `done` flag.

For Dispatch, `PoolHoldsIdle` is almost inductive.  `InHand` adds who holds a job
at each control point, and that workers are stopped in the order of their numbers;
the refinement follows, with the job the dispatcher holds as the first of those
that wait.  `Wedged` says by the state of the channels that no goroutine can go on;
TLC confirms that these are the states without a step when `WedgedIsStuck` joins
the invariants of Dispatch_jobs.  A worker that registers always finds room in the
pool, so a wedge has two forms only (`WedgeForms`); in both the queue is full, and
the open jobs are counted with an injection from the places that hold them, which
`JobsApart` makes one: no job is in two places.

For KafkaInjector, `MarksAreSafe` needs that marks in anyone's hands are safe
(`KnownMarksAreSafe`), which needs that a series in the overflow channel is behind
all earlier points of its metric (`OverflowInOrder`), which needs that what the
consumer is past and is neither stored nor in the channel is still in the cache
(`CacheIsBehind`).  That the purge reports no offset is essential: with its own
offset it could overtake the overflow writer.

For SliceInsert, `BlastInv` adds that a series is in one place (`InOnePlace`), so
that moving it from one to the next moves the counter by one, that until the first
failure, of the purge included, nobody reads an error in the shared `err`
(`NoErrorYet`), and that until an insert fails a series is on its way to one or
written (`Accounted`).

For Rollup, `NothingIsMissed` is inductive once types are known and `InPlace` says
that `popQueue` holds an item exactly while it sends it and that a worker starts
at the first resolution: a chunk that `Add` skips is older than one whose rows are
still to be read.

For Hasher, `RingMatchesServers` needs what ring, count, list and maps hold at each
stage of the one call under way (`CallInv`, with `Progress`), and that each hash key
of the one map leads to a server that has it in the other (`MapsAgree`); the reverse
holds until a hash key is shared.  `CacheInv` says what a lookup that is not late
holds, that its servers are those of the maps while no call changes them (`Steady`),
and that what it cached has one length, that of every route of the present ring; so
one eviction makes room for one new entry.
That `Route` gives a list of that length rests on `MemberFound`: the walk along
the ring meets one new member at a time, hence each number of them, which is
proved with a least counterexample.

For Output, `ConnInOnePlace` counts; `OnePlace` says the same without counting, so
that each action changes it for one connection.  `InOwnPool` adds that a worker's
connection is of its pool, that nobody has one of a pool not yet made, and that a
channel is closed only by a purge.  `AcceptedIsKept` then holds because each step
that empties a buffer has written it.

For Pipeline, `OrderInv` says that what was written, what is queued, what is in the
channel and what is still to be posted is one sequence in order, with nothing in it
that was dropped; a tick's list comes after all of it.  The copies of a line can be
in six places (`Spots`): the lists of flushes, `InputChan`, the jobs, `Add`'s hand,
the items and the ticks.  Each step moves a stat from one place to another, and
`MoveIsShift` says what a move does to the copies of every line: none is lost
(`KeptInv`) and none doubled (`CountInv`).  Only `FlushList` makes a copy, of a line
in the map; `WaitInv` says that such a line has no copies but those of flushes about
to reset the map, so a second copy takes a second flush at work, and a `Reset` loses
only lines without a copy.  `Add`, which changes an item that a tick may have taken
in the meantime, needs that the item is where its pointer leads (`AddTypes`).

Only model-checked: the liveness properties (fairness is out of the prover's reach),
that `Wedged` is what ENABLED says (out of its reach too), and the instances that
show a difference.

## What the models leave out

Log writers.  Points are set elements, so a point written twice is not told from
one written once; series order inside a chunk is not modelled.  Log rows do not
expire (`CASSANDRA_LOG_TTL`).  `ForceChunkWrite` and `addStatToSlice` are never
used.  A series' own refusal of a point, other than for a zero time, is left out.
The backfill channel is unbounded in the model; in the code it has 32 places and
a goroutine that always drains it.

Pipeline.  One resolution with one writer, the BLACKHOLE backend, `KeepKeys` off, no
bypass, no start-up delay.  The test of shutdown in `ProcessLine` may be arbitrarily
early.  The statsd and carbon2 accumulators have the critical sections of the
graphite one; what they compute is arithmetic on values, which the model does not
have.  A looper that was told to stop may take more steps, and is owed none.

Kafka.  One partition; messages that do not decode are skipped by the code and not
modelled.  The rollup consumer is never started.  The sorted queue of the
single-point cache serves the writers of single points only.

Output.  The bytes of a line and partial writes: a flush that fails keeps the whole
buffer, so that a line may be sent twice, which a set does not show.  The unbuffered
pool has no state beyond its channel.

Hasher.  Where a key falls on the ring is a constant, and two hash keys never fall on
the same place.

Rollup.  Resampling, and the rows a chunk is cut into.

Not modelled at all:

- Indexers: search structures and query languages of their databases.  Their write
  cache marks a name as written when it is taken, before the write succeeds.
- The read side (readers, read cache, APIs, render functions): it changes no state
  that a write depends on.
- The flat writers and the mysql writer: the structure of the cassandra writer or
  a loop over the single-point cache, and their databases' I/O.
- Series encodings and stat representations: bit-level codecs of pure data, which
  the unit tests exercise by round trips and TLC could enumerate only at sizes
  smaller than theirs.
- The front end's sockets, splitters and pre-regex backends: parsing and I/O.
- Gossip, statistics, logging, configuration, pages and commands: libraries or code
  without state of its own.
