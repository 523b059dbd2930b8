---------------------------- MODULE KafkaInjector ---------------------------
(***************************************************************************)
(* The kafka injector in front of the cassandra series writer, for one     *)
(* partition of the data topic.  Consumed points wait in the single-point  *)
(* cache, one growing series per metric, until the series is too long or   *)
(* too old; it is then sent to the overflow writer, inserted, and reported *)
(* as written.  The report carries the offset of the newest point of the   *)
(* series; it goes to the commit topic and to a local database, and tells  *)
(* a restarted process where to resume.                                    *)
(*                                                                         *)
(* A point is its offset in the topic; a message is the name of its series *)
(* and the length of a series is the number of its points.                 *)
(***************************************************************************)
EXTENDS Integers, Sequences, FiniteSets, FiniteSetsExt

CONSTANTS
    Series,        \* the metrics
    Topics,        \* what the partition may hold: sequences of series
    FirstOffset,   \* the offset of the first message
    Modes,         \* the starting_offset settings an operator uses
    LocalMark,     \* whether offset_db_path is set
    MaxPoints,     \* maxBytes, counted in points
    MaxKeys,       \* maxKeys of the cache
    OverflowLen,   \* capacity of the overflow channel, the series in hand included
    MarkLen,       \* capacity of the local mark channel
    MaxRestarts,   \* bound: crashes and stops
    MaxFaults      \* bound: failed inserts, lost commit messages, expired messages

ASSUME KafkaAssumption ==
    /\ Topics \subseteq Seq(Series) /\ FirstOffset \in Nat
    /\ MaxPoints \in Nat /\ Modes \subseteq {"oldest", "reset", "time", "newest"} /\ LocalMark \in BOOLEAN

VARIABLES
    topic,         \* the data topic, past and future: the series of each message
    oldest,        \* its oldest offset the broker still has
    stored,        \* points in cassandra
    commits,       \* the commit topic
    local,         \* the local offset database; 0 is no mark
    run,           \* "down", "up", "closing", "purging"
    pos,           \* offset of the next message
    marks,         \* kafkaOffsetMap; 0 is no mark
    cache,         \* Cache of CacherSingle
    overflow,      \* series on their way to the overflow writer
    notify,        \* inserted series whose sender waits on writeNotify
    markChan,      \* writtenChan of the local marks
    orphans,       \* history: points a start passed over, their series unmarked
    dropped,       \* history: points refused, given up or expired by the broker
    restarts, faults

kafka == <<topic, oldest>>
disk == <<stored, commits, local>>
memory == <<run, pos, marks, cache, overflow, notify, markChan>>
history == <<orphans, dropped, restarts, faults>>
vars == <<topic, oldest, stored, commits, local, run, pos, marks, cache, overflow, notify, markChan,
          orphans, dropped, restarts, faults>>

Newest == FirstOffset + Len(topic)
Offsets == FirstOffset..(Newest - 1)
SeriesOf(o) == topic[o - FirstOffset + 1]
NoMarks == [s \in Series |-> 0]

\* A series in the cache, absent when it has no points, with the offset of
\* its newest point.
Item(s, pts, off) == [s |-> s, pts |-> pts, off |-> off]
Empty(s) == Item(s, {}, 0)
NoCache == [s \in Series |-> Empty(s)]
Keys == {s \in Series : cache[s].pts # {}}

Forget ==
    /\ run' = "down" /\ pos' = 0 /\ marks' = NoMarks /\ cache' = NoCache
    /\ overflow' = <<>> /\ notify' = {} /\ markChan' = <<>>

Init ==
    /\ topic \in Topics /\ oldest = FirstOffset /\ stored = {} /\ commits = <<>> /\ local = NoMarks
    /\ run = "down" /\ pos = 0 /\ marks = NoMarks /\ cache = NoCache
    /\ overflow = <<>> /\ notify = {} /\ markChan = <<>>
    /\ orphans = {} /\ dropped = {} /\ restarts = 0 /\ faults = 0

-----------------------------------------------------------------------------
(* The broker.                                                              *)

\* The broker deletes its oldest message.
Retention ==
    /\ oldest < Newest /\ faults < MaxFaults
    /\ oldest' = oldest + 1
    /\ faults' = faults + 1
    /\ UNCHANGED <<topic, disk, memory, orphans, dropped, restarts>>

-----------------------------------------------------------------------------
(* Start: startConsume.                                                     *)

\* The marks in the messages of the commit topic from index i on.  Whatever its
\* name says, AddIfBigger lets a newer mark replace the one before also when it
\* is smaller: the last one of a series stays.
AddIfBigger(I) == IF I = {} THEN 0 ELSE commits[Max(I)].off
getLatestOffsetsCommitted(i) ==
    [s \in Series |-> AddIfBigger({k \in i..Len(commits) : commits[k].s = s /\ commits[k].off > 0})]

Marked(map) == {s \in Series : map[s] > 0}

\* Mutant: consumption resumes at the mark of the series that is ahead.
PartitionMaxOffset(map) == IF Marked(map) = {} THEN -2 ELSE Max({map[s] : s \in Marked(map)})

PartitionMinOffset(map) == IF Marked(map) = {} THEN -2 ELSE Min({map[s] : s \in Marked(map)})

\* The setting decides where to begin without marks (at the newest message, the
\* first within restart_back_time, or the oldest) and whether to look for them.
\* Local marks count when the last was made within restart_back_time.  The commit
\* topic is read from an offset that is looked up in the data topic; with "time"
\* marks made before restart_back_time are left out besides, and a commit topic
\* with one message looks read before it is.
Start(mode, begin, fresh, i) ==
    LET useLocal == LocalMark /\ fresh /\ Marked(local) # {}
        map == CASE mode \in {"newest", "reset"} -> NoMarks
                 [] useLocal -> local
                 [] OTHER -> getLatestOffsetsCommitted(i)
        minOffset == PartitionMinOffset(map)
        wanted == IF minOffset > 0 THEN minOffset ELSE begin
        useOffset == IF oldest > wanted THEN oldest ELSE wanted
        Passed == FirstOffset..(useOffset - 1) \ stored
    IN  /\ run = "down"
        /\ mode \in {"oldest", "reset"} => begin = oldest
        /\ run' = "up"
        /\ marks' = map
        /\ pos' = useOffset
        /\ orphans' = orphans \cup {o \in Passed : map[SeriesOf(o)] = 0}
        /\ dropped' = dropped \cup {o \in Passed : o < oldest}
        /\ UNCHANGED <<kafka, disk, cache, overflow, notify, markChan, restarts, faults>>

-----------------------------------------------------------------------------
(* The consumer: onConsumePartition, AddWithOffset.                         *)

IsLower(s, o) == marks[s] > o

\* A series already written up to a later offset.
Skip ==
    /\ run = "up" /\ pos \in Offsets /\ pos >= oldest
    /\ IsLower(SeriesOf(pos), pos)
    /\ pos' = pos + 1
    /\ UNCHANGED <<kafka, disk, run, marks, cache, overflow, notify, markChan, history>>

\* The cache has too many metrics; the error is logged.
Refuse ==
    /\ run = "up" /\ pos \in Offsets /\ pos >= oldest
    /\ ~IsLower(SeriesOf(pos), pos)
    /\ Cardinality(Keys) > MaxKeys
    /\ pos' = pos + 1
    /\ dropped' = dropped \cup {pos}
    /\ UNCHANGED <<kafka, disk, run, marks, cache, overflow, notify, markChan, orphans, restarts, faults>>

\* A series that is too long is sent to the overflow writer, and the point
\* begins a new one.
AddWithOffset(s, o) ==
    IF Cardinality(cache[s].pts) > MaxPoints
    THEN /\ Len(overflow) < OverflowLen
         /\ overflow' = Append(overflow, cache[s])
         /\ cache' = [cache EXCEPT ![s] = Item(s, {o}, o)]
    ELSE /\ cache' = [cache EXCEPT ![s] = Item(s, @.pts \cup {o}, IF @.off < o THEN o ELSE @.off)]
         /\ UNCHANGED overflow

Consume ==
    /\ run = "up" /\ pos \in Offsets /\ pos >= oldest
    /\ ~IsLower(SeriesOf(pos), pos)
    /\ Cardinality(Keys) <= MaxKeys
    /\ AddWithOffset(SeriesOf(pos), pos)
    /\ pos' = pos + 1
    /\ UNCHANGED <<kafka, disk, run, marks, notify, markChan, history>>

\* ErrOffsetOutOfRange: the message is gone, start over at the oldest.
OutOfRange ==
    /\ run = "up" /\ pos < oldest
    /\ pos' = oldest
    /\ dropped' = dropped \cup {o \in pos..(oldest - 1) : o \notin stored}
    /\ UNCHANGED <<kafka, disk, run, marks, cache, overflow, notify, markChan, orphans, restarts, faults>>

\* Mutant: only series that are too long are looked at.
pushExpiredLong(s) ==
    /\ run = "up" /\ Cardinality(cache[s].pts) > MaxPoints + 1 /\ Len(overflow) < OverflowLen
    /\ overflow' = Append(overflow, cache[s])
    /\ cache' = [cache EXCEPT ![s] = Empty(s)]
    /\ UNCHANGED <<kafka, disk, run, pos, marks, notify, markChan, history>>

\* pushExpired, for one series that has been in the cache too long.
pushExpired(s) ==
    /\ run = "up" /\ s \in Keys /\ Len(overflow) < OverflowLen
    /\ overflow' = Append(overflow, cache[s])
    /\ cache' = [cache EXCEPT ![s] = Empty(s)]
    /\ UNCHANGED <<kafka, disk, run, pos, marks, notify, markChan, history>>

-----------------------------------------------------------------------------
(* The overflow writer and the marker: overFlowWrite, InsertSeries,         *)
(* onMessageWritten, processMarkWrote.                                      *)

WriterIdle == \A n \in notify : n.from # "overflow"

\* The series is inserted, and the writer waits on writeNotify.
InsertSeries ==
    /\ run # "down" /\ overflow # <<>> /\ WriterIdle
    /\ stored' = stored \cup Head(overflow).pts
    /\ notify' = notify \cup {[from |-> "overflow", s |-> Head(overflow).s, off |-> Head(overflow).off]}
    /\ overflow' = Tail(overflow)
    /\ UNCHANGED <<kafka, commits, local, run, pos, marks, cache, markChan, history>>

\* The retries are used up; doInsert logs the error.
InsertGivesUp ==
    /\ run # "down" /\ overflow # <<>> /\ WriterIdle /\ faults < MaxFaults
    /\ overflow' = Tail(overflow)
    /\ dropped' = dropped \cup Head(overflow).pts
    /\ faults' = faults + 1
    /\ UNCHANGED <<kafka, disk, run, pos, marks, cache, notify, markChan, orphans, restarts>>

\* A report without an offset gets the mark read at the start.  The commit
\* topic is written by an asynchronous producer whose errors nobody looks at.
onMessageWritten(n) ==
    LET mark == [s |-> n.s, off |-> IF n.off = 0 THEN marks[n.s] ELSE n.off]
    IN  /\ n \in notify
        /\ notify' = notify \ {n}
        /\ \/ commits' = Append(commits, mark) /\ UNCHANGED faults
           \/ faults < MaxFaults /\ faults' = faults + 1 /\ UNCHANGED commits
        /\ IF LocalMark
           THEN Len(markChan) < MarkLen /\ markChan' = Append(markChan, mark)
           ELSE UNCHANGED markChan
        /\ UNCHANGED <<kafka, stored, local, run, pos, marks, cache, overflow, orphans, dropped, restarts>>

processMarkWrote ==
    /\ markChan # <<>>
    /\ local' = [local EXCEPT ![Head(markChan).s] = Head(markChan).off]
    /\ markChan' = Tail(markChan)
    /\ UNCHANGED <<kafka, stored, commits, run, pos, marks, cache, overflow, notify, history>>

-----------------------------------------------------------------------------
(* Stop, and crashes.                                                       *)

\* shutitdown is set, and the cache and its overflow channel are closed.
Stop ==
    /\ run = "up" /\ restarts < MaxRestarts
    /\ run' = "closing"
    /\ restarts' = restarts + 1
    /\ UNCHANGED <<kafka, disk, pos, marks, cache, overflow, notify, markChan, orphans, dropped, faults>>

\* A call of AddWithOffset that had passed the test of shutitdown: a series
\* that is too long is taken out of the cache and sent nowhere.
LateAdd ==
    /\ run = "closing" /\ pos \in Offsets /\ pos >= oldest
    /\ ~IsLower(SeriesOf(pos), pos) /\ Cardinality(Keys) <= MaxKeys
    /\ LET s == SeriesOf(pos)
           kept == IF Cardinality(cache[s].pts) > MaxPoints THEN {} ELSE cache[s].pts
       IN  cache' = [cache EXCEPT ![s] = Item(s, kept \cup {pos}, pos)]
    /\ run' = "purging"
    /\ UNCHANGED <<kafka, disk, pos, marks, overflow, notify, markChan, history>>

BeginPurge ==
    /\ run = "closing"
    /\ run' = "purging"
    /\ UNCHANGED <<kafka, disk, pos, marks, cache, overflow, notify, markChan, history>>

\* Mutant: the shutdown purge reports the offset of the series.
PurgeWithOffset(s) ==
    /\ run = "purging" /\ s \in Keys
    /\ stored' = stored \cup cache[s].pts
    /\ notify' = notify \cup {[from |-> "purge", s |-> s, off |-> cache[s].off]}
    /\ cache' = [cache EXCEPT ![s] = Empty(s)]
    /\ UNCHANGED <<kafka, commits, local, run, pos, marks, overflow, markChan, history>>

\* The shutdown purge writes what the cache holds, without its offset.
Purge(s) ==
    /\ run = "purging" /\ s \in Keys
    /\ stored' = stored \cup cache[s].pts
    /\ notify' = notify \cup {[from |-> "purge", s |-> s, off |-> 0]}
    /\ cache' = [cache EXCEPT ![s] = Empty(s)]
    /\ UNCHANGED <<kafka, commits, local, run, pos, marks, overflow, markChan, history>>

PurgeGivesUp(s) ==
    /\ run = "purging" /\ s \in Keys /\ faults < MaxFaults
    /\ cache' = [cache EXCEPT ![s] = Empty(s)]
    /\ faults' = faults + 1
    /\ UNCHANGED <<kafka, disk, run, pos, marks, overflow, notify, markChan, orphans, dropped, restarts>>

\* The purge is over.  What is left in the channels is lost with the process.
Exit ==
    /\ run = "purging" /\ Keys = {} /\ \A n \in notify : n.from # "purge"
    /\ Forget
    /\ UNCHANGED <<kafka, disk, history>>

Crash ==
    /\ run # "down" /\ restarts < MaxRestarts
    /\ Forget
    /\ restarts' = restarts + 1
    /\ UNCHANGED <<kafka, disk, orphans, dropped, faults>>

\* The expiry tick fires once more after Stop has closed the overflow channel:
\* the send panics.
ExpirePanics ==
    /\ run \in {"closing", "purging"} /\ Keys # {}
    /\ Forget
    /\ UNCHANGED <<kafka, disk, history>>

-----------------------------------------------------------------------------
Starts == \E mode \in Modes, begin \in oldest..Newest, fresh \in BOOLEAN, i \in 1..(Len(commits) + 1) :
              Start(mode, begin, fresh, i)
Consumes == Skip \/ Refuse \/ Consume \/ OutOfRange
Writes == InsertSeries \/ InsertGivesUp
Stops == LateAdd \/ BeginPurge \/ (\E s \in Series : Purge(s) \/ PurgeGivesUp(s)) \/ Exit
Next ==
    \/ Retention
    \/ Starts \/ Consumes \/ Writes \/ processMarkWrote \/ Stop \/ Stops
    \/ \E s \in Series : pushExpired(s)
    \/ \E n \in notify : onMessageWritten(n)
    \/ Crash \/ ExpirePanics

Spec == Init /\ [][Next]_vars

\* The goroutines run, the expiry tick reaches every series, and somebody
\* starts the process again.
LiveSpec ==
    /\ Spec
    /\ WF_vars(Starts) /\ WF_vars(Consumes) /\ WF_vars(Writes) /\ WF_vars(processMarkWrote)
    /\ WF_vars(Stops) /\ WF_vars(\E n \in notify : onMessageWritten(n))
    /\ \A s \in Series : WF_vars(pushExpired(s))

-----------------------------------------------------------------------------
PointsOf(items) == UNION {items[i].pts : i \in 1..Len(items)}
InMemory == (UNION {cache[s].pts : s \in Series}) \cup PointsOf(overflow)
Lost == orphans \cup dropped

\* Every point of the mark's series up to its offset was stored, or is known to
\* be lost.
MarkIsSafe(m) ==
    m.off > 0 => \A o \in Offsets : o <= m.off /\ SeriesOf(o) = m.s => o \in stored \cup Lost

\* A mark never promises more than cassandra has, on the commit topic, on its
\* way to the local database or in it: commit messages may be lost and series
\* reach cassandra by two ways, but no mark overtakes a point.
MarksAreSafe ==
    /\ \A i \in 1..Len(commits) : MarkIsSafe(commits[i])
    /\ \A i \in 1..Len(markChan) : MarkIsSafe(markChan[i])
    /\ \A s \in Series : MarkIsSafe([s |-> s, off |-> local[s]])

\* A point the running process is past is stored or in its memory, or it was
\* lost in one of the ways history records: with several series at different
\* marks, crashes and lost commit messages, none is skipped unnoticed.
NothingForgotten ==
    run = "up" => \A o \in Offsets : o < pos => o \in stored \cup InMemory \cup Lost

\* Every message gets stored, through stops, crashes and restarts, unless it
\* was lost in one of those ways.
EveryPointIsStored == <>(\A o \in Offsets : o \in stored \cup Lost)

\* What the package comment promises: after a restart the injector backfills
\* every series that was in memory.
SeriesInMemoryAreBackfilled == orphans = {}

-----------------------------------------------------------------------------
(* Why the marks are safe.                                                  *)

Mark == [s : Series, off : Nat]
Items == [s : Series, pts : SUBSET Int, off : Nat]

TypeOK ==
    /\ topic \in Seq(Series) /\ oldest \in Nat
    /\ commits \in Seq(Mark) /\ local \in [Series -> Nat]
    /\ run \in {"down", "up", "closing", "purging"}
    /\ pos \in Nat /\ marks \in [Series -> Nat]
    /\ cache \in [Series -> Items]
    /\ \A s \in Series : cache[s].s = s /\ (cache[s].pts = {} => cache[s].off = 0)
    /\ overflow \in Seq(Items) /\ markChan \in Seq(Mark)
    /\ notify \subseteq [from : {"overflow", "purge"}, s : Series, off : Nat]

\* A mark in anyone's hands is safe.
KnownMarksAreSafe ==
    /\ MarksAreSafe
    /\ \A n \in notify : MarkIsSafe(n)
    /\ \A s \in Series : MarkIsSafe([s |-> s, off |-> marks[s]])

\* A series in the overflow channel is preceded there by all earlier points of
\* its metric that are not stored.
OverflowInOrder ==
    \A k \in 1..Len(overflow) : \A o \in Offsets :
        o <= overflow[k].off /\ SeriesOf(o) = overflow[k].s =>
            o \in stored \cup Lost \/ \E j \in 1..k : o \in overflow[j].pts

\* A point that is neither stored nor in the channel is in its own series.
CacheIsBehind ==
    run = "up" =>
        /\ \A o \in Offsets : o < pos =>
             \/ o \in stored \cup Lost \cup cache[SeriesOf(o)].pts
             \/ \E j \in 1..Len(overflow) : o \in overflow[j].pts
        /\ \A s \in Keys : cache[s].off < pos

DownIsEmpty == run = "down" => cache = NoCache /\ overflow = <<>> /\ notify = {} /\ markChan = <<>>

KafkaInv == TypeOK /\ KnownMarksAreSafe /\ OverflowInOrder /\ CacheIsBehind /\ DownIsEmpty
=============================================================================
