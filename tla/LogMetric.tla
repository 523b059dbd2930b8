----------------------------- MODULE LogMetric -----------------------------
(***************************************************************************)
(* The "log" metric writers (cassandra_log.go, leveldb_log.go) on top of   *)
(* the chunked cache: the write entry point, the log writer, the series    *)
(* writer that purges a log sequence once its chunk is written, crashes,   *)
(* and the start-up that replays the log into the cache.                   *)
(*                                                                         *)
(* What survives a crash is the log table and the series tables; the cache *)
(* and everything the goroutines hold is lost.                             *)
(***************************************************************************)
EXTENDS CacherChunk, FiniteSets

CONSTANTS
    Backend,     \* which of the two writers: "cassandra" or "leveldb"
    ShouldWrite, \* FALSE: a cache-only replica that never writes series
    LogPart,     \* metrics per cassandra log row (20001 in doWriteLog)
    FaultKinds,  \* which database calls may fail for good
    MaxFaults,   \* bound: database calls that fail for good
    MaxCrashes   \* bound: times the process goes away

ASSUME WriterAssumption == Backend \in {"cassandra", "leveldb"} /\ ShouldWrite \in BOOLEAN
ASSUME LogPartAssumption == LogPart \in Nat \ {0}
ASSUME FaultAssumption == FaultKinds \subseteq {"log", "insert", "purge", "read"}
ASSUME BoundsAssumption == MaxFaults \in Nat /\ MaxCrashes \in Nat

VARIABLES
    status,      \* "down", "replay" (getSequences), "up"
    shutitdown,  \* set by Stop before the cache is stopped
    entering,    \* points past WriteWithOffset's checks, not yet added
    logWriter,   \* the CacheChunkLog doWriteLog is inserting
    slicer,      \* the CacheChunkSlice writeSlice is inserting
    waitG,       \* its WaitGroup: "alone" or "shared" (its workers share err),
                 \* "shaken" (one of them failed), "hung" (a Done is missing)
    strays,      \* series still being inserted though their sequence was purged
    table,       \* the log table: a set of rows
    db,          \* the series tables: points written
    todo,        \* getSequences: log rows still to replay
    faults, crashes,
    \* history, read by the properties only
    acked,       \* points Write accepted, in any incarnation
    logged,      \* accepted points with a log row inserted since the last crash
    abandoned,   \* points whose series insert, or whose read-back, was given up
    replayed,    \* points read back from the log since the last crash
    crashLost    \* accepted points that were nowhere on disk at a crash

disk == <<table, db>>
history == <<acked, logged, abandoned, replayed, crashLost>>
counters == <<faults, crashes>>
vars == <<curSeq, curChunk, curSlice, chunks, backfill, dumpPc, dumpRow, logChan,
          cyclePc, cycleMsg, sliceChan, closed, idle, status, shutitdown, entering,
          logWriter, slicer, waitG, strays, table, db, todo, faults, crashes, acked,
          logged, abandoned, replayed, crashLost>>

-----------------------------------------------------------------------------
Pts(rows) == UNION {r.pts : r \in rows}
RowsOf(s) == {r \in table : r.seq = s}
Without(m, S) == [seq |-> m.seq, pts |-> m.pts \ S]
Sequences == {r.seq : r \in table}

Init ==
    /\ CacherInit /\ idle = 0
    /\ status = "down" /\ shutitdown = FALSE /\ entering = {}
    /\ logWriter = NoMsg /\ slicer = NoMsg /\ todo = {}
    /\ waitG = "alone" /\ strays = {}
    /\ table = {} /\ db = {}
    /\ faults = 0 /\ crashes = 0
    /\ acked = {} /\ logged = {} /\ abandoned = {} /\ replayed = {} /\ crashLost = {}

Fault(kind) == kind \in FaultKinds /\ faults < MaxFaults /\ faults' = faults + 1

-----------------------------------------------------------------------------
(* Write.  The point passes the okToWrite and shutitdown checks, and is     *)
(* added to the cache by a later step of the same goroutine.                *)

WriteEnter(p) ==
    /\ status = "up" /\ ~shutitdown
    /\ p \notin acked /\ p \notin entering
    /\ entering' = entering \cup {p}
    /\ UNCHANGED <<status, shutitdown, logWriter, slicer, waitG, strays, todo>>
    /\ UNCHANGED cacherVars /\ UNCHANGED disk /\ UNCHANGED counters /\ UNCHANGED history

WriteAdd(p) ==
    /\ p \in entering
    /\ entering' = entering \ {p}
    /\ AddWithOffset(p)
    /\ acked' = IF p \in ZeroTime THEN acked ELSE acked \cup {p}
    /\ UNCHANGED <<status, shutitdown, logWriter, slicer, waitG, strays, todo,
                   logged, abandoned, replayed, crashLost>>
    /\ UNCHANGED disk /\ UNCHANGED counters

-----------------------------------------------------------------------------
(* writeLog / doWriteLog: cassandra_log inserts LogPart metrics per row and *)
(* no row for an empty slice, leveldb_log always one row.  A row whose      *)
(* insert fails for good is dropped without a trace.                        *)

TakeLog ==
    /\ logWriter = NoMsg /\ logChan # NoMsg
    /\ logWriter' = IF Backend = "cassandra" /\ logChan.pts = {} THEN NoMsg ELSE logChan
    /\ logChan' = NoMsg
    /\ UNCHANGED <<curSeq, curChunk, curSlice, chunks, backfill, dumpPc, dumpRow,
                   cyclePc, cycleMsg, sliceChan, closed, idle, status, shutitdown,
                   entering, slicer, waitG, strays, todo>>
    /\ UNCHANGED disk /\ UNCHANGED counters /\ UNCHANGED history

Parts(pts) ==
    IF Backend = "leveldb" \/ Cardinality(pts) <= LogPart
      THEN {pts}
      ELSE {S \in SUBSET pts : Cardinality(S) = LogPart}

LogRest(S) == IF S = logWriter.pts THEN NoMsg ELSE Without(logWriter, S)

WriteLogRow(S) ==
    /\ logWriter # NoMsg
    /\ table' = table \cup {[seq |-> logWriter.seq, pts |-> S]}
    /\ logWriter' = LogRest(S)
    /\ logged' = logged \cup (S \cap acked)
    /\ UNCHANGED <<status, shutitdown, entering, slicer, waitG, strays, db, todo,
                   acked, abandoned, replayed, crashLost>>
    /\ UNCHANGED cacherVars /\ UNCHANGED counters

DropLogRow(S) ==
    /\ logWriter # NoMsg
    /\ Fault("log")
    /\ logWriter' = LogRest(S)
    /\ UNCHANGED <<status, shutitdown, entering, slicer, waitG, strays, todo,
                   crashes>>
    /\ UNCHANGED cacherVars /\ UNCHANGED disk /\ UNCHANGED history

-----------------------------------------------------------------------------
(* writeSlice: insert every series of the chunk, wait for all of them, and  *)
(* delete the chunk's sequence from the log.  A series whose insert runs    *)
(* out of retries counts as done.  The workers of cassandra_log share one   *)
(* err: once an insert has failed, a worker may read the failure, or the    *)
(* success, of another.  What that does to the WaitGroup is SliceInsert's   *)
(* subject; here are its outcomes.                                          *)

TakeSlice ==
    /\ slicer = NoMsg /\ sliceChan # NoMsg
    /\ slicer' = IF ShouldWrite THEN sliceChan ELSE NewCacheChunkItem(sliceChan.seq)
    /\ waitG' = IF Backend = "cassandra" /\ Cardinality(slicer'.pts) > 1 THEN "shared"
                                                                        ELSE "alone"
    /\ sliceChan' = NoMsg
    /\ UNCHANGED <<curSeq, curChunk, curSlice, chunks, backfill, dumpPc, dumpRow,
                   logChan, cyclePc, cycleMsg, closed, idle, status, shutitdown,
                   entering, logWriter, strays, todo>>
    /\ UNCHANGED disk /\ UNCHANGED counters /\ UNCHANGED history

\* The workers are through with a series, of this chunk or of one whose purge
\* came too early.
Settle(p) ==
    \/ p \in slicer.pts /\ slicer' = Without(slicer, {p}) /\ UNCHANGED strays
    \/ p \in strays /\ strays' = strays \ {p} /\ UNCHANGED slicer

InsertSeries(p) ==
    /\ Settle(p)
    /\ db' = db \cup {p}
    /\ UNCHANGED <<status, shutitdown, entering, logWriter, waitG, table, todo>>
    /\ UNCHANGED cacherVars /\ UNCHANGED counters /\ UNCHANGED history

\* No more retries, or the worker took another's success for its own.
InsertGivesUp(p) ==
    /\ Settle(p)
    /\ Fault("insert")
    /\ abandoned' = abandoned \cup {p}
    /\ waitG' = IF waitG = "shared" THEN "shaken" ELSE waitG
    /\ UNCHANGED <<status, shutitdown, entering, logWriter, todo, crashes, acked,
                   logged, replayed, crashLost>>
    /\ UNCHANGED cacherVars /\ UNCHANGED disk

\* The series is tried again, but other workers may have read the error.
InsertRetried ==
    /\ slicer.pts # {} /\ waitG = "shared"
    /\ Fault("insert")
    /\ waitG' = "shaken"
    /\ UNCHANGED <<status, shutitdown, entering, logWriter, slicer, strays, todo,
                   crashes>>
    /\ UNCHANGED cacherVars /\ UNCHANGED disk /\ UNCHANGED history

\* A series that failed was taken for a success and never marked done.
WaitHangs ==
    /\ waitG = "shaken"
    /\ waitG' = "hung"
    /\ UNCHANGED <<status, shutitdown, entering, logWriter, slicer, strays, todo>>
    /\ UNCHANGED cacherVars /\ UNCHANGED disk /\ UNCHANGED counters /\ UNCHANGED history

\* Mutant: the purge does not wait for the inserts.
PurgeSequenceEarly ==
    /\ slicer # NoMsg
    /\ table' = table \ RowsOf(slicer.seq)
    /\ UNCHANGED <<status, shutitdown, entering, logWriter, slicer, waitG, strays,
                   db, todo>>
    /\ UNCHANGED cacherVars /\ UNCHANGED counters /\ UNCHANGED history

\* One DELETE for cassandra_log, a Delete per key for leveldb_log.
Deletable(s) == IF Backend = "leveldb" THEN SUBSET RowsOf(s) ELSE {{}, RowsOf(s)}

\* Wait returns when every series is marked done, or early when one of them was
\* marked twice.  (A Done more than that panics, which is a Crash.)
PurgeSequence ==
    /\ slicer # NoMsg
    /\ (slicer.pts = {} /\ waitG # "hung") \/ waitG = "shaken"
    /\ slicer' = NoMsg /\ waitG' = "alone"
    /\ strays' = strays \cup slicer.pts
    /\ \E gone \in Deletable(slicer.seq) :
         /\ table' = table \ gone
         /\ IF gone = RowsOf(slicer.seq) THEN UNCHANGED faults ELSE Fault("purge")
    /\ UNCHANGED <<status, shutitdown, entering, logWriter, db, todo, crashes>>
    /\ UNCHANGED cacherVars /\ UNCHANGED history

-----------------------------------------------------------------------------
(* Start.  getSequences lists the sequences of the log, makes the highest   *)
(* one current, reads the rows of each in order and removes every other     *)
(* sequence from the log; then writes are let in.  cassandra_log starts the *)
(* cache's goroutines last, leveldb_log before it reads the log.            *)

\* Mutant: the goroutines are started before the replay whatever the backend.
CacheStartedFirst == Backend \in {"cassandra", "leveldb"}

CacheStarted == Backend = "leveldb" \/ status = "up"

\* The list of sequences may come back incomplete, or not at all when no
\* session can be had: the iterator's error is dropped, and the rows that were
\* not listed are never read.
GetSequences ==
    /\ status = "down"
    /\ \E listed \in SUBSET Sequences :
         /\ IF listed = Sequences THEN UNCHANGED faults ELSE Fault("read")
         /\ todo' = {r \in table : r.seq \in listed}
         /\ abandoned' = abandoned \cup Pts({r \in table : r.seq \notin listed})
         /\ IF listed = {}
              THEN status' = "up" /\ UNCHANGED <<curSeq, curChunk>>
              ELSE /\ status' = "replay"
                   /\ \E last \in listed :
                        /\ \A t \in listed : t <= last
                        /\ curSeq' = last
                        /\ curChunk' = NewCacheChunkItem(last)
    /\ UNCHANGED <<curSlice, chunks, backfill, dumpPc, dumpRow, logChan, cyclePc,
                   cycleMsg, sliceChan, closed, idle, shutitdown, entering,
                   logWriter, slicer, waitG, strays, crashes, acked, logged,
                   replayed, crashLost>>
    /\ UNCHANGED disk

\* Rows are read in the order of their sequences, so the newest sequence is
\* the one that is left when all other rows have been read.
Newest(r) == \A t \in todo : t.seq = r.seq
LastOfSequence(r) == \A t \in todo \ {r} : t.seq # r.seq

\* leveldb_log looks up the older sequences under the time stamps of the
\* newest one (seqMap[seq]), so it finds none of their rows; and it may find
\* a row gone that writeSlice has purged in the meantime.
Found(r) == r \in table /\ (Backend = "cassandra" \/ Newest(r))

\* The points of a row go to BackFill's channel; a row that cannot be read or
\* decoded is skipped.
ReadRow(r, ok) ==
    /\ backfill' = IF ok /\ Found(r) THEN backfill \cup r.pts ELSE backfill
    /\ replayed' = IF ok /\ Found(r) THEN replayed \cup r.pts ELSE replayed
    /\ abandoned' = IF ~ok /\ Found(r) THEN abandoned \cup r.pts ELSE abandoned

\* An older sequence is deleted once the last of its points is in the channel,
\* whether or not all of its rows could be read; a failed delete is ignored.
DropSequence(r) == IF LastOfSequence(r) /\ ~Newest(r) THEN table \ RowsOf(r.seq) ELSE table

BackFillRow(r) ==
    /\ status = "replay" /\ r \in todo
    /\ \A t \in todo : r.seq <= t.seq
    /\ todo' = todo \ {r}
    /\ \/ ReadRow(r, TRUE) /\ table' = DropSequence(r) /\ UNCHANGED faults
       \/ ReadRow(r, FALSE) /\ table' = DropSequence(r) /\ Fault("read")
       \/ ReadRow(r, TRUE) /\ table' = table /\ DropSequence(r) # table /\ Fault("purge")
    /\ UNCHANGED <<curSeq, curChunk, curSlice, chunks, dumpPc, dumpRow, logChan,
                   cyclePc, cycleMsg, sliceChan, closed, idle, status, shutitdown,
                   entering, logWriter, slicer, waitG, strays, db, crashes, acked,
                   logged, crashLost>>

OkToWrite ==
    /\ status = "replay" /\ todo = {}
    /\ status' = "up"
    /\ UNCHANGED <<shutitdown, entering, logWriter, slicer, waitG, strays, todo>>
    /\ UNCHANGED cacherVars /\ UNCHANGED disk /\ UNCHANGED counters /\ UNCHANGED history

-----------------------------------------------------------------------------
(* The process goes away: RAM is gone, the next Start begins from nothing.  *)

ProcessGone ==
    /\ CacherReset
    /\ status' = "down" /\ shutitdown' = FALSE /\ entering' = {}
    /\ logWriter' = NoMsg /\ slicer' = NoMsg /\ todo' = {}
    /\ waitG' = "alone" /\ strays' = {}
    /\ crashes' = crashes + 1
    /\ crashLost' = crashLost \cup (acked \ (db \cup Pts(table)))
    /\ logged' = {} /\ replayed' = {}
    /\ UNCHANGED <<faults, acked, abandoned>>
    /\ UNCHANGED disk

Crash == status # "down" /\ crashes < MaxCrashes /\ ProcessGone

\* Stop refuses further writes, then stops the cache, whose runLogDump sends
\* the slice a last time; a second later the process may exit.
Stop ==
    /\ status # "down" /\ ~shutitdown /\ crashes < MaxCrashes
    /\ shutitdown' = TRUE
    /\ CacherStop
    /\ UNCHANGED <<status, entering, logWriter, slicer, waitG, strays, todo>>
    /\ UNCHANGED disk /\ UNCHANGED counters /\ UNCHANGED history

\* The exit after Stop when the second was enough for the final log write;
\* when it was not, the exit is a Crash.
Exit ==
    /\ shutitdown /\ dumpPc = "done" /\ logChan = NoMsg /\ logWriter = NoMsg
    /\ ProcessGone

-----------------------------------------------------------------------------
CacheUnchanged ==
    /\ UNCHANGED <<status, shutitdown, entering, logWriter, slicer, waitG, strays,
                   todo>>
    /\ UNCHANGED disk /\ UNCHANGED counters /\ UNCHANGED history

DumpStep == CacheStarted /\ Dump /\ CacheUnchanged
CycleStep == CacheStarted /\ Cycle /\ CacheUnchanged
BackFillStep == (\E p \in Points : AddStatToChunk(p)) /\ CacheUnchanged
LogRowStep == \E S \in Parts(logWriter.pts) : WriteLogRow(S) \/ DropLogRow(S)
ReplayStep == \E r \in todo : BackFillRow(r)
InsertStep == \E p \in Points : InsertSeries(p) \/ InsertGivesUp(p)

Next ==
    \/ \E p \in Points : WriteEnter(p) \/ WriteAdd(p)
    \/ DumpStep \/ CycleStep \/ BackFillStep
    \/ TakeLog \/ LogRowStep
    \/ TakeSlice \/ InsertStep \/ InsertRetried \/ WaitHangs \/ PurgeSequence
    \/ GetSequences \/ ReplayStep \/ OkToWrite
    \/ Stop \/ Crash \/ Exit

Spec == Init /\ [][Next]_vars

\* Every goroutine that can take a step eventually does, and the select of
\* runLogDump and cycleChunks does not ignore the shutdown channel for ever.
\* Nothing obliges a client to write, or the process to stop or crash.
Fairness ==
    /\ WF_vars(\E p \in Points : WriteAdd(p))
    /\ WF_vars(DumpStep) /\ WF_vars(BackFillStep)
    /\ SF_vars(CacheStarted /\ LogClone(TRUE) /\ CacheUnchanged)
    /\ WF_vars(CycleStep)
    /\ WF_vars(TakeLog) /\ WF_vars(LogRowStep)
    /\ WF_vars(TakeSlice) /\ WF_vars(InsertStep) /\ WF_vars(PurgeSequence)
    /\ WF_vars(GetSequences) /\ WF_vars(ReplayStep) /\ WF_vars(OkToWrite)
    /\ WF_vars(Exit)

LiveSpec == Spec /\ Fairness

-----------------------------------------------------------------------------
(* Properties.                                                              *)

WaitStates == {"alone", "shared", "shaken", "hung"}

TypeOK ==
    /\ CacherTypeOK
    /\ status \in {"down", "replay", "up"}
    /\ shutitdown \in BOOLEAN
    /\ entering \subseteq Points
    /\ logWriter \in OptMsg /\ slicer \in OptMsg
    /\ waitG \in WaitStates /\ strays \subseteq Points
    /\ table \subseteq Msg /\ db \subseteq Points
    /\ todo \subseteq Msg
    /\ faults \in Nat /\ crashes \in Nat
    /\ acked \subseteq Points /\ logged \subseteq Points
    /\ abandoned \subseteq Points /\ replayed \subseteq Points
    /\ crashLost \subseteq Points

\* Chunks on their way to the series tables, and logs on their way to the
\* log table or in it.
PendingChunks == {curChunk, cycleMsg, sliceChan, slicer}
PendingRows == {dumpRow, logChan, logWriter}
Unwritten == backfill \cup Pts(PendingChunks) \cup strays

\* No accepted point disappears between the cache, the rotation, the series
\* writer, the replay and the purges: it is on its way to the series tables,
\* in them, or still in the log, unless its series insert was given up or it
\* had not reached the disk when the process died.
ChainOfCustody ==
    acked \subseteq Unwritten \cup db \cup Pts(table) \cup abandoned \cup crashLost

\* The same as a promise to the client: the writer implements PointCustody.  A
\* point that is nowhere left is excused by an insert or a read-back that was
\* given up, or by the end of a process that had it only in RAM.
Kept == Unwritten \cup curSlice \cup Pts(PendingRows) \cup Pts(table)

Life(p) ==
    CASE p \notin acked -> "offered"
      [] p \in acked /\ p \in db -> "stored"
      [] p \in acked /\ p \in Kept \ db -> "held"
      [] OTHER -> "gone"

Custody == INSTANCE PointCustody WITH
    life <- [p \in Points |-> Life(p)],
    excused <- abandoned \cup crashLost,
    mishaps <- faults + crashes

KeepsCustody == Custody!Spec

\* A log row is never filed under a sequence older than the chunk of one of
\* its points, although runLogDump reads the sequence number after it has
\* released the lock it cloned the slice under, and rotations happen in
\* between; otherwise purging that sequence would drop the log of a chunk
\* that is still in RAM.  (Replayed points are filed under the sequence they
\* were logged with.)
LogNotOlderThanChunk ==
    \A r \in PendingRows \cup table : \A c \in PendingChunks :
        r.seq >= 0 => \A p \in (r.pts \cap c.pts) \ replayed : c.seq <= r.seq

\* A point whose log row has been written stays in the log until it is in
\* the series tables, its insert was given up, or an insert of the same chunk
\* failed and the purge overtook its own: writeSlice purges only sequences whose
\* points it has dealt with.
LoggedUntilWritten ==
    logged \subseteq Pts(table) \cup db \cup abandoned \cup replayed \cup strays

\* No row is deleted between being listed by getSequences and being read back:
\* nothing rotates and purges the newest sequence while it is being replayed,
\* and an older sequence is deleted only after its last row.
ReplaySeesEveryRow == todo \subseteq table

\* Every accepted point is eventually in the series tables, unless its insert
\* or its read-back was given up or it was only in RAM when the process died,
\* or unless writeSlice hangs for ever in waitG.Wait after a failed insert
\* (SliceInsert's WaitEnds): no goroutine of the writer waits for ever on
\* another for any other reason, and a restart picks up where the log ends.
EventuallyWritten ==
    \/ <>[](waitG = "hung")
    \/ \A p \in Points : p \in acked ~> p \in db \cup abandoned \cup crashLost

-----------------------------------------------------------------------------
(* Why they hold: the inductive invariant behind the safety properties.     *)

\* The chunks in flight carry increasing sequence numbers, the one being
\* inserted the lowest.
NumbersInOrder ==
    /\ curChunk # NoMsg => curChunk.seq = curSeq
    /\ cyclePc # "send" => cycleMsg = NoMsg
    /\ slicer.seq < curSeq /\ sliceChan.seq < curSeq /\ cycleMsg.seq < curSeq
    /\ cycleMsg # NoMsg => sliceChan.seq < cycleMsg.seq /\ slicer.seq < cycleMsg.seq
    /\ sliceChan # NoMsg => slicer.seq < sliceChan.seq

\* Until start-up has replayed the log nothing is accepted or logged but
\* empty slices, and until it has listed the log nothing is in the chunk.
QuietUntilUp ==
    /\ status = "up" => todo = {}
    /\ status # "up" =>
         /\ Pts(PendingRows) = {} /\ entering = {} /\ curSlice = {} /\ logged = {}
    /\ status = "down" =>
         /\ cycleMsg = NoMsg /\ sliceChan = NoMsg /\ slicer = NoMsg /\ strays = {}
         /\ curChunk.pts = {} /\ backfill = {} /\ replayed = {}

\* Only accepted points, or points the chunk refuses, are ever logged.
OnlyKnownPoints ==
    /\ entering \cap acked = {} /\ acked \cap ZeroTime = {} /\ logged \subseteq acked
    /\ (curSlice \cup Pts(PendingRows \cup table)) \ ZeroTime \subseteq acked
    /\ backfill \subseteq replayed

OrderInv == NumbersInOrder /\ QuietUntilUp /\ OnlyKnownPoints /\ LogNotOlderThanChunk

\* A point accepted since the process started is in flight until it is
\* written or given up.
Held == Unwritten \cup db \cup abandoned
Fresh == curSlice \cup Pts(PendingRows) \cup logged
FreshPointsHeld == Fresh \ ZeroTime \subseteq Held

\* ChainOfCustody needs the log only for the rows start-up has yet to read.
Unread == IF status = "down" THEN table ELSE todo
CustodyInv == acked \subseteq Held \cup Pts(Unread) \cup crashLost

\* cassandra_log rotates nothing while it replays.
ReplayInv ==
    /\ ReplaySeesEveryRow
    /\ status # "up" => cycleMsg = NoMsg /\ sliceChan = NoMsg /\ slicer = NoMsg

-----------------------------------------------------------------------------
(* What the documentation and the comments say, where the code differs.     *)

\* AddWithOffset's comment: both locks are taken "to avoid data added to one
\* but not the other", so a point on its way to the series tables should be
\* in the current slice, on its way to the log, or in the log.
ChunkedPointIsLogged ==
    Pts(PendingChunks) \ replayed \subseteq curSlice \cup Pts(PendingRows \cup table)

\* writeSlice's comment: "we really did write all the series before nuking
\* the log".
PurgedOnlyIfWritten ==
    logged \subseteq Pts(table) \cup db \cup replayed

\* docs/writers.md: the log of a sequence is removed after its chunk is
\* written, so a replayed point should be in the log or in the series tables.
ReplayedStayOnDisk ==
    replayed \subseteq Pts(table) \cup db

\* docs/writers.md: start-up slurps "all the items in the logs table": a row
\* that start-up deletes should have been read back.
SlurpsAllLogs ==
    [][ReplayStep => Pts(table \ table') \subseteq replayed']_vars

\* docs/writers.md: no cache write is allowed while the old logs are ingested.
NoWriteDuringReplay ==
    [][(\E p \in Points : WriteAdd(p)) => backfill = {}]_vars

\* Stop's comment: stopping the cache "forces the current log flush", so a
\* stop that had the time to finish should lose no accepted point.
CleanExitKeepsAll ==
    [][Exit => crashLost' = crashLost]_vars
=============================================================================
