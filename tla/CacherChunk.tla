---------------------------- MODULE CacherChunk ----------------------------
(***************************************************************************)
(* The chunked write-back cache behind the "log" metric writers            *)
(* (writers/metrics/cache_chunk.go).                                       *)
(*                                                                         *)
(* Every accepted point goes into two places under both locks: the current *)
(* chunk (the series that will be written to the database when the chunk   *)
(* is rotated out) and the current slice (what the next log flush will     *)
(* write).  Two goroutines drain them: runLogDump sends the slice to the   *)
(* log writer, cycleChunks rotates the chunk and sends it to the series    *)
(* writer.  Both sends go through a broadcaster whose listener channel has *)
(* room for one message, so both may block on a slow writer.               *)
(*                                                                         *)
(* A point stands for one StatRepr of one series; the series encoding is   *)
(* abstracted to the set of points it holds.                               *)
(***************************************************************************)
EXTENDS Integers, Sequences

CONSTANTS
    Points,      \* the stats offered to the cache
    ZeroTime,    \* those whose Time is 0: the chunk refuses them
    NumChunks,   \* len(wc.chunks): rotated chunks kept in RAM for reads
    MaxIdle      \* bound: rotations of an empty chunk that are explored

ASSUME ZeroTimeAssumption == ZeroTime \subseteq Points
ASSUME NumChunksAssumption == NumChunks \in Nat \ {0}
ASSUME MaxIdleAssumption == MaxIdle \in Nat

VARIABLES
    curSeq,      \* curSequenceId
    curChunk,    \* the chunk being filled, NoMsg when nil
    curSlice,    \* points not yet handed to the log
    chunks,      \* the last NumChunks rotated chunks
    backfill,    \* addChunkChan: replayed points not yet in the chunk
    dumpPc,      \* runLogDump's control point
    dumpRow,     \* the CacheChunkLog it holds
    logChan,     \* logBroadcast's listener channel, NoMsg when empty
    cyclePc,     \* cycleChunks' control point
    cycleMsg,    \* the CacheChunkSlice it holds
    sliceChan,   \* sliceBroadcast's listener channel, NoMsg when empty
    closed,      \* the shutdown broadcaster is closed
    idle         \* rotations of an empty chunk so far (bound only)

cacherVars == <<curSeq, curChunk, curSlice, chunks, backfill, dumpPc, dumpRow,
                logChan, cyclePc, cycleMsg, sliceChan, closed, idle>>

-----------------------------------------------------------------------------
(* A chunk, a CacheChunkSlice and a CacheChunkLog are all a sequence number *)
(* with a set of points; sequence -1 marks nil, an empty channel, or a log  *)
(* whose sequence number has not been read yet.                             *)
Msg == [seq : Nat, pts : SUBSET Points]
NewCacheChunkItem(s) == [seq |-> s, pts |-> {}]
NoMsg == [seq |-> -1, pts |-> {}]
OptMsg == Msg \cup {NoMsg}

CacherInit ==
    /\ curSeq = 0
    /\ curChunk = NoMsg
    /\ curSlice = {}
    /\ chunks = [i \in 1..NumChunks |-> NoMsg]
    /\ backfill = {}
    /\ dumpPc = "idle" /\ dumpRow = NoMsg /\ logChan = NoMsg
    /\ cyclePc = "idle" /\ cycleMsg = NoMsg /\ sliceChan = NoMsg
    /\ closed = FALSE

\* The same for the cache of a new incarnation of the process.
CacherReset ==
    /\ curSeq' = 0
    /\ curChunk' = NoMsg
    /\ curSlice' = {}
    /\ chunks' = [i \in 1..NumChunks |-> NoMsg]
    /\ backfill' = {}
    /\ dumpPc' = "idle" /\ dumpRow' = NoMsg /\ logChan' = NoMsg
    /\ cyclePc' = "idle" /\ cycleMsg' = NoMsg /\ sliceChan' = NoMsg
    /\ closed' = FALSE
    /\ UNCHANGED idle

-----------------------------------------------------------------------------
(* Filling the cache.                                                       *)

CurrentChunk == IF curChunk = NoMsg THEN NewCacheChunkItem(curSeq) ELSE curChunk

ChunkAdd(c, p) == [seq |-> c.seq, pts |-> c.pts \cup ({p} \ ZeroTime)]

\* AddWithOffset, with slmu and chmu held: the slice takes the point even
\* when the chunk refuses it.
AddWithOffset(p) ==
    /\ curSlice' = curSlice \cup {p}
    /\ curChunk' = ChunkAdd(CurrentChunk, p)
    /\ UNCHANGED <<curSeq, chunks, backfill, dumpPc, dumpRow, logChan, cyclePc,
                   cycleMsg, sliceChan, closed, idle>>

\* addStatToChunk: the goroutine that moves replayed points into the chunk.
AddStatToChunk(p) ==
    /\ p \in backfill
    /\ backfill' = backfill \ {p}
    /\ curChunk' = ChunkAdd(CurrentChunk, p)
    /\ UNCHANGED <<curSeq, curSlice, chunks, dumpPc, dumpRow, logChan, cyclePc,
                   cycleMsg, sliceChan, closed, idle>>

-----------------------------------------------------------------------------
(* runLogDump.  The slice is cloned under slmu, the sequence number is read *)
(* after the lock is released, the send may block, and only then is the     *)
(* slice replaced by an empty one.  After shutdown the clone is sent once   *)
(* more and the goroutine ends without emptying the slice.                  *)

\* A tick and a closed shutdown channel may both be ready: select picks either.
LogClone(final) ==
    /\ dumpPc = "idle"
    /\ final => closed
    /\ dumpRow' = [seq |-> -1, pts |-> curSlice]
    /\ dumpPc' = IF final THEN "finalSeq" ELSE "seq"
    /\ UNCHANGED <<curSeq, curChunk, curSlice, chunks, backfill, logChan,
                   cyclePc, cycleMsg, sliceChan, closed, idle>>

LogSequence ==
    /\ dumpPc \in {"seq", "finalSeq"}
    /\ dumpRow' = [seq |-> curSeq, pts |-> dumpRow.pts]
    /\ dumpPc' = IF dumpPc = "seq" THEN "send" ELSE "finalSend"
    /\ UNCHANGED <<curSeq, curChunk, curSlice, chunks, backfill, logChan,
                   cyclePc, cycleMsg, sliceChan, closed, idle>>

LogSend ==
    /\ dumpPc \in {"send", "finalSend"}
    /\ logChan = NoMsg
    /\ logChan' = dumpRow
    /\ dumpPc' = IF dumpPc = "send" THEN "wipe" ELSE "done"
    /\ UNCHANGED <<curSeq, curChunk, curSlice, chunks, backfill, dumpRow,
                   cyclePc, cycleMsg, sliceChan, closed, idle>>

LogWipe ==
    /\ dumpPc = "wipe"
    /\ curSlice' = {}
    /\ dumpRow' = NoMsg
    /\ dumpPc' = "idle"
    /\ UNCHANGED <<curSeq, curChunk, chunks, backfill, logChan, cyclePc,
                   cycleMsg, sliceChan, closed, idle>>

-----------------------------------------------------------------------------
(* cycleChunks: rotate under chmu, then send outside the lock.  A chunk     *)
(* with no series is rotated but not sent.                                  *)

\* Mutants: the oldest chunk is not dropped; the sequence number is not
\* advanced with the chunk.
CycleKeepsOldest ==
    /\ curSeq' = curSeq + 1
    /\ curChunk' = NewCacheChunkItem(curSeq + 1)
    /\ chunks' = IF curChunk = NoMsg THEN chunks ELSE Append(chunks, curChunk)
CycleForgetsSequence ==
    /\ UNCHANGED curSeq
    /\ curChunk' = NewCacheChunkItem(curSeq + 1)
    /\ chunks' = IF curChunk = NoMsg THEN chunks ELSE Append(Tail(chunks), curChunk)

CycleInternalChunks ==
    /\ curSeq' = curSeq + 1
    /\ curChunk' = NewCacheChunkItem(curSeq + 1)
    /\ chunks' = IF curChunk = NoMsg THEN chunks ELSE Append(Tail(chunks), curChunk)

\* Mutant: a chunk with a single series counts as empty.
CycleChunksOffByOne ==
    /\ cyclePc = "idle"
    /\ CycleInternalChunks
    /\ IF \A p, q \in curChunk.pts : p = q
         THEN idle < MaxIdle /\ idle' = idle + 1 /\ UNCHANGED <<cyclePc, cycleMsg>>
         ELSE cyclePc' = "send" /\ cycleMsg' = curChunk /\ UNCHANGED idle
    /\ UNCHANGED <<curSlice, backfill, dumpPc, dumpRow, logChan, sliceChan, closed>>

CycleChunks ==
    /\ cyclePc = "idle"
    /\ CycleInternalChunks
    /\ IF curChunk.pts = {}
         THEN idle < MaxIdle /\ idle' = idle + 1 /\ UNCHANGED <<cyclePc, cycleMsg>>
         ELSE cyclePc' = "send" /\ cycleMsg' = curChunk /\ UNCHANGED idle
    /\ UNCHANGED <<curSlice, backfill, dumpPc, dumpRow, logChan, sliceChan, closed>>

\* Mutant: the send overwrites a message the writer has not taken yet.
SliceSendNoWait ==
    /\ cyclePc = "send"
    /\ sliceChan' = cycleMsg
    /\ cycleMsg' = NoMsg
    /\ cyclePc' = "idle"
    /\ UNCHANGED <<curSeq, curChunk, curSlice, chunks, backfill, dumpPc, dumpRow,
                   logChan, closed, idle>>

SliceSend ==
    /\ cyclePc = "send"
    /\ sliceChan = NoMsg
    /\ sliceChan' = cycleMsg
    /\ cycleMsg' = NoMsg
    /\ cyclePc' = "idle"
    /\ UNCHANGED <<curSeq, curChunk, curSlice, chunks, backfill, dumpPc, dumpRow,
                   logChan, closed, idle>>

CycleStop ==
    /\ cyclePc = "idle"
    /\ closed
    /\ cyclePc' = "done"
    /\ UNCHANGED <<curSeq, curChunk, curSlice, chunks, backfill, dumpPc, dumpRow,
                   logChan, cycleMsg, sliceChan, closed, idle>>

\* Stop closes the shutdown broadcaster and returns.
CacherStop ==
    /\ closed' = TRUE
    /\ UNCHANGED <<curSeq, curChunk, curSlice, chunks, backfill, dumpPc, dumpRow,
                   logChan, cyclePc, cycleMsg, sliceChan, idle>>

\* What the cache's own goroutines do once Start has launched them.
Dump == (\E final \in BOOLEAN : LogClone(final)) \/ LogSequence \/ LogSend \/ LogWipe
Cycle == CycleChunks \/ SliceSend \/ CycleStop

-----------------------------------------------------------------------------
CacherTypeOK ==
    /\ curSeq \in Nat
    /\ curChunk \in OptMsg
    /\ curSlice \subseteq Points
    /\ chunks \in Seq(OptMsg) /\ Len(chunks) = NumChunks
    /\ backfill \subseteq Points
    /\ dumpPc \in {"idle", "seq", "send", "wipe", "finalSeq", "finalSend", "done"}
    /\ dumpRow \in [seq : Nat \cup {-1}, pts : SUBSET Points]
    /\ dumpPc \in {"send", "finalSend"} => dumpRow \in Msg
    /\ logChan \in OptMsg
    /\ cyclePc \in {"idle", "send", "done"}
    /\ cycleMsg \in OptMsg /\ sliceChan \in OptMsg
    /\ closed \in BOOLEAN
    /\ idle \in Nat
=============================================================================
