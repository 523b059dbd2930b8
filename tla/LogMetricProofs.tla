-------------------------- MODULE LogMetricProofs --------------------------
(***************************************************************************)
(* What is proved of LogMetric, for every set of points, every bound and   *)
(* every choice of failing calls, in four parts: type correctness; the     *)
(* order invariant, by which chunks in flight are numbered in order and no *)
(* log row is filed under a sequence older than its points' chunks; what   *)
(* that order buys, the log of a point outlives the chunk the point is in  *)
(* and no accepted point silently disappears; and that LogMetric implements*)
(* PointCustody.                                                           *)
(***************************************************************************)
EXTENDS LogMetric, TLAPS

-----------------------------------------------------------------------------
(* Messages.                                                                *)

\* The empty channel and every chunk, log row or slice the code builds are
\* messages: a sequence number and a set of points.
LEMMA MessageTypes ==
    /\ NoMsg \in OptMsg /\ NoMsg.seq = -1 /\ NoMsg.pts = {}
    /\ NoMsg \in [seq : Nat \cup {-1}, pts : SUBSET Points]
    /\ \A m \in OptMsg : m.seq \in Nat \cup {-1} /\ m.pts \in SUBSET Points
    /\ \A m \in Msg : m \in OptMsg /\ m.seq \in Nat /\ m # NoMsg
    /\ \A m \in OptMsg : m # NoMsg => m \in Msg
    /\ \A s \in Nat : NewCacheChunkItem(s) \in Msg /\ NewCacheChunkItem(s).pts = {}
    /\ \A s \in Nat, S \in SUBSET Points : [seq |-> s, pts |-> S] \in Msg
  BY DEF NoMsg, Msg, OptMsg, NewCacheChunkItem

\* ChunkAdd and CurrentChunk return chunks.
LEMMA ChunkAddType ==
    ASSUME curSeq \in Nat, curChunk \in OptMsg, NEW p \in Points
    PROVE  ChunkAdd(CurrentChunk, p) \in Msg
  BY MessageTypes, Zenon DEF ChunkAdd, CurrentChunk, Msg, NewCacheChunkItem

\* The points of a set of messages are points.
LEMMA PtsType ==
    ASSUME NEW R \in SUBSET Msg
    PROVE  Pts(R) \in SUBSET Points
  BY MessageTypes, Zenon DEF Pts

\* Removing points from a message leaves a message.
LEMMA RemoveType ==
    ASSUME NEW m \in OptMsg, NEW S
    PROVE  /\ Without(m, S) \in OptMsg
           /\ m # NoMsg => Without(m, S) \in Msg
  BY MessageTypes, Zenon DEF Without, Msg, OptMsg, NoMsg

\* A set that Parts allows is part of the slice.
LEMMA PartsSubset ==
    ASSUME NEW T, NEW S \in Parts(T)
    PROVE  S \subseteq T
  BY Zenon DEF Parts

-----------------------------------------------------------------------------
(* Type correctness.                                                        *)

\* The types hold at start-up of the first incarnation.
LEMMA TypeInit == Init => TypeOK
  <1> SUFFICES ASSUME Init PROVE TypeOK
    OBVIOUS
  <1>1. chunks \in Seq(OptMsg) /\ Len(chunks) = NumChunks
    BY MessageTypes, NumChunksAssumption DEF Init, CacherInit
  <1> QED
    BY <1>1, MessageTypes, Zenon DEF Init, CacherInit, TypeOK, CacherTypeOK, WaitStates

\* Rotation keeps the number of chunks held in RAM.
LEMMA RotateType ==
    ASSUME TypeOK, CycleInternalChunks
    PROVE  chunks' \in Seq(OptMsg) /\ Len(chunks') = NumChunks
  BY NumChunksAssumption DEF TypeOK, CacherTypeOK, CycleInternalChunks

\* Reading a row back adds at most its points to what is replayed or given
\* up, and deletes nothing or all of a sequence whose last row it was.
LEMMA ReplayEffect ==
    ASSUME TypeOK, NEW r \in todo, BackFillRow(r)
    PROVE  /\ table' \subseteq table
           /\ table' # table => LastOfSequence(r) /\ table' = table \ RowsOf(r.seq)
           /\ backfill \subseteq backfill' /\ backfill' \subseteq backfill \cup r.pts
           /\ replayed \subseteq replayed' /\ replayed' \subseteq replayed \cup r.pts
           /\ abandoned \subseteq abandoned' /\ abandoned' \subseteq abandoned \cup r.pts
           /\ backfill' \subseteq backfill \cup replayed'
           /\ Found(r) => r.pts \subseteq backfill' \cup abandoned'
           /\ faults' \in Nat
  <1>1. \/ ReadRow(r, TRUE) /\ table' = DropSequence(r) /\ UNCHANGED faults
        \/ ReadRow(r, FALSE) /\ table' = DropSequence(r) /\ Fault("read")
        \/ ReadRow(r, TRUE) /\ table' = table /\ Fault("purge")
    BY Zenon DEF BackFillRow
  <1>2. table' = table \/ (table' = table \ RowsOf(r.seq) /\ LastOfSequence(r))
    BY <1>1, Zenon DEF DropSequence
  <1>3. faults' \in Nat
    <2>1. faults' = faults \/ faults' = faults + 1
      BY <1>1, Zenon DEF Fault
    <2> QED BY <2>1 DEF TypeOK
  <1>4. \/ /\ backfill' = backfill \cup r.pts /\ replayed' = replayed \cup r.pts
           /\ abandoned' = abandoned
        \/ /\ backfill' = backfill /\ replayed' = replayed
           /\ abandoned' = abandoned \cup r.pts
        \/ /\ ~Found(r) /\ backfill' = backfill /\ replayed' = replayed
           /\ abandoned' = abandoned
    BY <1>1, Zenon DEF ReadRow
  <1> QED BY <1>2, <1>3, <1>4, Zenon

\* An insert, done or given up, takes one series out of the workers' hands.
LEMMA InsertEffect ==
    ASSUME NEW p, InsertSeries(p) \/ InsertGivesUp(p)
    PROVE  /\ slicer'.seq = slicer.seq /\ slicer'.pts \subseteq slicer.pts
           /\ slicer.pts \subseteq slicer'.pts \cup {p}
           /\ slicer = NoMsg => slicer' = slicer
           /\ strays' \subseteq strays /\ strays \subseteq strays' \cup {p}
           /\ p \in slicer.pts \cup strays /\ p \in db' \cup abandoned'
           /\ UNCHANGED <<curSeq, curChunk, curSlice, chunks, backfill, dumpPc, dumpRow,
                          logChan, cyclePc, cycleMsg, sliceChan, closed, idle, status,
                          shutitdown, entering, logWriter, table, todo, crashes, acked,
                          logged, replayed, crashLost>>
  <1>1. p \in db' \cup abandoned'
    BY Zenon DEF InsertSeries, InsertGivesUp
  <1>2. \/ p \in slicer.pts /\ slicer' = Without(slicer, {p}) /\ strays' = strays
        \/ p \in strays /\ strays' = strays \ {p} /\ slicer' = slicer
    BY Zenon DEF InsertSeries, InsertGivesUp, Settle
  <1>3. slicer = NoMsg => slicer.pts = {}
    BY MessageTypes, Zenon
  <1>4. CASE p \in slicer.pts /\ slicer' = Without(slicer, {p}) /\ strays' = strays
    <2>1. slicer'.seq = slicer.seq /\ slicer'.pts = slicer.pts \ {p}
      BY <1>4 DEF Without
    <2> QED BY <1>1, <1>3, <1>4, <2>1, Zenon
            DEF InsertSeries, InsertGivesUp, cacherVars, disk, counters, history
  <1>5. CASE p \in strays /\ strays' = strays \ {p} /\ slicer' = slicer
    BY <1>1, <1>5, Zenon DEF InsertSeries, InsertGivesUp, cacherVars, disk, counters, history
  <1> QED BY <1>2, <1>4, <1>5, Zenon

\* What workers read from the shared err changes the WaitGroup only.
LEMMA ShakeEffect ==
    ASSUME InsertRetried \/ WaitHangs
    PROVE  UNCHANGED <<curSeq, curChunk, curSlice, chunks, backfill, dumpPc, dumpRow,
                       logChan, cyclePc, cycleMsg, sliceChan, closed, idle, status,
                       shutitdown, entering, logWriter, slicer, strays, table, db, todo,
                       crashes, acked, logged, abandoned, replayed, crashLost>>
  BY Zenon DEF InsertRetried, WaitHangs, cacherVars, disk, counters, history

\* Every step keeps the types.
LEMMA TypeStep == TypeOK /\ [Next]_vars => TypeOK'
  <1> SUFFICES ASSUME TypeOK, [Next]_vars PROVE TypeOK'
    OBVIOUS
  <1> USE DEF TypeOK, CacherTypeOK
  <1>1. ASSUME NEW p \in Points, WriteEnter(p) PROVE TypeOK'
    BY <1>1, Zenon DEF WriteEnter, cacherVars, disk, counters, history
  <1>2. ASSUME NEW p \in Points, WriteAdd(p) PROVE TypeOK'
    BY <1>2, ChunkAddType, MessageTypes, Zenon DEF WriteAdd, AddWithOffset, disk, counters
  <1>3. CASE DumpStep
    <2> USE DEF CacheUnchanged, disk, counters, history
    <2>1. ASSUME NEW final \in BOOLEAN, LogClone(final), CacheUnchanged PROVE TypeOK'
      BY <2>1, MessageTypes, Zenon DEF LogClone
    <2>2. CASE LogSequence /\ CacheUnchanged
      <3>1. dumpRow' \in Msg
        BY <2>2, Zenon DEF LogSequence, Msg
      <3> QED BY <2>2, <3>1, Zenon DEF LogSequence, Msg
    <2>3. CASE LogSend /\ CacheUnchanged
      BY <2>3, MessageTypes, Zenon DEF LogSend
    <2>4. CASE LogWipe /\ CacheUnchanged
      BY <2>4, MessageTypes, Zenon DEF LogWipe
    <2> QED BY <1>3, <2>1, <2>2, <2>3, <2>4, Zenon DEF DumpStep, Dump
  <1>4. CASE CycleStep
    <2> USE DEF CacheUnchanged, disk, counters, history
    <2>1. CASE CycleChunks /\ CacheUnchanged
      <3>1. curChunk' \in OptMsg /\ curSeq' \in Nat
        BY <2>1, MessageTypes DEF CycleChunks, CycleInternalChunks
      <3>2. cycleMsg' \in OptMsg /\ cyclePc' \in {"idle", "send", "done"} /\ idle' \in Nat
        BY <2>1 DEF CycleChunks
      <3>3. chunks' \in Seq(OptMsg) /\ Len(chunks') = NumChunks
        BY <2>1, RotateType, Zenon DEF CycleChunks
      <3> QED BY <2>1, <3>1, <3>2, <3>3, Zenon DEF CycleChunks
    <2>2. CASE SliceSend /\ CacheUnchanged
      BY <2>2, MessageTypes, Zenon DEF SliceSend
    <2>3. CASE CycleStop /\ CacheUnchanged
      BY <2>3, Zenon DEF CycleStop
    <2> QED BY <1>4, <2>1, <2>2, <2>3, Zenon DEF CycleStep, Cycle
  <1>5. CASE BackFillStep
    BY <1>5, ChunkAddType, MessageTypes, Zenon DEF BackFillStep, AddStatToChunk, CacheUnchanged, disk,
                              counters, history
  <1>6. CASE TakeLog
    BY <1>6, MessageTypes, Zenon DEF TakeLog, disk, counters, history
  <1>7. CASE LogRowStep
    <2>1. PICK S \in Parts(logWriter.pts) : WriteLogRow(S) \/ DropLogRow(S)
      BY <1>7, Zenon DEF LogRowStep
    <2>2. logWriter \in Msg
      BY <2>1, MessageTypes, Zenon DEF WriteLogRow, DropLogRow
    <2>3. S \subseteq Points /\ [seq |-> logWriter.seq, pts |-> S] \in Msg
      BY <2>2, PartsSubset, MessageTypes, Zenon
    <2>4. LogRest(S) \in OptMsg
      BY MessageTypes, RemoveType, Zenon DEF LogRest
    <2>5. CASE WriteLogRow(S)
      BY <2>3, <2>4, <2>5, Zenon DEF WriteLogRow, cacherVars, counters
    <2>6. CASE DropLogRow(S)
      BY <2>4, <2>6 DEF DropLogRow, Fault, cacherVars, disk, history
    <2> QED BY <2>1, <2>5, <2>6, Zenon
  <1>8. CASE TakeSlice
    <2>1. slicer' \in OptMsg /\ sliceChan' \in OptMsg
      BY <1>8, MessageTypes DEF TakeSlice, Msg
    <2>2. waitG' \in WaitStates
      BY <1>8, Zenon DEF TakeSlice, WaitStates
    <2> QED BY <1>8, <2>1, <2>2, Zenon DEF TakeSlice, disk, counters, history
  <1>9. CASE InsertStep
    <2>1. PICK p \in Points : InsertSeries(p) \/ InsertGivesUp(p)
      BY <1>9, Zenon DEF InsertStep
    <2>2. slicer' \in OptMsg /\ strays' \subseteq Points
      BY <2>1, RemoveType, Zenon DEF InsertSeries, InsertGivesUp, Settle
    <2>3. CASE InsertSeries(p)
      BY <2>2, <2>3, Zenon DEF InsertSeries, cacherVars, counters, history
    <2>4. CASE InsertGivesUp(p)
      <3>1. faults' \in Nat
        BY <2>4 DEF InsertGivesUp, Fault
      <3>2. waitG' \in WaitStates
        BY <2>4, Zenon DEF InsertGivesUp, WaitStates
      <3> QED BY <2>2, <2>4, <3>1, <3>2, Zenon DEF InsertGivesUp, cacherVars, disk
    <2> QED BY <2>1, <2>3, <2>4, Zenon
  <1>10. CASE PurgeSequence
    <2>1. faults' \in Nat /\ table' \subseteq table
      BY <1>10 DEF PurgeSequence, Fault
    <2>2. slicer' \in OptMsg /\ strays' \subseteq Points
      BY <1>10, MessageTypes, Zenon DEF PurgeSequence
    <2> QED BY <1>10, <2>1, <2>2, Zenon DEF PurgeSequence, WaitStates, cacherVars, history
  <1>10a. CASE InsertRetried \/ WaitHangs
    <2>1. faults' \in Nat
      BY <1>10a DEF InsertRetried, WaitHangs, Fault, counters
    <2>2. waitG' \in WaitStates
      BY <1>10a, Zenon DEF InsertRetried, WaitHangs, WaitStates
    <2> QED BY <1>10a, <2>1, <2>2, ShakeEffect, Zenon
  <1>11. CASE GetSequences
    <2>1. PICK listed \in SUBSET Sequences :
            /\ IF listed = Sequences THEN UNCHANGED faults ELSE Fault("read")
            /\ todo' = {r \in table : r.seq \in listed}
            /\ abandoned' = abandoned \cup Pts({r \in table : r.seq \notin listed})
            /\ IF listed = {}
                 THEN status' = "up" /\ UNCHANGED <<curSeq, curChunk>>
                 ELSE /\ status' = "replay"
                      /\ \E last \in listed :
                           /\ \A t \in listed : t <= last
                           /\ curSeq' = last
                           /\ curChunk' = NewCacheChunkItem(last)
      BY <1>11, Zenon DEF GetSequences
    <2>2. listed \subseteq Nat
      BY MessageTypes DEF Sequences
    <2>3. abandoned' \subseteq Points
      BY <2>1, PtsType, Zenon
    <2>4. curSeq' \in Nat /\ curChunk' \in OptMsg
      BY <2>1, <2>2, MessageTypes, Zenon
    <2> QED BY <1>11, <2>1, <2>2, <2>3, <2>4 DEF GetSequences, Fault, disk
  <1>12. CASE ReplayStep
    <2>1. PICK r \in todo : BackFillRow(r)
      BY <1>12, Zenon DEF ReplayStep
    <2>2. r.pts \subseteq Points
      BY MessageTypes, Zenon
    <2> QED BY <2>1, <2>2, ReplayEffect, ZenonT(30) DEF BackFillRow
  <1>13. CASE OkToWrite
    BY <1>13, Zenon DEF OkToWrite, cacherVars, disk, counters, history
  <1>14. CASE Stop
    BY <1>14, Zenon DEF Stop, CacherStop, disk, counters, history
  <1>15. CASE ProcessGone
    <2>1. chunks' \in Seq(OptMsg) /\ Len(chunks') = NumChunks
      BY <1>15, MessageTypes, NumChunksAssumption DEF ProcessGone, CacherReset
    <2>2. CacherTypeOK'
      BY <1>15, <2>1, MessageTypes, Zenon DEF ProcessGone, CacherReset
    <2>3. crashLost' \subseteq Points
      BY <1>15, Zenon DEF ProcessGone
    <2>4. logWriter' \in OptMsg /\ slicer' \in OptMsg /\ crashes' \in Nat
      BY <1>15, MessageTypes DEF ProcessGone
    <2>5. /\ status' \in {"down", "replay", "up"} /\ shutitdown' \in BOOLEAN
          /\ entering' \subseteq Points /\ todo' \subseteq Msg
          /\ waitG' \in WaitStates /\ strays' \subseteq Points
          /\ logged' \subseteq Points /\ replayed' \subseteq Points
          /\ UNCHANGED <<table, db, faults, acked, abandoned>>
      BY <1>15, Zenon DEF ProcessGone, WaitStates, disk
    <2> QED BY <2>2, <2>3, <2>4, <2>5, Zenon
  <1>16. CASE UNCHANGED vars
    BY <1>16, Zenon DEF vars
  <1> QED
    BY <1>1, <1>2, <1>3, <1>4, <1>5, <1>6, <1>7, <1>8, <1>9, <1>10, <1>10a, <1>11, <1>12,
       <1>13, <1>14, <1>15, <1>16, Zenon DEF Next, Crash, Exit

\* Every variable of the cache and of the writer keeps its type; in
\* particular no log row and no chunk ever carries the number of a nil one.
THEOREM TypeCorrect == Spec => []TypeOK
  BY TypeInit, TypeStep, PTL DEF Spec

-----------------------------------------------------------------------------
(* The chunks in flight are numbered in order.                              *)

\* The sequence numbers and points of everything in flight.
LEMMA FlightTypes ==
    ASSUME TypeOK
    PROVE  /\ curSeq \in Nat
           /\ \A m \in PendingChunks \cup {logChan, logWriter} :
                m.seq \in Nat \cup {-1} /\ m.pts \subseteq Points /\ (m # NoMsg => m.seq \in Nat)
           /\ dumpRow.seq \in Nat \cup {-1} /\ dumpRow.pts \subseteq Points
  BY MessageTypes, Zenon DEF TypeOK, CacherTypeOK, PendingChunks

\* A rotation numbers the next chunk above every chunk in flight, and the
\* hand-overs from one holder to the next keep the order.
LEMMA NumbersStep ==
    TypeOK /\ NumbersInOrder /\ QuietUntilUp /\ [Next]_vars => NumbersInOrder'
  <1> SUFFICES ASSUME TypeOK, NumbersInOrder, QuietUntilUp, [Next]_vars
               PROVE  NumbersInOrder'
    OBVIOUS
  <1> USE FlightTypes, MessageTypes DEF NumbersInOrder, PendingChunks
  <1>1. ASSUME NEW p \in Points, WriteEnter(p) PROVE NumbersInOrder'
    BY <1>1, Zenon DEF WriteEnter, cacherVars
  <1>2. ASSUME NEW p \in Points, AddWithOffset(p) \/ AddStatToChunk(p), UNCHANGED slicer
        PROVE  NumbersInOrder'
    <2>1. ChunkAdd(CurrentChunk, p).seq = curSeq
      BY Zenon DEF ChunkAdd, CurrentChunk, NewCacheChunkItem
    <2> QED BY <1>2, <2>1, Zenon DEF AddWithOffset, AddStatToChunk
  <1>3. CASE DumpStep
    BY <1>3, Zenon DEF DumpStep, Dump, LogClone, LogSequence, LogSend, LogWipe, CacheUnchanged
  <1>4. CASE CycleStep
    <2>1. UNCHANGED slicer
      BY <1>4, Zenon DEF CycleStep, CacheUnchanged
    <2>2. CASE CycleChunks
      <3>1. curSeq' = curSeq + 1 /\ curChunk'.seq = curSeq + 1 /\ UNCHANGED sliceChan
        BY <2>2, Zenon DEF CycleChunks, CycleInternalChunks, NewCacheChunkItem
      <3>2. CASE curChunk.pts = {}
        BY <2>1, <2>2, <3>1, <3>2 DEF CycleChunks
      <3>3. CASE curChunk.pts # {}
        BY <2>1, <2>2, <3>1, <3>3 DEF CycleChunks
      <3> QED BY <3>2, <3>3, Zenon
    <2>3. CASE SliceSend
      BY <2>1, <2>3, Zenon DEF SliceSend
    <2>4. CASE CycleStop
      BY <2>1, <2>4, Zenon DEF CycleStop
    <2> QED BY <1>4, <2>2, <2>3, <2>4, Zenon DEF CycleStep, Cycle
  <1>5. CASE TakeLog
    BY <1>5, Zenon DEF TakeLog
  <1>6. ASSUME NEW S, WriteLogRow(S) \/ DropLogRow(S) PROVE NumbersInOrder'
    BY <1>6, Zenon DEF WriteLogRow, DropLogRow, cacherVars
  <1>7. CASE TakeSlice
    <2>1. slicer'.seq = sliceChan.seq /\ sliceChan' = NoMsg
      BY <1>7, Zenon DEF TakeSlice, NewCacheChunkItem
    <2> QED BY <1>7, <2>1, Zenon DEF TakeSlice
  <1>8. ASSUME NEW p, InsertSeries(p) \/ InsertGivesUp(p) PROVE NumbersInOrder'
    BY <1>8, InsertEffect, Zenon
  <1>9. CASE PurgeSequence
    BY <1>9 DEF PurgeSequence, cacherVars
  <1>9a. CASE InsertRetried \/ WaitHangs
    BY <1>9a, ShakeEffect, Zenon
  <1>10. CASE GetSequences
    <2>1. \/ curChunk' = curChunk /\ curSeq' = curSeq
          \/ \E last \in Sequences : curSeq' = last /\ curChunk' = NewCacheChunkItem(last)
      BY <1>10, Zenon DEF GetSequences
    <2>2. Sequences \subseteq Nat
      BY Zenon DEF Sequences, TypeOK
    <2>3. cycleMsg' = NoMsg /\ sliceChan' = NoMsg /\ slicer' = NoMsg
      BY <1>10, Zenon DEF GetSequences, QuietUntilUp
    <2> QED BY <1>10, <2>1, <2>2, <2>3 DEF GetSequences, NewCacheChunkItem
  <1>11. CASE ReplayStep
    BY <1>11, Zenon DEF ReplayStep, BackFillRow
  <1>12. CASE OkToWrite
    BY <1>12, Zenon DEF OkToWrite, cacherVars
  <1>13. CASE Stop
    BY <1>13, Zenon DEF Stop, CacherStop
  <1>14. CASE ProcessGone
    BY <1>14 DEF ProcessGone, CacherReset
  <1>15. CASE UNCHANGED vars
    BY <1>15, Zenon DEF vars
  <1> HIDE FlightTypes, MessageTypes DEF NumbersInOrder, PendingChunks
  <1> QED
    BY <1>1, <1>2, <1>3, <1>4, <1>5, <1>6, <1>7, <1>8, <1>9, <1>9a, <1>10, <1>11, <1>12,
       <1>13, <1>14, <1>15, Zenon
       DEF Next, WriteAdd, BackFillStep, CacheUnchanged, LogRowStep, InsertStep, Crash, Exit

-----------------------------------------------------------------------------
(* Start-up is quiet.                                                       *)

\* Writes are let in only after getSequences has returned, so until then the
\* log is sent nothing but empty slices; and until it has listed the log no
\* chunk holds a point, so none is rotated out.
LEMMA QuietStep == TypeOK /\ NumbersInOrder /\ QuietUntilUp /\ [Next]_vars => QuietUntilUp'
  <1> SUFFICES ASSUME TypeOK, NumbersInOrder, QuietUntilUp, [Next]_vars PROVE QuietUntilUp'
    OBVIOUS
  <1> USE DEF QuietUntilUp, PendingRows, Pts
  <1>1. ASSUME NEW p \in Points, WriteEnter(p) PROVE QuietUntilUp'
    BY <1>1, Zenon DEF WriteEnter, cacherVars, history
  <1>2. ASSUME NEW p \in Points, WriteAdd(p) PROVE QuietUntilUp'
    <2>1. status = "up"
      BY <1>2, Zenon DEF WriteAdd
    <2> QED BY <1>2, <2>1, Zenon DEF WriteAdd
  <1>3. CASE DumpStep
    <2>1. UNCHANGED <<status, todo, entering, logWriter, slicer, strays, logged, replayed>>
      BY <1>3, Zenon DEF DumpStep, CacheUnchanged, history
    <2>2. ASSUME NEW final, LogClone(final) PROVE QuietUntilUp'
      BY <2>1, <2>2 DEF LogClone
    <2>3. CASE LogSequence
      BY <2>1, <2>3 DEF LogSequence
    <2>4. CASE LogSend
      BY <2>1, <2>4 DEF LogSend
    <2>5. CASE LogWipe
      BY <2>1, <2>5, MessageTypes DEF LogWipe
    <2> QED BY <1>3, <2>2, <2>3, <2>4, <2>5, Zenon DEF DumpStep, Dump
  <1>4. CASE CycleStep
    <2>1. UNCHANGED <<status, todo, entering, logWriter, slicer, strays, logged, replayed>>
      BY <1>4, Zenon DEF CycleStep, CacheUnchanged, history
    <2>2. CASE CycleChunks
      BY <2>1, <2>2, Zenon
         DEF CycleChunks, CycleInternalChunks, NewCacheChunkItem
    <2>3. CASE SliceSend
      BY <2>1, <2>3, Zenon DEF SliceSend
    <2>4. CASE CycleStop
      BY <2>1, <2>4, Zenon DEF CycleStop
    <2> QED BY <1>4, <2>2, <2>3, <2>4, Zenon DEF CycleStep, Cycle
  <1>5. CASE BackFillStep
    BY <1>5, Zenon DEF BackFillStep, AddStatToChunk, CacheUnchanged, history
  <1>6. CASE TakeLog
    BY <1>6, MessageTypes DEF TakeLog, history
  <1>7. ASSUME NEW S \in Parts(logWriter.pts), WriteLogRow(S) \/ DropLogRow(S)
        PROVE  QuietUntilUp'
    <2>1. S \subseteq logWriter.pts /\ LogRest(S).pts \subseteq logWriter.pts
      BY PartsSubset, MessageTypes DEF LogRest, Without
    <2>2. /\ logWriter' = LogRest(S) /\ logged' \subseteq logged \cup S
          /\ UNCHANGED <<status, todo, entering, slicer, strays, replayed, curSlice, dumpRow,
                         logChan, cycleMsg, sliceChan, curChunk, backfill>>
      BY <1>7, Zenon DEF WriteLogRow, DropLogRow, cacherVars, history
    <2> QED BY <2>1, <2>2
  <1>8. CASE TakeSlice
    BY <1>8, Zenon DEF TakeSlice, history
  <1>9. ASSUME NEW p, InsertSeries(p) \/ InsertGivesUp(p) PROVE QuietUntilUp'
    <2>1. status # "down"
      <3>1. p \in slicer.pts \/ p \in strays
        BY <1>9, InsertEffect, Zenon
      <3>2. NoMsg.pts = {}
        BY Zenon DEF NoMsg
      <3>3. status = "down" => slicer = NoMsg /\ strays = {}
        OBVIOUS
      <3> QED BY ONLY <3>1, <3>2, <3>3, Zenon
    <2>2. UNCHANGED <<status, todo, entering, curSlice, logged, dumpRow, logChan, logWriter>>
      BY <1>9, InsertEffect, Zenon
    <2> QED BY <2>1, <2>2, Zenon
  <1>10. CASE PurgeSequence
    BY <1>10, Zenon DEF PurgeSequence, cacherVars, history
  <1>10a. CASE InsertRetried \/ WaitHangs
    BY <1>10a, ShakeEffect, Zenon
  <1>11. CASE GetSequences
    <2>1. status' = "replay" \/ (status' = "up" /\ todo' = {})
      BY <1>11, Zenon DEF GetSequences
    <2> QED BY <1>11, <2>1, Zenon DEF GetSequences
  <1>12. CASE ReplayStep
    BY <1>12, Zenon DEF ReplayStep, BackFillRow
  <1>13. CASE OkToWrite
    BY <1>13, Zenon DEF OkToWrite, cacherVars, history
  <1>14. CASE Stop
    BY <1>14, Zenon DEF Stop, CacherStop, history
  <1>15. CASE ProcessGone
    BY <1>15, MessageTypes DEF ProcessGone, CacherReset
  <1>16. CASE UNCHANGED vars
    BY <1>16, Zenon DEF vars
  <1> HIDE DEF QuietUntilUp, PendingRows, Pts
  <1> QED
    BY <1>1, <1>2, <1>3, <1>4, <1>5, <1>6, <1>7, <1>8, <1>9, <1>10, <1>10a, <1>11, <1>12,
       <1>13, <1>14, <1>15, <1>16, Zenon
       DEF Next, LogRowStep, InsertStep, Crash, Exit

-----------------------------------------------------------------------------
(* Only accepted points are logged.                                         *)

\* A point enters the log through the current slice, which it enters when it
\* is accepted.
LEMMA KnownStep ==
    TypeOK /\ QuietUntilUp /\ OnlyKnownPoints /\ [Next]_vars => OnlyKnownPoints'
  <1> SUFFICES ASSUME TypeOK, QuietUntilUp, OnlyKnownPoints, [Next]_vars
               PROVE  OnlyKnownPoints'
    OBVIOUS
  <1> USE DEF OnlyKnownPoints, PendingRows, Pts
  <1>1. ASSUME NEW p \in Points, WriteEnter(p) PROVE OnlyKnownPoints'
    BY <1>1, Zenon DEF WriteEnter, cacherVars, disk, history
  <1>2. ASSUME NEW p \in Points, WriteAdd(p) PROVE OnlyKnownPoints'
    BY <1>2, Zenon DEF WriteAdd, AddWithOffset, disk
  <1>3. CASE DumpStep
    <2> USE DEF CacheUnchanged, disk, history
    <2>1. ASSUME NEW final \in BOOLEAN, LogClone(final), CacheUnchanged
          PROVE  OnlyKnownPoints'
      BY <2>1 DEF LogClone
    <2>2. CASE LogSequence /\ CacheUnchanged
      BY <2>2 DEF LogSequence
    <2>3. CASE LogSend /\ CacheUnchanged
      <3>1. /\ logChan' = dumpRow
            /\ UNCHANGED <<entering, acked, logged, curSlice, dumpRow, logWriter, table,
                           backfill, replayed>>
        BY <2>3, Zenon DEF LogSend
      <3> QED BY <3>1
    <2>4. CASE LogWipe /\ CacheUnchanged
      BY <2>4, MessageTypes DEF LogWipe
    <2> QED BY <1>3, <2>1, <2>2, <2>3, <2>4, Zenon DEF DumpStep, Dump
  <1>4. CASE CycleStep
    BY <1>4, Zenon DEF CycleStep, Cycle, CycleChunks, SliceSend, CycleStop, CacheUnchanged,
                disk, history
  <1>5. CASE BackFillStep
    BY <1>5, Zenon DEF BackFillStep, AddStatToChunk, CacheUnchanged, disk, history
  <1>6. CASE TakeLog
    BY <1>6, MessageTypes DEF TakeLog, disk, history
  <1>7. ASSUME NEW S \in Parts(logWriter.pts), WriteLogRow(S) \/ DropLogRow(S)
        PROVE  OnlyKnownPoints'
    <2>1. S \subseteq logWriter.pts /\ LogRest(S).pts \subseteq logWriter.pts
      BY PartsSubset, MessageTypes, Zenon DEF LogRest, Without
    <2>2. CASE WriteLogRow(S)
      <3>1. UNCHANGED <<entering, acked, curSlice, dumpRow, logChan, backfill, replayed>>
        BY <2>2, Zenon DEF WriteLogRow, cacherVars
      <3>2. /\ logWriter' = LogRest(S) /\ logged' = logged \cup (S \cap acked)
            /\ table' = table \cup {[seq |-> logWriter.seq, pts |-> S]}
        BY <2>2, Zenon DEF WriteLogRow
      <3>3. Pts((PendingRows \cup table)') \subseteq Pts(PendingRows \cup table)
        BY <2>1, <3>1, <3>2
      <3> QED BY <3>1, <3>2, <3>3, SMTT(30)
    <2>3. CASE DropLogRow(S)
      <3>1. UNCHANGED <<entering, acked, logged, curSlice, dumpRow, logChan, table, backfill,
                        replayed>>
        BY <2>3, Zenon DEF DropLogRow, cacherVars, disk, history
      <3>2. logWriter'.pts \subseteq logWriter.pts
        BY <2>1, <2>3, Zenon DEF DropLogRow
      <3> QED BY <3>1, <3>2
    <2> QED BY <1>7, <2>2, <2>3, Zenon
  <1>8. CASE TakeSlice
    BY <1>8, Zenon DEF TakeSlice, disk, history
  <1>9. ASSUME NEW p, InsertSeries(p) \/ InsertGivesUp(p) PROVE OnlyKnownPoints'
    BY <1>9, InsertEffect, Zenon
  <1>10. CASE PurgeSequence
    <2>1. UNCHANGED <<entering, acked, logged, curSlice, dumpRow, logChan, logWriter,
                      backfill, replayed>>
      BY <1>10, Zenon DEF PurgeSequence, cacherVars, history
    <2>2. table' \subseteq table
      BY <1>10, Zenon DEF PurgeSequence
    <2> QED BY <2>1, <2>2
  <1>10a. CASE InsertRetried \/ WaitHangs
    BY <1>10a, ShakeEffect, Zenon
  <1>11. CASE GetSequences
    BY <1>11, Zenon DEF GetSequences, disk, history
  <1>12. CASE ReplayStep
    <2>1. PICK r \in todo : BackFillRow(r)
      BY <1>12, Zenon DEF ReplayStep
    <2>2. table' \subseteq table /\ backfill' \subseteq replayed'
      BY <2>1, ReplayEffect, Zenon
    <2>3. UNCHANGED <<entering, acked, logged, curSlice, dumpRow, logChan, logWriter>>
      BY <2>1, Zenon DEF BackFillRow
    <2> QED BY <2>2, <2>3
  <1>13. CASE OkToWrite
    BY <1>13, Zenon DEF OkToWrite, cacherVars, disk, history
  <1>14. CASE Stop
    BY <1>14, Zenon DEF Stop, CacherStop, disk, history
  <1>15. CASE ProcessGone
    <2>1. /\ entering' = {} /\ logged' = {} /\ curSlice' = {} /\ backfill' = {}
          /\ UNCHANGED <<acked, table>>
      BY <1>15, Zenon DEF ProcessGone, CacherReset, disk
    <2>2. dumpRow'.pts = {} /\ logChan'.pts = {} /\ logWriter'.pts = {}
      BY <1>15, Zenon DEF ProcessGone, CacherReset, NoMsg
    <2> QED BY <2>1, <2>2
  <1>16. CASE UNCHANGED vars
    BY <1>16, Zenon DEF vars
  <1> HIDE DEF OnlyKnownPoints, PendingRows, Pts
  <1> QED
    BY <1>1, <1>2, <1>3, <1>4, <1>5, <1>6, <1>7, <1>8, <1>9, <1>10, <1>10a, <1>11, <1>12,
       <1>13, <1>14, <1>15, <1>16, Zenon
       DEF Next, LogRowStep, InsertStep, Crash, Exit

-----------------------------------------------------------------------------
(* No log row is filed under a sequence older than its points' chunks.      *)

\* A step that only hands rows and chunks on, or shrinks them, keeps the
\* order between rows and chunks.
LEMMA HandOver ==
    ASSUME LogNotOlderThanChunk, replayed \subseteq replayed',
           \A r1 \in (PendingRows \cup table)' : r1.seq >= 0 =>
               \E r \in PendingRows \cup table : r.seq = r1.seq /\ r1.pts \subseteq r.pts,
           \A c1 \in PendingChunks' : \A p \in c1.pts :
               \E c \in PendingChunks : c.seq = c1.seq /\ p \in c.pts
    PROVE  LogNotOlderThanChunk'
  BY DEF LogNotOlderThanChunk

\* The rows that are not touched satisfy HandOver's premise.
LEMMA RowsKept ==
    ASSUME UNCHANGED <<dumpRow, logChan, logWriter>>, table' \subseteq table
    PROVE  \A r1 \in (PendingRows \cup table)' : r1 \in PendingRows \cup table
  BY DEF PendingRows

\* The chunks that are not touched satisfy HandOver's premise.
LEMMA ChunksKept ==
    ASSUME UNCHANGED <<curChunk, cycleMsg, sliceChan, slicer>>
    PROVE  \A c1 \in PendingChunks' : c1 \in PendingChunks
  BY DEF PendingChunks

\* The slice is cloned before the sequence number is read, and every chunk in
\* flight is at most as new as the current sequence, so the row's number is
\* large enough; afterwards rows and chunks are only handed on.
LEMMA LogNotOlderStep ==
    TypeOK /\ OrderInv /\ [Next]_vars => LogNotOlderThanChunk'
  <1> SUFFICES ASSUME TypeOK, OrderInv, [Next]_vars PROVE LogNotOlderThanChunk'
    OBVIOUS
  <1>0. LogNotOlderThanChunk /\ NumbersInOrder /\ QuietUntilUp /\ OnlyKnownPoints
    BY Zenon DEF OrderInv
  <1>a. ASSUME UNCHANGED <<dumpRow, logChan, logWriter, curChunk, cycleMsg, sliceChan, slicer>>,
               table' \subseteq table, replayed \subseteq replayed'
        PROVE  LogNotOlderThanChunk'
    BY <1>0, <1>a, Zenon DEF LogNotOlderThanChunk, PendingRows, PendingChunks
  <1>1. ASSUME NEW p \in Points, WriteEnter(p) PROVE LogNotOlderThanChunk'
    BY <1>1, <1>a, Zenon DEF WriteEnter, cacherVars, disk, history
  <1>2. ASSUME NEW p \in Points, WriteAdd(p) PROVE LogNotOlderThanChunk'
    <2>1. /\ curChunk'.pts \subseteq curChunk.pts \cup ({p} \ ZeroTime)
          /\ curChunk # NoMsg => curChunk'.seq = curChunk.seq
          /\ curChunk = NoMsg => curChunk.pts = {}
      BY <1>2, MessageTypes, Zenon DEF WriteAdd, AddWithOffset, ChunkAdd, CurrentChunk, NewCacheChunkItem
    <2>2. p \notin ZeroTime => \A r \in PendingRows \cup table : p \notin r.pts
      BY <1>0, <1>2, Zenon DEF OnlyKnownPoints, WriteAdd, Pts
    <2>3. UNCHANGED <<dumpRow, logChan, logWriter, table, replayed, cycleMsg, sliceChan, slicer>>
      BY <1>2, Zenon DEF WriteAdd, AddWithOffset, disk
    <2>4. \A c1 \in PendingChunks' : \A q \in c1.pts :
             \/ q = p /\ p \notin ZeroTime
             \/ \E c \in PendingChunks : c.seq = c1.seq /\ q \in c.pts
      BY <2>1, <2>3, Zenon DEF PendingChunks
    <2>5. \A r1 \in (PendingRows \cup table)' : r1 \in PendingRows \cup table
      BY <2>3, RowsKept, Zenon
    <2> SUFFICES ASSUME NEW r1 \in (PendingRows \cup table)', NEW c1 \in PendingChunks',
                        r1.seq >= 0, NEW q \in (r1.pts \cap c1.pts) \ replayed
                 PROVE  c1.seq <= r1.seq
      BY <2>3, Zenon DEF LogNotOlderThanChunk
    <2>6. PICK c \in PendingChunks : c.seq = c1.seq /\ q \in c.pts
      BY <2>2, <2>4, <2>5, Zenon
    <2> QED BY <1>0, <2>5, <2>6, Zenon DEF LogNotOlderThanChunk
  <1>3. CASE BackFillStep
    <2>1. PICK p \in Points : AddStatToChunk(p)
      BY <1>3, Zenon DEF BackFillStep
    <2>2. /\ curChunk'.pts \subseteq curChunk.pts \cup {p}
          /\ curChunk # NoMsg => curChunk'.seq = curChunk.seq
          /\ curChunk = NoMsg => curChunk.pts = {}
      BY <2>1, MessageTypes, Zenon DEF AddStatToChunk, ChunkAdd, CurrentChunk, NewCacheChunkItem
    <2>3. p \in replayed
      BY <1>0, <2>1, Zenon DEF OnlyKnownPoints, AddStatToChunk
    <2>4. UNCHANGED <<dumpRow, logChan, logWriter, table, replayed, cycleMsg, sliceChan, slicer>>
      BY <1>3, <2>1, Zenon DEF BackFillStep, AddStatToChunk, CacheUnchanged, disk, history
    <2>5. \A c1 \in PendingChunks' : \A q \in c1.pts :
             q = p \/ \E c \in PendingChunks : c.seq = c1.seq /\ q \in c.pts
      BY <2>2, <2>4, Zenon DEF PendingChunks
    <2>6. \A r1 \in (PendingRows \cup table)' : r1 \in PendingRows \cup table
      BY <2>4, RowsKept, Zenon
    <2> QED BY <1>0, <2>3, <2>4, <2>5, <2>6, Zenon DEF LogNotOlderThanChunk
  <1>4. CASE DumpStep
    <2>1. UNCHANGED <<logWriter, table, replayed, slicer>>
      BY <1>4, Zenon DEF DumpStep, CacheUnchanged, disk, history
    <2>2. ASSUME NEW final, LogClone(final) PROVE LogNotOlderThanChunk'
      <3>1. \A c1 \in PendingChunks' : c1 \in PendingChunks
        BY <2>1, <2>2, ChunksKept, Zenon DEF LogClone
      <3>2. \A r1 \in (PendingRows \cup table)' : r1.seq = -1 \/ r1 \in PendingRows \cup table
        BY <2>1, <2>2 DEF LogClone, PendingRows
      <3> QED BY <1>0, <2>1, <3>1, <3>2, HandOver
    <2>3. CASE LogSequence
      <3>1. \A c \in PendingChunks : c.seq <= curSeq
        <4>1. curChunk.seq <= curSeq
          BY <1>0, FlightTypes DEF NumbersInOrder, NoMsg
        <4> QED BY <1>0, <4>1, FlightTypes DEF NumbersInOrder, PendingChunks
      <3>2. \A c1 \in PendingChunks' : c1 \in PendingChunks
        BY <2>1, <2>3, ChunksKept, Zenon DEF LogSequence
      <3>3. \A r1 \in (PendingRows \cup table)' : r1.seq = curSeq \/ r1 \in PendingRows \cup table
        BY <2>1, <2>3 DEF LogSequence, PendingRows
      <3> QED BY <1>0, <2>1, <3>1, <3>2, <3>3, Zenon DEF LogNotOlderThanChunk
    <2>4. CASE LogSend
      <3>1. \A c1 \in PendingChunks' : c1 \in PendingChunks
        BY <2>1, <2>4, ChunksKept, Zenon DEF LogSend
      <3>2. \A r1 \in (PendingRows \cup table)' : r1 \in PendingRows \cup table
        BY <2>1, <2>4, Zenon DEF LogSend, PendingRows
      <3> QED BY <1>0, <2>1, <3>1, <3>2, HandOver, Zenon
    <2>5. CASE LogWipe
      <3>1. \A c1 \in PendingChunks' : c1 \in PendingChunks
        BY <2>1, <2>5, ChunksKept, Zenon DEF LogWipe
      <3>2. \A r1 \in (PendingRows \cup table)' : r1.seq = -1 \/ r1 \in PendingRows \cup table
        BY <2>1, <2>5 DEF LogWipe, PendingRows, NoMsg
      <3> QED BY <1>0, <2>1, <3>1, <3>2, HandOver
    <2> QED BY <1>4, <2>2, <2>3, <2>4, <2>5, Zenon DEF DumpStep, Dump
  <1>5. CASE CycleStep
    <2>1. UNCHANGED <<dumpRow, logChan, logWriter, table, replayed, slicer>>
      BY <1>5, Zenon DEF CycleStep, Cycle, CycleChunks, SliceSend, CycleStop, CacheUnchanged,
                  disk, history
    <2>2. \A c1 \in PendingChunks' : c1.pts = {} \/ c1 \in PendingChunks
      <3>1. CASE CycleChunks
        <4>1. curChunk'.pts = {} /\ sliceChan' = sliceChan
          BY <3>1, Zenon DEF CycleChunks, CycleInternalChunks, NewCacheChunkItem
        <4>2. cycleMsg' \in {cycleMsg, curChunk}
          BY <3>1, Zenon DEF CycleChunks
        <4> QED BY <2>1, <4>1, <4>2, Zenon DEF PendingChunks
      <3>2. CASE SliceSend
        BY <2>1, <3>2, MessageTypes, Zenon DEF SliceSend, PendingChunks
      <3>3. CASE CycleStop
        BY <2>1, <3>3, MessageTypes, Zenon DEF CycleStop, PendingChunks
      <3> QED BY <1>5, <3>1, <3>2, <3>3, Zenon DEF CycleStep, Cycle
    <2> QED BY <1>0, <2>1, <2>2, RowsKept, HandOver, Zenon
  <1>6. CASE TakeLog
    <2>1. UNCHANGED <<dumpRow, table, replayed, curChunk, cycleMsg, sliceChan, slicer>>
      BY <1>6, Zenon DEF TakeLog, disk, history
    <2>2. logChan' = NoMsg /\ logWriter' \in {NoMsg, logChan}
      BY <1>6, Zenon DEF TakeLog
    <2>3. \A r1 \in (PendingRows \cup table)' : r1.seq = -1 \/ r1 \in PendingRows \cup table
      BY <2>1, <2>2 DEF PendingRows, NoMsg
    <2>4. \A c1 \in PendingChunks' : c1 \in PendingChunks
      BY <2>1, ChunksKept, Zenon
    <2> QED BY <1>0, <2>1, <2>3, <2>4, HandOver
  <1>7. ASSUME NEW S \in Parts(logWriter.pts), WriteLogRow(S) \/ DropLogRow(S)
        PROVE  LogNotOlderThanChunk'
    <2>0. S \subseteq logWriter.pts
      BY PartsSubset, Zenon
    <2>1. \/ LogRest(S) = NoMsg
          \/ LogRest(S).seq = logWriter.seq /\ LogRest(S).pts \subseteq logWriter.pts
      BY Zenon DEF LogRest, Without
    <2>2. UNCHANGED <<dumpRow, logChan, replayed, curChunk, cycleMsg, sliceChan, slicer>>
      BY <1>7, Zenon DEF WriteLogRow, DropLogRow, cacherVars, history
    <2>3. logWriter' = LogRest(S)
      BY <1>7, Zenon DEF WriteLogRow, DropLogRow
    <2>4. table' \subseteq table \cup {[seq |-> logWriter.seq, pts |-> S]}
      BY <1>7, Zenon DEF WriteLogRow, DropLogRow, disk
    <2>5. \A c1 \in PendingChunks' : c1 \in PendingChunks
      BY <2>2, ChunksKept, Zenon
    <2>6. \A r1 \in (PendingRows \cup table)' : r1.seq = -1 \/
             \E r \in PendingRows \cup table : r.seq = r1.seq /\ r1.pts \subseteq r.pts
      BY <2>0, <2>1, <2>2, <2>3, <2>4 DEF PendingRows, NoMsg
    <2> QED BY <1>0, <2>2, <2>5, <2>6, HandOver
  <1>8. CASE TakeSlice
    <2>1. UNCHANGED <<dumpRow, logChan, logWriter, table, replayed, curChunk, cycleMsg>>
      BY <1>8, Zenon DEF TakeSlice, disk, history
    <2>2. \A c1 \in PendingChunks' : c1.pts = {} \/ c1 \in PendingChunks
      BY <1>8, <2>1, MessageTypes DEF TakeSlice, NewCacheChunkItem, PendingChunks
    <2> QED BY <1>0, <2>1, <2>2, RowsKept, HandOver, Zenon
  <1>9. ASSUME NEW p, InsertSeries(p) \/ InsertGivesUp(p) PROVE LogNotOlderThanChunk'
    <2>1. UNCHANGED <<dumpRow, logChan, logWriter, table, replayed, curChunk, cycleMsg,
                      sliceChan>>
      BY <1>9, InsertEffect, Zenon
    <2>3. slicer'.seq = slicer.seq /\ slicer'.pts \subseteq slicer.pts
      BY <1>9, InsertEffect, Zenon
    <2>4. \A c1 \in PendingChunks' : \A q \in c1.pts :
             \E c \in PendingChunks : c.seq = c1.seq /\ q \in c.pts
      BY <2>1, <2>3, Zenon DEF PendingChunks
    <2> QED BY <1>0, <2>1, <2>4, RowsKept, HandOver, Zenon
  <1>10. CASE PurgeSequence
    <2>1. UNCHANGED <<dumpRow, logChan, logWriter, replayed, curChunk, cycleMsg, sliceChan>>
      BY <1>10, Zenon DEF PurgeSequence, cacherVars, history
    <2>2. table' \subseteq table /\ slicer' = NoMsg
      BY <1>10, Zenon DEF PurgeSequence
    <2>3. \A c1 \in PendingChunks' : c1.pts = {} \/ c1 \in PendingChunks
      BY <2>1, <2>2, MessageTypes, Zenon DEF PendingChunks
    <2> QED BY <1>0, <2>1, <2>2, <2>3, RowsKept, HandOver, Zenon
  <1>10a. CASE InsertRetried \/ WaitHangs
    BY <1>10a, <1>a, ShakeEffect, Zenon
  <1>11. CASE GetSequences
    <2>1. /\ curChunk.pts = {} /\ cycleMsg.pts = {} /\ sliceChan.pts = {} /\ slicer.pts = {}
      BY <1>0, <1>11, MessageTypes, Zenon DEF GetSequences, QuietUntilUp
    <2>2. UNCHANGED <<cycleMsg, sliceChan, slicer>>
      BY <1>11, Zenon DEF GetSequences
    <2>3. curChunk' = curChunk \/ \E last : curChunk' = NewCacheChunkItem(last)
      BY <1>11, Zenon DEF GetSequences
    <2>4. curChunk'.pts = {}
      <3>1. CASE curChunk' = curChunk
        BY <2>1, <3>1, Zenon
      <3>2. ASSUME NEW last, curChunk' = NewCacheChunkItem(last) PROVE curChunk'.pts = {}
        BY <3>2, Zenon DEF NewCacheChunkItem
      <3> QED BY <2>3, <3>1, <3>2, Zenon
    <2>5. \A c1 \in PendingChunks' : c1.pts = {}
      BY <2>1, <2>2, <2>4, Zenon DEF PendingChunks
    <2> QED BY <2>5, Zenon DEF LogNotOlderThanChunk
  <1>12. CASE ReplayStep
    <2>1. PICK r \in todo : BackFillRow(r)
      BY <1>12, Zenon DEF ReplayStep
    <2>2. table' \subseteq table /\ replayed \subseteq replayed'
      BY <2>1, ReplayEffect, Zenon
    <2> QED BY <2>1, <1>a, <2>2, Zenon DEF BackFillRow
  <1>13. CASE OkToWrite
    BY <1>13, <1>a, Zenon DEF OkToWrite, cacherVars, disk, history
  <1>14. CASE Stop
    BY <1>14, <1>a, Zenon DEF Stop, CacherStop, disk, history
  <1>15. CASE ProcessGone
    <2>1. \A c1 \in PendingChunks' : c1.pts = {}
      BY <1>15, MessageTypes, Zenon DEF ProcessGone, CacherReset, PendingChunks
    <2> QED BY <2>1, Zenon DEF LogNotOlderThanChunk
  <1>16. CASE UNCHANGED vars
    BY <1>16, <1>a, Zenon DEF vars
  <1> QED
    BY <1>1, <1>2, <1>3, <1>4, <1>5, <1>6, <1>7, <1>8, <1>9, <1>10, <1>10a, <1>11, <1>12,
       <1>13, <1>14, <1>15, <1>16, Zenon
       DEF Next, LogRowStep, InsertStep, Crash, Exit

\* At start-up of the first incarnation nothing is in flight.
LEMMA OrderInit == Init => OrderInv
  <1> SUFFICES ASSUME Init PROVE OrderInv
    OBVIOUS
  <1>0. NoMsg.seq = -1 /\ NoMsg.pts = {}
    BY Zenon DEF NoMsg
  <1>1. NumbersInOrder
    <2>1. /\ curSeq = 0 /\ curChunk = NoMsg /\ cycleMsg = NoMsg /\ sliceChan = NoMsg
          /\ slicer = NoMsg
      BY Zenon DEF Init, CacherInit
    <2> QED BY <1>0, <2>1 DEF NumbersInOrder
  <1>2. table = {} /\ PendingRows = {NoMsg} /\ PendingChunks = {NoMsg}
    BY Zenon DEF Init, CacherInit, PendingRows, PendingChunks
  <1>3. LogNotOlderThanChunk
    BY <1>0, <1>2, Zenon DEF LogNotOlderThanChunk
  <1>4. Pts(PendingRows) = {} /\ Pts(PendingRows \cup table) = {}
    BY <1>0, <1>2, Zenon DEF Pts
  <1>5. QuietUntilUp
    BY <1>0, <1>4, Zenon DEF Init, CacherInit, QuietUntilUp
  <1>6. OnlyKnownPoints
    BY <1>4, Zenon DEF Init, CacherInit, OnlyKnownPoints
  <1> QED BY <1>1, <1>3, <1>5, <1>6, Zenon DEF OrderInv

\* The whole order invariant is inductive.
LEMMA OrderStep == TypeOK /\ OrderInv /\ [Next]_vars => OrderInv'
  BY NumbersStep, QuietStep, KnownStep, LogNotOlderStep, Zenon DEF OrderInv

\* The types and the order invariant hold in every reachable state.
LEMMA OrderHolds == Spec => [](TypeOK /\ OrderInv)
  BY TypeInit, TypeStep, OrderInit, OrderStep, PTL DEF Spec

\* Whatever interleaving of flushes, rotations, crashes and failing database
\* calls: a log row is filed under a sequence at least as new as the chunk of
\* each of its points, although runLogDump reads the sequence number after it
\* has released the lock.
THEOREM LogRowsAreFiledLate == Spec => []LogNotOlderThanChunk
  BY OrderHolds, PTL DEF OrderInv


-----------------------------------------------------------------------------
(* A logged point stays in the log until it is written.                     *)

\* No step of a writer that does write loses a point in flight, short of the
\* end of the process: hand-overs find the next holder empty, and a point
\* leaves the last holder only into the series tables or given up.
LEMMA HeldStep ==
    ASSUME ShouldWrite, TypeOK, OrderInv, [Next]_vars, ~ProcessGone
    PROVE  Held \ ZeroTime \subseteq Held'
  <1>0. NumbersInOrder /\ QuietUntilUp
    BY Zenon DEF OrderInv
  <1>a. ASSUME UNCHANGED <<backfill, curChunk, cycleMsg, sliceChan, slicer, strays, db, abandoned>>
        PROVE  Held \ ZeroTime \subseteq Held'
    BY <1>a, Zenon DEF Held, Unwritten, PendingChunks, Pts
  <1> USE DEF Held, Unwritten, PendingChunks, Pts
  <1>1. ASSUME NEW p \in Points, WriteEnter(p) PROVE Held \ ZeroTime \subseteq Held'
    BY <1>1, <1>a, Zenon DEF WriteEnter, cacherVars, disk, history
  <1>2. ASSUME NEW p \in Points, WriteAdd(p) PROVE Held \ ZeroTime \subseteq Held'
    <2>1. curChunk.pts \subseteq curChunk'.pts
      BY <1>2, MessageTypes, Zenon DEF WriteAdd, AddWithOffset, ChunkAdd, CurrentChunk
    <2>2. UNCHANGED <<backfill, cycleMsg, sliceChan, slicer, strays, db, abandoned>>
      BY <1>2, Zenon DEF WriteAdd, AddWithOffset, disk, history
    <2> QED BY <2>1, <2>2
  <1>3. CASE BackFillStep
    <2>1. PICK p \in Points : AddStatToChunk(p)
      BY <1>3, Zenon DEF BackFillStep
    <2>2. curChunk.pts \cup ({p} \ ZeroTime) \subseteq curChunk'.pts
      BY <2>1, MessageTypes, Zenon DEF AddStatToChunk, ChunkAdd, CurrentChunk
    <2> QED BY <1>3, <2>1, <2>2 DEF BackFillStep, AddStatToChunk, CacheUnchanged, disk, history
  <1>4. CASE DumpStep
    BY <1>4, <1>a, Zenon DEF DumpStep, Dump, LogClone, LogSequence, LogSend, LogWipe,
                      CacheUnchanged, disk, history
  <1>5. CASE CycleStep
    <2>1. UNCHANGED <<backfill, slicer, strays, db, abandoned>>
      BY <1>5, Zenon DEF CycleStep, Cycle, CycleChunks, SliceSend, CycleStop, CacheUnchanged,
                  disk, history
    <2>2. CASE CycleChunks
      <3>1. cycleMsg.pts = {} /\ UNCHANGED sliceChan /\ curChunk.pts \subseteq cycleMsg'.pts
        BY <1>0, <2>2, MessageTypes, Zenon DEF CycleChunks, NumbersInOrder
      <3> QED BY <2>1, <3>1
    <2>3. CASE SliceSend
      <3>1. sliceChan.pts = {} /\ sliceChan' = cycleMsg /\ UNCHANGED curChunk
        BY <2>3, MessageTypes, Zenon DEF SliceSend
      <3> QED BY <2>1, <3>1
    <2>4. CASE CycleStop
      BY <2>1, <2>4, <1>a, Zenon DEF CycleStop
    <2> QED BY <1>5, <2>2, <2>3, <2>4, Zenon DEF CycleStep, Cycle
  <1>6. CASE TakeLog
    BY <1>6, <1>a, Zenon DEF TakeLog, disk, history
  <1>7. ASSUME NEW S, WriteLogRow(S) \/ DropLogRow(S) PROVE Held \ ZeroTime \subseteq Held'
    BY <1>7, <1>a, Zenon DEF WriteLogRow, DropLogRow, cacherVars, disk, history
  <1>8. CASE TakeSlice
    <2>1. slicer.pts = {} /\ slicer' = sliceChan
      BY <1>8, MessageTypes, Zenon DEF TakeSlice
    <2> QED BY <1>8, <2>1, Zenon DEF TakeSlice, disk, history
  <1>9. ASSUME NEW p, InsertSeries(p) \/ InsertGivesUp(p) PROVE Held \ ZeroTime \subseteq Held'
    <2>1. /\ slicer.pts \subseteq slicer'.pts \cup {p} /\ p \in db' \cup abandoned'
          /\ strays \subseteq strays' \cup {p}
          /\ UNCHANGED <<backfill, curChunk, cycleMsg, sliceChan>>
      BY <1>9, InsertEffect, Zenon
    <2>2. db \subseteq db' /\ abandoned \subseteq abandoned'
      BY <1>9, Zenon DEF InsertSeries, InsertGivesUp, disk, history
    <2> QED BY <2>1, <2>2
  <1>10. CASE PurgeSequence
    <2>1. /\ strays' = strays \cup slicer.pts
          /\ UNCHANGED <<backfill, curChunk, cycleMsg, sliceChan, db, abandoned>>
      BY <1>10, Zenon DEF PurgeSequence, cacherVars, history
    <2> QED BY <2>1
  <1>10a. CASE InsertRetried \/ WaitHangs
    BY <1>10a, <1>a, ShakeEffect, Zenon
  <1>11. CASE GetSequences
    <2>1. curChunk.pts = {}
      BY <1>0, <1>11, MessageTypes, Zenon DEF GetSequences, QuietUntilUp
    <2>2. abandoned \subseteq abandoned' /\ UNCHANGED <<backfill, cycleMsg, sliceChan, slicer, strays, db>>
      BY <1>11, Zenon DEF GetSequences, disk
    <2> QED BY <2>1, <2>2
  <1>12. CASE ReplayStep
    <2>1. PICK r \in todo : BackFillRow(r)
      BY <1>12, Zenon DEF ReplayStep
    <2>2. backfill \subseteq backfill' /\ abandoned \subseteq abandoned'
      BY <2>1, ReplayEffect, Zenon
    <2> QED BY <2>1, <2>2, Zenon DEF BackFillRow
  <1>13. CASE OkToWrite
    BY <1>13, <1>a, Zenon DEF OkToWrite, cacherVars, disk, history
  <1>14. CASE Stop
    BY <1>14, <1>a, Zenon DEF Stop, CacherStop, disk, history
  <1>15. CASE UNCHANGED vars
    BY <1>15, <1>a, Zenon DEF vars
  <1> QED
    BY <1>1, <1>2, <1>3, <1>4, <1>5, <1>6, <1>7, <1>8, <1>9, <1>10, <1>10a, <1>11, <1>12,
       <1>13, <1>14, <1>15, Zenon
       DEF Next, LogRowStep, InsertStep, Crash, Exit

\* A point that is accepted is in flight.
LEMMA AcceptedIsHeld ==
    ASSUME NEW p \in Points, WriteAdd(p), p \notin ZeroTime
    PROVE  p \in Held'
  BY DEF WriteAdd, AddWithOffset, ChunkAdd, Held, Unwritten, PendingChunks, Pts

\* Points accepted since the process started stay in flight until they are
\* in the series tables or given up.
LEMMA FreshStep ==
    ASSUME ShouldWrite
    PROVE  TypeOK /\ OrderInv /\ FreshPointsHeld /\ [Next]_vars => FreshPointsHeld'
  <1> SUFFICES ASSUME TypeOK, OrderInv, FreshPointsHeld, [Next]_vars PROVE FreshPointsHeld'
    OBVIOUS
  <1>a. ASSUME Fresh' \subseteq Fresh, ~ProcessGone PROVE FreshPointsHeld'
    BY <1>a, HeldStep, Zenon DEF FreshPointsHeld
  <1>b. ASSUME UNCHANGED <<curSlice, dumpRow, logChan, logWriter, logged>>
        PROVE  Fresh' \subseteq Fresh
    BY <1>b, Zenon DEF Fresh, PendingRows, Pts
  <1>1. CASE ProcessGone
    <2>1. Fresh' = {}
      BY <1>1, MessageTypes DEF ProcessGone, CacherReset, Fresh, PendingRows, Pts
    <2> QED BY <2>1, Zenon DEF FreshPointsHeld
  <1> SUFFICES ASSUME ~ProcessGone PROVE FreshPointsHeld'
    BY <1>1, Zenon
  <1>2. ASSUME NEW p \in Points, WriteAdd(p) PROVE FreshPointsHeld'
    <2>1. Fresh' \subseteq Fresh \cup {p}
      BY <1>2, Zenon DEF WriteAdd, AddWithOffset, Fresh, PendingRows, Pts
    <2> QED BY <1>2, <2>1, HeldStep, AcceptedIsHeld, Zenon DEF FreshPointsHeld
  <1>3. CASE DumpStep
    <2> USE DEF Fresh, PendingRows, Pts
    <2>1. UNCHANGED <<logWriter, logged>>
      BY <1>3, Zenon DEF DumpStep, CacheUnchanged, history
    <2>2. ASSUME NEW final, LogClone(final) PROVE Fresh' \subseteq Fresh
      BY <2>1, <2>2 DEF LogClone
    <2>3. CASE LogSequence
      BY <2>1, <2>3, <1>a DEF LogSequence
    <2>4. CASE LogSend
      BY <2>1, <2>4, <1>a DEF LogSend
    <2>5. CASE LogWipe
      BY <2>1, <2>5, <1>a, MessageTypes DEF LogWipe
    <2> QED BY <1>3, <1>a, <2>2, <2>3, <2>4, <2>5, Zenon DEF DumpStep, Dump
  <1>4. CASE TakeLog
    <2>1. Fresh' \subseteq Fresh
      BY <1>4, MessageTypes DEF TakeLog, history, Fresh, PendingRows, Pts
    <2> QED BY <1>a, <2>1, Zenon
  <1>5. ASSUME NEW S \in Parts(logWriter.pts), WriteLogRow(S) \/ DropLogRow(S)
        PROVE  FreshPointsHeld'
    <2>1. S \subseteq logWriter.pts
      BY PartsSubset, Zenon
    <2>2. LogRest(S).pts \subseteq logWriter.pts
      BY MessageTypes, Zenon DEF LogRest, Without
    <2>3. /\ UNCHANGED <<curSlice, dumpRow, logChan>>
          /\ logWriter' = LogRest(S) /\ logged' \subseteq logged \cup S
      BY <1>5, Zenon DEF WriteLogRow, DropLogRow, cacherVars, history
    <2>4. Fresh' \subseteq Fresh
      BY <2>1, <2>2, <2>3 DEF Fresh, PendingRows, Pts
    <2> QED BY <1>a, <2>4, Zenon
  <1>6. ASSUME NEW p, WriteEnter(p) \/ InsertSeries(p) \/ InsertGivesUp(p)
        PROVE  FreshPointsHeld'
    BY <1>6, <1>a, <1>b, InsertEffect, Zenon DEF WriteEnter, cacherVars, history
  <1>7. CASE CycleStep \/ BackFillStep
    BY <1>7, <1>a, <1>b, Zenon DEF CycleStep, Cycle, CycleChunks, SliceSend, CycleStop,
       BackFillStep, AddStatToChunk, CacheUnchanged, history
  <1>8. CASE TakeSlice \/ PurgeSequence \/ OkToWrite \/ Stop \/ UNCHANGED vars
    BY <1>8, <1>a, <1>b, Zenon DEF TakeSlice, PurgeSequence, OkToWrite, Stop, CacherStop, vars,
       cacherVars, history
  <1>9. CASE GetSequences \/ ReplayStep
    BY <1>9, <1>a, <1>b, Zenon DEF GetSequences, ReplayStep, BackFillRow
  <1>10. CASE InsertRetried \/ WaitHangs
    BY <1>10, <1>a, <1>b, ShakeEffect, Zenon
  <1> QED
    BY <1>2, <1>3, <1>4, <1>5, <1>6, <1>7, <1>8, <1>9, <1>10, Zenon
       DEF Next, LogRowStep, InsertStep, Crash, Exit

\* A purge removes only rows whose points have been dealt with: a point of
\* such a row that is still in flight would be in a chunk newer than the one
\* just written, and its row would be filed under that chunk's sequence.
LEMMA LoggedStep ==
    TypeOK /\ OrderInv /\ FreshPointsHeld /\ LoggedUntilWritten /\ [Next]_vars
        => LoggedUntilWritten'
  <1> SUFFICES ASSUME TypeOK, OrderInv, FreshPointsHeld, LoggedUntilWritten, [Next]_vars
               PROVE  LoggedUntilWritten'
    OBVIOUS
  <1>0. NumbersInOrder /\ QuietUntilUp /\ OnlyKnownPoints /\ LogNotOlderThanChunk
    BY Zenon DEF OrderInv
  <1>a. ASSUME logged' \subseteq logged, table \subseteq table', db \subseteq db',
               abandoned \subseteq abandoned', replayed \subseteq replayed',
               strays \subseteq strays' \cup db' \cup abandoned'
        PROVE  LoggedUntilWritten'
    BY <1>a, Zenon DEF LoggedUntilWritten, Pts
  <1>1. CASE PurgeSequence
    <2>1. /\ slicer # NoMsg /\ strays' = strays \cup slicer.pts
          /\ UNCHANGED <<logged, db, abandoned, replayed>>
      BY <1>1, Zenon DEF PurgeSequence, history
    <2>2. \A r \in table : r \in table' \/ r.seq = slicer.seq
      BY <1>1, Zenon DEF PurgeSequence, Deletable, RowsOf
    <2> SUFFICES ASSUME NEW p \in logged, NEW r \in table, p \in r.pts, r.seq = slicer.seq,
                        p \notin replayed
                 PROVE  p \in db \cup abandoned \cup strays'
      BY <2>1, <2>2 DEF LoggedUntilWritten, Pts
    <2>3. p \in Held
      BY <1>0, Zenon DEF FreshPointsHeld, Fresh, OnlyKnownPoints
    <2>4. p \notin backfill
      BY <1>0, Zenon DEF OnlyKnownPoints
    <2>5. ASSUME NEW c \in PendingChunks, p \in c.pts PROVE c = slicer
      <3> SUFFICES ASSUME c # slicer PROVE FALSE
        OBVIOUS
      <3>1. r.seq >= 0
        BY <2>1, FlightTypes DEF PendingChunks
      <3>2. c.seq <= slicer.seq
        BY <1>0, <2>5, <3>1, Zenon DEF LogNotOlderThanChunk
      <3>3. c # NoMsg
        BY <2>5, MessageTypes, Zenon
      <3>4. slicer.seq < c.seq
        BY <1>0, <3>3, Zenon DEF NumbersInOrder, PendingChunks
      <3> QED BY <3>2, <3>4, FlightTypes DEF PendingChunks
    <2> QED BY <2>1, <2>3, <2>4, <2>5, Zenon DEF Held, Unwritten, Pts
  <1>2. ASSUME NEW S, WriteLogRow(S) PROVE LoggedUntilWritten'
    <2>1. Pts(table) \subseteq Pts(table') /\ S \subseteq Pts(table')
      <3>1. table \subseteq table' /\ [seq |-> logWriter.seq, pts |-> S] \in table'
        BY <1>2, Zenon DEF WriteLogRow
      <3>2. [seq |-> logWriter.seq, pts |-> S].pts = S
        OBVIOUS
      <3> QED BY <3>1, <3>2, Zenon DEF Pts
    <2> QED BY <1>2, <2>1, Zenon DEF WriteLogRow, LoggedUntilWritten
  <1>3. CASE ProcessGone
    BY <1>3, Zenon DEF ProcessGone, LoggedUntilWritten
  <1>4. CASE GetSequences \/ ReplayStep
    <2>1. logged' = {}
      BY <1>0, <1>4, Zenon DEF GetSequences, ReplayStep, BackFillRow, QuietUntilUp
    <2> QED BY <2>1, Zenon DEF LoggedUntilWritten
  <1>5. ASSUME NEW p, WriteEnter(p) \/ WriteAdd(p) PROVE LoggedUntilWritten'
    BY <1>5, <1>a, Zenon DEF WriteEnter, WriteAdd, disk, history
  <1>5a. ASSUME NEW p, InsertSeries(p) \/ InsertGivesUp(p) PROVE LoggedUntilWritten'
    <2>1. db \subseteq db' /\ abandoned \subseteq abandoned'
      BY <1>5a, Zenon DEF InsertSeries, InsertGivesUp, disk, history
    <2> QED BY <1>5a, <2>1, <1>a, InsertEffect, Zenon
  <1>6. CASE DumpStep \/ CycleStep \/ BackFillStep
    BY <1>6, <1>a, Zenon DEF DumpStep, CycleStep, BackFillStep, CacheUnchanged, disk, history
  <1>7. ASSUME NEW S, DropLogRow(S) PROVE LoggedUntilWritten'
    BY <1>7, <1>a, Zenon DEF DropLogRow, disk, history
  <1>8. CASE TakeLog \/ TakeSlice \/ OkToWrite \/ Stop \/ UNCHANGED vars
    BY <1>8, <1>a, Zenon DEF TakeLog, TakeSlice, OkToWrite, Stop, vars, disk, history
  <1>9. CASE InsertRetried \/ WaitHangs
    BY <1>9, <1>a, ShakeEffect, Zenon
  <1> QED
    BY <1>1, <1>2, <1>3, <1>4, <1>5, <1>5a, <1>6, <1>7, <1>8, <1>9, Zenon
       DEF Next, LogRowStep, InsertStep, Crash, Exit

\* A point whose log row was written is never purged from the log before it
\* is in the series tables, its insert was given up or the purge has overtaken
\* its insert, for any number of points, crashes and failing calls: what makes
\* a crash survivable.
THEOREM LogOutlivesTheChunk ==
    ASSUME ShouldWrite
    PROVE  Spec => []LoggedUntilWritten
  <1>1. Init => FreshPointsHeld /\ LoggedUntilWritten
    <2>1. Init => FreshPointsHeld
      BY MessageTypes DEF Init, CacherInit, FreshPointsHeld, Fresh, PendingRows, Pts
    <2>2. Init => LoggedUntilWritten
      BY Zenon DEF Init, LoggedUntilWritten
    <2> QED BY <2>1, <2>2, Zenon
  <1>2. TypeOK /\ OrderInv /\ FreshPointsHeld /\ LoggedUntilWritten /\ [Next]_vars
          => FreshPointsHeld' /\ LoggedUntilWritten'
    BY FreshStep, LoggedStep, Zenon
  <1> QED BY <1>1, <1>2, TypeInit, TypeStep, OrderInit, OrderStep, PTL DEF Spec

-----------------------------------------------------------------------------
(* Nothing accepted disappears.                                             *)

\* cassandra_log starts the cache's goroutines after the replay, so no chunk
\* is rotated, written or purged meanwhile, and the replay itself deletes a
\* sequence only with its last row.
LEMMA ReplayInvStep ==
    ASSUME Backend = "cassandra"
    PROVE  TypeOK /\ OrderInv /\ ReplayInv /\ [Next]_vars => ReplayInv'
  <1> SUFFICES ASSUME TypeOK, OrderInv, ReplayInv, [Next]_vars PROVE ReplayInv'
    OBVIOUS
  <1>0. QuietUntilUp
    BY Zenon DEF OrderInv
  <1> USE DEF ReplayInv, ReplaySeesEveryRow
  <1>1. CASE ProcessGone
    BY <1>1, Zenon DEF ProcessGone, CacherReset, disk
  <1>2. CASE status = "up" /\ status' = status /\ todo' = todo
    BY <1>0, <1>2, Zenon DEF QuietUntilUp
  <1>3. CASE GetSequences
    BY <1>0, <1>3, Zenon DEF GetSequences, QuietUntilUp, disk
  <1>4. CASE ReplayStep
    <2>1. PICK r \in todo : BackFillRow(r)
      BY <1>4, Zenon DEF ReplayStep
    <2>2. todo' = todo \ {r} /\ UNCHANGED <<status, cycleMsg, sliceChan, slicer>>
      BY <2>1, Zenon DEF BackFillRow
    <2>3. todo' \subseteq table'
      BY <2>1, <2>2, ReplayEffect, Zenon DEF LastOfSequence, RowsOf
    <2> QED BY <2>2, <2>3, Zenon
  <1>5. CASE OkToWrite
    BY <1>5, Zenon DEF OkToWrite, cacherVars, disk
  <1>6. CASE DumpStep \/ CycleStep
    BY <1>2, <1>6, Zenon DEF DumpStep, CycleStep, CacheStarted, CacheUnchanged
  <1>7. CASE BackFillStep
    BY <1>7, Zenon DEF BackFillStep, AddStatToChunk, CacheUnchanged, disk
  <1>8. CASE TakeLog \/ Stop \/ UNCHANGED vars
    BY <1>8, Zenon DEF TakeLog, Stop, CacherStop, vars, disk
  <1>9. CASE TakeSlice \/ PurgeSequence
    <2>1. status = "up" /\ status' = status /\ todo' = todo
      BY <1>9, Zenon DEF TakeSlice, PurgeSequence
    <2> QED BY <1>2, <2>1, Zenon
  <1>10. ASSUME NEW S, WriteLogRow(S) \/ DropLogRow(S) PROVE ReplayInv'
    <2>1. table \subseteq table'
      BY <1>10, Zenon DEF WriteLogRow, DropLogRow, disk
    <2> QED BY <1>10, <2>1, Zenon DEF WriteLogRow, DropLogRow, cacherVars
  <1>11. ASSUME NEW p, WriteEnter(p) \/ WriteAdd(p) PROVE ReplayInv'
    BY <1>11, Zenon DEF WriteEnter, WriteAdd, AddWithOffset, cacherVars, disk
  <1>12. ASSUME NEW p, InsertSeries(p) \/ InsertGivesUp(p) PROVE ReplayInv'
    BY <1>12, InsertEffect, Zenon
  <1>13. CASE InsertRetried \/ WaitHangs
    BY <1>13, ShakeEffect, Zenon
  <1> QED
    BY <1>1, <1>3, <1>4, <1>5, <1>6, <1>7, <1>8, <1>9, <1>10, <1>11, <1>12, <1>13, Zenon
       DEF Next, LogRowStep, InsertStep, Crash, Exit

\* Until the log has been read back it holds what the last incarnation left;
\* afterwards every accepted point is in flight, written, given up or lost
\* with the process.
LEMMA CustodyStep ==
    ASSUME ShouldWrite, Backend = "cassandra"
    PROVE  TypeOK /\ OrderInv /\ ReplayInv /\ CustodyInv /\ [Next]_vars => CustodyInv'
  <1> SUFFICES ASSUME TypeOK, OrderInv, ReplayInv, CustodyInv, [Next]_vars PROVE CustodyInv'
    OBVIOUS
  <1>0. QuietUntilUp /\ OnlyKnownPoints
    BY Zenon DEF OrderInv
  <1>1. CASE ProcessGone
    <2>1. Pts(Unread) \subseteq Pts(table)
      BY Zenon DEF Unread, ReplayInv, ReplaySeesEveryRow, Pts
    <2> QED BY <1>1, <2>1, Zenon DEF ProcessGone, CustodyInv, Held, Unread, disk
  <1> SUFFICES ASSUME ~ProcessGone PROVE CustodyInv'
    BY <1>1, Zenon
  <1>h. Held \ ZeroTime \subseteq Held' /\ acked \cap ZeroTime = {}
    BY <1>0, HeldStep, Zenon DEF OnlyKnownPoints
  <1>a. ASSUME acked' = acked, crashLost' = crashLost, Unread \subseteq Unread'
        PROVE  CustodyInv'
    BY <1>a, <1>h, Zenon DEF CustodyInv, Pts
  <1>2. ASSUME NEW p \in Points, WriteAdd(p) PROVE CustodyInv'
    <2>1. acked' = IF p \in ZeroTime THEN acked ELSE acked \cup {p}
      BY <1>2, Zenon DEF WriteAdd
    <2>2. Unread' = Unread /\ crashLost' = crashLost
      BY <1>2, Zenon DEF WriteAdd, Unread, disk
    <2> QED BY <1>2, <1>h, <2>1, <2>2, AcceptedIsHeld, Zenon DEF CustodyInv
  <1>3. CASE GetSequences
    <2>1. Pts(Unread) \subseteq Pts(Unread') \cup Held'
      BY <1>3, Zenon DEF GetSequences, Unread, Pts, Held, Sequences, disk
    <2> QED BY <1>3, <1>h, <2>1, Zenon DEF GetSequences, CustodyInv
  <1>4. CASE ReplayStep
    <2>1. PICK r \in todo : BackFillRow(r)
      BY <1>4, Zenon DEF ReplayStep
    <2>2. Found(r)
      BY Zenon DEF Found, ReplayInv, ReplaySeesEveryRow
    <2>3. r.pts \subseteq Held'
      BY <2>1, <2>2, ReplayEffect, Zenon DEF Held, Unwritten
    <2>4. /\ Unread = todo /\ Unread' = todo \ {r}
          /\ acked' = acked /\ crashLost' = crashLost
      BY <2>1, Zenon DEF BackFillRow, Unread
    <2> QED BY <1>h, <2>3, <2>4, Zenon DEF CustodyInv, Pts
  <1>5. CASE OkToWrite
    BY <1>5, <1>a, Zenon DEF OkToWrite, Unread, disk, history
  <1>6. CASE PurgeSequence
    <2>1. status # "down"
      BY <1>0, <1>6, Zenon DEF PurgeSequence, QuietUntilUp
    <2> QED BY <1>6, <1>a, <2>1, Zenon DEF PurgeSequence, Unread, history
  <1>7. ASSUME NEW S, WriteLogRow(S) \/ DropLogRow(S) PROVE CustodyInv'
    BY <1>7, <1>a, Zenon DEF WriteLogRow, DropLogRow, Unread, disk, history
  <1>8. ASSUME NEW p, WriteEnter(p) \/ InsertSeries(p) \/ InsertGivesUp(p) PROVE CustodyInv'
    BY <1>8, <1>a, InsertEffect, Zenon DEF WriteEnter, Unread, disk, history
  <1>9. CASE DumpStep \/ CycleStep \/ BackFillStep
    BY <1>9, <1>a, Zenon DEF DumpStep, CycleStep, BackFillStep, CacheUnchanged, Unread, disk, history
  <1>10. CASE TakeLog \/ TakeSlice \/ Stop \/ UNCHANGED vars
    BY <1>10, <1>a, Zenon DEF TakeLog, TakeSlice, Stop, vars, Unread, disk, history
  <1>11. CASE InsertRetried \/ WaitHangs
    BY <1>11, <1>a, ShakeEffect, Zenon DEF Unread
  <1> QED
    BY <1>2, <1>3, <1>4, <1>5, <1>6, <1>7, <1>8, <1>9, <1>10, <1>11, Zenon
       DEF Next, LogRowStep, InsertStep, Crash, Exit

\* The cassandra writer finds every row it listed at start-up still in the
\* log when it comes to read it.
THEOREM ReplayReadsEveryRow ==
    ASSUME Backend = "cassandra"
    PROVE  Spec => []ReplaySeesEveryRow
  <1>1. Init => ReplayInv
    BY Zenon DEF Init, CacherInit, ReplayInv, ReplaySeesEveryRow
  <1>2. ReplayInv => ReplaySeesEveryRow
    BY Zenon DEF ReplayInv
  <1> QED BY <1>1, <1>2, ReplayInvStep, TypeInit, TypeStep, OrderInit, OrderStep, PTL DEF Spec

\* With the cassandra writer no accepted point silently disappears, through
\* any sequence of rotations, failing calls, crashes, stops and replays.
THEOREM NothingSilentlyLost ==
    ASSUME ShouldWrite, Backend = "cassandra"
    PROVE  Spec => []ChainOfCustody
  <1>1. Init => ReplayInv /\ CustodyInv
    BY Zenon DEF Init, CacherInit, ReplayInv, ReplaySeesEveryRow, CustodyInv
  <1>2. ReplayInv /\ CustodyInv => ChainOfCustody
    BY Zenon DEF ReplayInv, ReplaySeesEveryRow, CustodyInv, ChainOfCustody, Held, Unread, Pts
  <1> QED BY <1>1, <1>2, ReplayInvStep, CustodyStep, TypeInit, TypeStep, OrderInit, OrderStep,
             PTL DEF Spec

-----------------------------------------------------------------------------
(* LogMetric implements PointCustody.                                       *)

\* Where an accepted point can be.
Somewhere == Kept \cup db

\* A point is excused only in a step that counts a fault or a crash.
LEMMA ExcuseStep ==
    ASSUME TypeOK, [Next]_vars
    PROVE  \/ UNCHANGED <<abandoned, crashLost, faults, crashes>>
           \/ /\ faults' + crashes' = (faults + crashes) + 1
              /\ abandoned \cup crashLost \subseteq abandoned' \cup crashLost'
  <1> DEFINE Goal == \/ UNCHANGED <<abandoned, crashLost, faults, crashes>>
                     \/ /\ faults' + crashes' = (faults + crashes) + 1
                        /\ abandoned \cup crashLost \subseteq abandoned' \cup crashLost'
  <1>a. faults \in Nat /\ crashes \in Nat
    BY Zenon DEF TypeOK
  <1>b. ASSUME faults' = faults + 1, crashes' = crashes, crashLost' = crashLost,
               abandoned \subseteq abandoned'
        PROVE  Goal
    BY <1>a, <1>b
  <1>1. ASSUME NEW p, WriteEnter(p) \/ WriteAdd(p) \/ InsertSeries(p) PROVE Goal
    BY <1>1, Zenon DEF WriteEnter, WriteAdd, InsertSeries, counters, history
  <1>2. CASE DumpStep \/ CycleStep \/ BackFillStep
    BY <1>2, Zenon DEF DumpStep, CycleStep, BackFillStep, CacheUnchanged, counters, history
  <1>3. CASE TakeLog \/ TakeSlice \/ OkToWrite \/ Stop \/ UNCHANGED vars
    BY <1>3, Zenon DEF TakeLog, TakeSlice, OkToWrite, Stop, vars, counters, history
  <1>4. ASSUME NEW S, WriteLogRow(S) PROVE Goal
    BY <1>4, Zenon DEF WriteLogRow, counters
  <1>5. ASSUME NEW S, DropLogRow(S) PROVE Goal
    BY <1>5, <1>b, Zenon DEF DropLogRow, Fault, history
  <1>6. ASSUME NEW p, InsertGivesUp(p) PROVE Goal
    BY <1>6, <1>b, Zenon DEF InsertGivesUp, Fault
  <1>7. CASE PurgeSequence
    BY <1>7, <1>b, Zenon DEF PurgeSequence, Fault, history
  <1>8. CASE GetSequences
    <2>1. PICK listed \in SUBSET Sequences :
            /\ IF listed = Sequences THEN UNCHANGED faults ELSE Fault("read")
            /\ abandoned' = abandoned \cup Pts({r \in table : r.seq \notin listed})
      BY <1>8, Zenon DEF GetSequences
    <2>2. UNCHANGED <<crashes, crashLost>>
      BY <1>8, Zenon DEF GetSequences
    <2>3. listed = Sequences => abandoned' = abandoned
      BY <2>1, Zenon DEF Sequences, Pts
    <2> QED BY <2>1, <2>2, <2>3, <1>b, Zenon DEF Fault
  <1>9. CASE ReplayStep
    <2>1. PICK r \in todo : BackFillRow(r)
      BY <1>9, Zenon DEF ReplayStep
    <2>2. abandoned \subseteq abandoned' /\ UNCHANGED <<crashes, crashLost>>
      BY <2>1, ReplayEffect, Zenon DEF BackFillRow
    <2>3. UNCHANGED <<faults, abandoned>> \/ faults' = faults + 1
      BY <2>1, Zenon DEF BackFillRow, ReadRow, Fault
    <2> QED BY <2>2, <2>3, <1>b, Zenon
  <1>10. CASE ProcessGone
    BY <1>10, <1>a DEF ProcessGone
  <1>11. CASE InsertRetried \/ WaitHangs
    BY <1>11, <1>b, ShakeEffect, Zenon DEF InsertRetried, WaitHangs, Fault, counters
  <1> QED
    BY <1>1, <1>2, <1>3, <1>4, <1>5, <1>6, <1>7, <1>8, <1>9, <1>10, <1>11, Zenon
       DEF Next, LogRowStep, InsertStep, Crash, Exit

\* What is written stays written, and what is accepted stays accepted; a
\* point is accepted into the current chunk, by a step that writes nothing.
LEMMA AcceptStep ==
    ASSUME TypeOK, [Next]_vars
    PROVE  /\ db \subseteq db'
           /\ \/ acked' = acked
              \/ \E p \in Points \ ZeroTime :
                   WriteAdd(p) /\ acked' = acked \cup {p} /\ db' = db /\ p \in Kept'
  <1> DEFINE Goal == /\ db \subseteq db'
                     /\ \/ acked' = acked
                        \/ \E p \in Points \ ZeroTime :
                             WriteAdd(p) /\ acked' = acked \cup {p} /\ db' = db /\ p \in Kept'
  <1>1. ASSUME NEW p \in Points, WriteAdd(p) PROVE Goal
    <2>1. db' = db /\ (p \in ZeroTime => acked' = acked)
      BY <1>1, Zenon DEF WriteAdd, disk
    <2>2. CASE p \notin ZeroTime
      <3>1. p \in Kept'
        BY <1>1, <2>2, Zenon DEF WriteAdd, AddWithOffset, Kept
      <3>2. acked' = acked \cup {p}
        BY <1>1, <2>2, Zenon DEF WriteAdd
      <3> QED BY <1>1, <2>1, <2>2, <3>1, <3>2, Zenon
    <2> QED BY <2>1, <2>2, Zenon
  <1>2. CASE DumpStep \/ CycleStep \/ BackFillStep
    BY <1>2, Zenon DEF DumpStep, CycleStep, BackFillStep, CacheUnchanged, disk, history
  <1>3. CASE TakeLog \/ TakeSlice \/ OkToWrite \/ Stop \/ PurgeSequence \/ UNCHANGED vars
    BY <1>3, Zenon DEF TakeLog, TakeSlice, OkToWrite, Stop, PurgeSequence, vars, disk, history
  <1>4. ASSUME NEW S, WriteLogRow(S) \/ DropLogRow(S) PROVE Goal
    BY <1>4, Zenon DEF WriteLogRow, DropLogRow, disk, history
  <1>5. ASSUME NEW p, WriteEnter(p) \/ InsertSeries(p) \/ InsertGivesUp(p) PROVE Goal
    BY <1>5, Zenon DEF WriteEnter, InsertSeries, InsertGivesUp, disk, history
  <1>6. CASE GetSequences
    BY <1>6, Zenon DEF GetSequences, disk
  <1>7. CASE ReplayStep
    BY <1>7, Zenon DEF ReplayStep, BackFillRow
  <1>8. CASE ProcessGone
    BY <1>8, Zenon DEF ProcessGone, disk
  <1>9. CASE InsertRetried \/ WaitHangs
    BY <1>9, ShakeEffect, Zenon
  <1> QED
    BY <1>1, <1>2, <1>3, <1>4, <1>5, <1>6, <1>7, <1>8, <1>9, Zenon
       DEF Next, LogRowStep, InsertStep, Crash, Exit

\* Nothing reappears: a step brings no point into the cache, the log or the
\* series tables that was in none of them, but a point that is being written.
LEMMA NoReturn ==
    ASSUME TypeOK, OrderInv, [Next]_vars
    PROVE  \/ Somewhere' \subseteq Somewhere
           \/ \E p \in Points : WriteAdd(p) /\ Somewhere' \subseteq Somewhere \cup {p}
  <1>m. \A x : /\ x \in Somewhere <=> \/ x \in backfill \/ x \in curChunk.pts \/ x \in cycleMsg.pts
                                     \/ x \in sliceChan.pts \/ x \in slicer.pts \/ x \in curSlice
                                     \/ x \in strays
                                     \/ x \in dumpRow.pts \/ x \in logChan.pts
                                     \/ x \in logWriter.pts \/ x \in Pts(table) \/ x \in db
               /\ x \in Somewhere' <=> \/ x \in backfill' \/ x \in curChunk'.pts \/ x \in cycleMsg'.pts
                                      \/ x \in sliceChan'.pts \/ x \in slicer'.pts \/ x \in curSlice'
                                      \/ x \in strays'
                                      \/ x \in dumpRow'.pts \/ x \in logChan'.pts
                                      \/ x \in logWriter'.pts \/ x \in Pts(table') \/ x \in db'
    BY Zenon DEF Somewhere, Kept, Unwritten, PendingChunks, PendingRows, Pts
  <1>t. table' \subseteq table => Pts(table') \subseteq Pts(table)
    BY Zenon DEF Pts
  <1>a. ASSUME UNCHANGED <<backfill, curChunk, cycleMsg, sliceChan, slicer, strays, db,
                           curSlice, dumpRow, logChan, logWriter>>,
               table' \subseteq table
        PROVE  Somewhere' \subseteq Somewhere
    BY <1>a, <1>m, <1>t, Zenon
  <1>1. ASSUME NEW p \in Points, WriteAdd(p) PROVE Somewhere' \subseteq Somewhere \cup {p}
    <2>1. curChunk'.pts \subseteq curChunk.pts \cup {p}
      BY <1>1, Zenon DEF WriteAdd, AddWithOffset, ChunkAdd, CurrentChunk, NewCacheChunkItem
    <2>2. UNCHANGED <<backfill, cycleMsg, sliceChan, slicer, strays, db, dumpRow, logChan,
                      logWriter, table>>
      BY <1>1, Zenon DEF WriteAdd, AddWithOffset, disk
    <2>3. curSlice' \subseteq curSlice \cup {p}
      BY <1>1, Zenon DEF WriteAdd, AddWithOffset
    <2> QED BY <2>1, <2>2, <2>3, <1>m, Zenon
  <1>2. ASSUME NEW p, WriteEnter(p) PROVE Somewhere' \subseteq Somewhere
    BY <1>2, <1>a, Zenon DEF WriteEnter, cacherVars, disk
  <1>3. CASE BackFillStep
    <2>1. PICK p \in Points : AddStatToChunk(p)
      BY <1>3, Zenon DEF BackFillStep
    <2>2. curChunk'.pts \subseteq curChunk.pts \cup backfill
      BY <2>1, Zenon DEF AddStatToChunk, ChunkAdd, CurrentChunk, NewCacheChunkItem
    <2>3. UNCHANGED <<cycleMsg, sliceChan, slicer, strays, db, curSlice, dumpRow, logChan,
                      logWriter, table>> /\ backfill' \subseteq backfill
      BY <1>3, <2>1, Zenon DEF BackFillStep, AddStatToChunk, CacheUnchanged, disk
    <2> QED BY <2>2, <2>3, <1>m, Zenon
  <1>4. CASE DumpStep
    <2>1. UNCHANGED <<backfill, curChunk, cycleMsg, sliceChan, slicer, strays, db, logWriter,
                      table>>
      BY <1>4, Zenon DEF DumpStep, Dump, LogClone, LogSequence, LogSend, LogWipe, CacheUnchanged, disk
    <2>2. /\ curSlice' \subseteq curSlice /\ dumpRow'.pts \subseteq dumpRow.pts \cup curSlice
          /\ logChan'.pts \subseteq logChan.pts \cup dumpRow.pts
      BY <1>4, MessageTypes DEF DumpStep, Dump, LogClone, LogSequence, LogSend, LogWipe
    <2> QED BY <2>1, <2>2, <1>m, Zenon
  <1>5. CASE CycleStep
    <2>1. UNCHANGED <<backfill, slicer, strays, db, curSlice, dumpRow, logChan, logWriter,
                      table>>
      BY <1>5, Zenon DEF CycleStep, Cycle, CycleChunks, SliceSend, CycleStop, CacheUnchanged, disk
    <2>2. /\ curChunk'.pts \subseteq curChunk.pts
          /\ cycleMsg'.pts \subseteq cycleMsg.pts \cup curChunk.pts
          /\ sliceChan'.pts \subseteq sliceChan.pts \cup cycleMsg.pts
      <3>1. CASE CycleChunks
        <4>1. curChunk'.pts = {}
          BY <3>1 DEF CycleChunks, CycleInternalChunks, NewCacheChunkItem
        <4>2. sliceChan' = sliceChan /\ cycleMsg' \in {cycleMsg, curChunk}
          BY <3>1, Zenon DEF CycleChunks
        <4> QED BY <4>1, <4>2
      <3>2. CASE SliceSend
        BY <3>2, MessageTypes, Zenon DEF SliceSend
      <3>3. CASE CycleStop
        BY <3>3, Zenon DEF CycleStop
      <3> QED BY <1>5, <3>1, <3>2, <3>3, Zenon DEF CycleStep, Cycle
    <2> QED BY <2>1, <2>2, <1>m, Zenon
  <1>6. CASE TakeLog
    BY <1>6, <1>m, MessageTypes, Zenon DEF TakeLog, disk
  <1>7. ASSUME NEW S \in Parts(logWriter.pts), WriteLogRow(S) \/ DropLogRow(S)
        PROVE  Somewhere' \subseteq Somewhere
    <2>1. S \subseteq logWriter.pts /\ logWriter'.pts \subseteq logWriter.pts
      <3>1. logWriter' = LogRest(S)
        BY <1>7, Zenon DEF WriteLogRow, DropLogRow
      <3> QED BY <3>1, PartsSubset, MessageTypes, Zenon DEF LogRest, Without
    <2>2. UNCHANGED <<backfill, curChunk, cycleMsg, sliceChan, slicer, strays, db,
                      curSlice, dumpRow, logChan>>
      BY <1>7, Zenon DEF WriteLogRow, DropLogRow, cacherVars, disk
    <2>3. table' \subseteq table \cup {[seq |-> logWriter.seq, pts |-> S]}
      BY <1>7, Zenon DEF WriteLogRow, DropLogRow, disk
    <2>4. Pts(table') \subseteq Pts(table) \cup logWriter.pts
      BY <2>1, <2>3 DEF Pts
    <2> QED BY <2>1, <2>2, <2>4, <1>m, Zenon
  <1>8. CASE TakeSlice
    BY <1>8, <1>m, MessageTypes, Zenon DEF TakeSlice, NewCacheChunkItem, disk
  <1>9. ASSUME NEW p, InsertSeries(p) \/ InsertGivesUp(p) PROVE Somewhere' \subseteq Somewhere
    <2>1. /\ slicer'.pts \subseteq slicer.pts /\ strays' \subseteq strays
          /\ p \in slicer.pts \cup strays
          /\ UNCHANGED <<backfill, curChunk, cycleMsg, sliceChan, curSlice, dumpRow, logChan,
                         logWriter, table>>
      BY <1>9, InsertEffect, Zenon
    <2>2. db' \subseteq db \cup {p}
      BY <1>9, Zenon DEF InsertSeries, InsertGivesUp, disk
    <2> QED BY <2>1, <2>2, <1>m, Zenon
  <1>10. CASE PurgeSequence
    <2>1. /\ slicer'.pts = {} /\ strays' = strays \cup slicer.pts
          /\ table' \subseteq table
      BY <1>10, MessageTypes, Zenon DEF PurgeSequence
    <2> QED BY <1>10, <2>1, <1>m, <1>t, Zenon DEF PurgeSequence, cacherVars
  <1>10a. CASE InsertRetried \/ WaitHangs
    BY <1>10a, <1>a, ShakeEffect, Zenon
  <1>11. CASE GetSequences
    <2>1. curChunk'.pts \subseteq curChunk.pts
      BY <1>11 DEF GetSequences, NewCacheChunkItem
    <2> QED BY <1>11, <2>1, <1>m, Zenon DEF GetSequences, disk
  <1>12. CASE ReplayStep
    <2>1. PICK r \in todo : BackFillRow(r)
      BY <1>12, Zenon DEF ReplayStep
    <2>2. table' \subseteq table
      BY <2>1, ReplayEffect, Zenon
    <2>3. backfill' \subseteq backfill \cup Pts(table)
      <3>1. backfill' = backfill \/ (r \in table /\ backfill' = backfill \cup r.pts)
        BY <2>1, Zenon DEF BackFillRow, ReadRow, Found
      <3> QED BY <3>1, Zenon DEF Pts
    <2>4. UNCHANGED <<curChunk, cycleMsg, sliceChan, slicer, strays, db, curSlice, dumpRow,
                      logChan, logWriter>>
      BY <2>1, Zenon DEF BackFillRow
    <2> QED BY <2>2, <2>3, <2>4, <1>m, <1>t, Zenon
  <1>13. CASE OkToWrite \/ Stop
    BY <1>13, <1>a, Zenon DEF OkToWrite, Stop, CacherStop, cacherVars, disk
  <1>14. CASE ProcessGone
    BY <1>14, <1>m, MessageTypes, Zenon DEF ProcessGone, CacherReset, disk
  <1>15. CASE UNCHANGED vars
    BY <1>15, <1>a, Zenon DEF vars
  <1> QED
    BY <1>1, <1>2, <1>3, <1>4, <1>5, <1>6, <1>7, <1>8, <1>9, <1>10, <1>10a, <1>11, <1>12,
       <1>13, <1>14, <1>15, Zenon
       DEF Next, LogRowStep, InsertStep, Crash, Exit

-----------------------------------------------------------------------------
\* What is anywhere was accepted (or has no time stamp).
KnownInv == Somewhere \ ZeroTime \subseteq acked

\* A point that was not accepted is brought in only by being accepted.
LEMMA KnownInvStep ==
    TypeOK /\ OrderInv /\ KnownInv /\ [Next]_vars => KnownInv'
  <1> SUFFICES ASSUME TypeOK, OrderInv, KnownInv, [Next]_vars PROVE KnownInv'
    OBVIOUS
  <1>1. acked \subseteq acked'
    BY AcceptStep, Zenon
  <1>2. ASSUME NEW p \in Points, WriteAdd(p) PROVE p \in acked' \cup ZeroTime
    BY <1>2, Zenon DEF WriteAdd
  <1> QED BY <1>1, <1>2, NoReturn, Zenon DEF KnownInv

\* Every step moves each point along its life or leaves it where it is.
LEMMA LifeStep ==
    ASSUME TypeOK, OrderInv, KnownInv, OrderInv', ChainOfCustody', [Next]_vars,
           NEW p \in Points
    PROVE  \/ Life(p) = "offered" /\ Life(p)' = "held"
           \/ Life(p) = "held" /\ Life(p)' = "stored"
           \/ Life(p) = "held" /\ Life(p)' = "gone" /\ p \in abandoned' \cup crashLost'
           \/ Life(p)' = Life(p)
  <1>1. acked \cap ZeroTime = {} /\ acked' \cap ZeroTime = {}
    BY Zenon DEF OrderInv, OnlyKnownPoints
  <1>2. db \subseteq db' /\ acked \subseteq acked'
    BY AcceptStep, Zenon
  <1>3. CASE p \notin acked /\ p \in acked'
    <2>1. p \in Kept' /\ db' = db
      BY <1>3, AcceptStep, Zenon
    <2>2. p \notin db
      BY <1>1, <1>3, Zenon DEF KnownInv, Somewhere
    <2> QED BY <1>3, <2>1, <2>2, Zenon DEF Life
  <1>4. CASE p \notin acked'
    BY <1>2, <1>4, Zenon DEF Life
  <1>5. CASE p \in acked /\ p \in db
    BY <1>2, <1>5, Zenon DEF Life
  <1>6. CASE p \in acked /\ p \in Kept \ db
    <2>1. p \in Kept' \cup db' \/ p \in abandoned' \cup crashLost'
      BY <1>2, <1>6, Zenon DEF ChainOfCustody, Kept
    <2> QED BY <1>2, <1>6, <2>1, Zenon DEF Life
  <1>7. CASE p \in acked /\ p \notin Somewhere
    <2>1. ASSUME NEW q \in Points, WriteAdd(q) PROVE q # p
      BY <1>7, <2>1, Zenon DEF WriteAdd, OrderInv, OnlyKnownPoints
    <2>2. p \notin Somewhere'
      BY <1>7, <2>1, NoReturn, Zenon
    <2> QED BY <1>2, <1>7, <2>2, Zenon DEF Life, Somewhere
  <1> QED BY <1>3, <1>4, <1>5, <1>6, <1>7, Zenon DEF Somewhere

\* The cassandra writer implements PointCustody: a point that was accepted is
\* held until it is stored, and is gone only after a database call that failed
\* for good or the end of a process that had not got it to the disk; this
\* whatever the number of points, faults, crashes and restarts.
THEOREM WriterKeepsCustody ==
    ASSUME ShouldWrite, Backend = "cassandra"
    PROVE  Spec => KeepsCustody
  <1> DEFINE Inv == TypeOK /\ OrderInv /\ ReplayInv /\ CustodyInv /\ KnownInv
  <1>1. Init => Inv
    <2>1. Init => ReplayInv /\ CustodyInv
      BY Zenon DEF Init, CacherInit, ReplayInv, ReplaySeesEveryRow, CustodyInv
    <2>2. Init => KnownInv
      <3>1. Init => Somewhere = {}
        BY MessageTypes DEF Init, CacherInit, Somewhere, Kept, Unwritten, PendingChunks,
           PendingRows, Pts
      <3> QED BY <3>1, Zenon DEF Init, KnownInv
    <2> QED BY <2>1, <2>2, TypeInit, OrderInit, Zenon
  <1>2. Inv /\ [Next]_vars => Inv'
    BY TypeStep, OrderStep, ReplayInvStep, CustodyStep, KnownInvStep, Zenon
  <1>3. Init => Custody!Init
    BY DEF Init, Custody!Init, Life
  <1>4. Inv /\ Inv' /\ [Next]_vars => [Custody!Next]_(Custody!vars)
    <2> SUFFICES ASSUME Inv, Inv', [Next]_vars PROVE Custody!Next
      OBVIOUS
    <2>1. ChainOfCustody'
      BY Zenon DEF ReplayInv, ReplaySeesEveryRow, CustodyInv, ChainOfCustody, Held, Unread, Pts
    <2>2. ASSUME NEW p \in Points PROVE Custody!Move(p)
      BY <2>1, LifeStep, Zenon DEF Custody!Move
    <2>3. Custody!Mishap \/ UNCHANGED <<abandoned \cup crashLost, faults + crashes>>
      BY ExcuseStep, Zenon DEF Custody!Mishap
    <2> QED BY <2>2, <2>3, Zenon DEF Custody!Next
  <1> QED BY <1>1, <1>2, <1>3, <1>4, PTL DEF Spec, KeepsCustody, Custody!Spec
=============================================================================
