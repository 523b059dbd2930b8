------------------------------ MODULE AggLoop -------------------------------
(***************************************************************************)
(* accumulator/aggloop.go, schemas/repr/aggregator.go and writers/writer.go*)
(* for one resolution with one writer: the stats of InputChan are jobs of  *)
(* a dispatcher (JobQueue is its promise), whose workers add them, one at a*)
(* time, to the item of their key and time; a tick takes all the items and *)
(* posts them to the writer loop, which queues them and feeds the metrics  *)
(* writer.  Add keeps the pointer it looked up, so it may add to an item   *)
(* that a tick has already sent on its way.                                *)
(***************************************************************************)
EXTENDS Accumulator, Functions

CONSTANTS
    Resolution,  \* the flush time, in time buckets of the lines
    Workers,     \* AGGLOOP_DEFAULT_WORKERS
    JobLen,      \* length of the dispatcher's queue
    MetricQLen,  \* capacity of writeChan
    QueueMax,    \* queuemax of the write queue
    MaxTicks     \* ticks that find something to flush

ASSUME AggAssumption == {Resolution, Workers, JobLen, MetricQLen, QueueMax, MaxTicks} \subseteq Nat \ {0}

VARIABLES
    jobs,        \* stats the dispatcher holds, in order
    adding,      \* the stat Add works on, and the item it looked up
    items,       \* Aggregator.Items: the item of a key and time, if any
    flushed,     \* the items of every tick so far; writers hold pointers to them
    posting,     \* items the write looper has still to send to the writer
    full,        \* history: items post or Push dropped for want of room
    writeChan,   \* writeChan of the writer loop
    writeQueue,  \* its WriteQueue
    ct,          \* what is left of the pass of processQueue
    written      \* what metrics.Write was given, in order

aggVars == <<jobs, adding, items, flushed, posting, full, writeChan, writeQueue, ct, written>>

\* t.Truncate(sa.Resolution)
ResolutionTime(t) == t - (t % Resolution)
MapKey(s) == <<s.k, ResolutionTime(s.t)>>
NoAdd == [at |-> "none"]
NoItem == [c |-> {}]
AggKeys == {<<mk[1], ResolutionTime(mk[2])>> : mk \in AccKeys}
Present(m) == {mk \in AggKeys : m[mk] # NoItem}

AggInit ==
    /\ inputChan = <<>> /\ jobs = <<>> /\ adding = NoAdd
    /\ items = [mk \in AggKeys |-> NoItem] /\ flushed = <<>> /\ posting = <<>> /\ full = {}
    /\ writeChan = <<>> /\ writeQueue = <<>> /\ ct = 0 /\ written = <<>>

-----------------------------------------------------------------------------
(* InputChan, the dispatcher and Aggregator.Add.                           *)

startInputLooper ==
    /\ inputChan # <<>> /\ Len(jobs) < JobLen
    /\ jobs' = Append(jobs, Head(inputChan))
    /\ inputChan' = Tail(inputChan)
    /\ UNCHANGED <<crashed, accVars, stop, adding, items, flushed, posting, full, writeChan, writeQueue, ct, written>>

\* q without its i-th job.
Remove(q, i) == [j \in 1..(Len(q) - 1) |-> IF j < i THEN q[j] ELSE q[j + 1]]

\* One of the workers got the lock of MultiAggregator and looks its item up.
AddLookup(i) ==
    /\ adding = NoAdd /\ i \in 1..Len(jobs)
    /\ adding' = [at |-> IF items[MapKey(jobs[i])] = NoItem THEN "new" ELSE "found", s |-> jobs[i]]
    /\ jobs' = Remove(jobs, i)
    /\ UNCHANGED <<crashed, accVars, stop, inputChan, items, flushed, posting, full, writeChan, writeQueue, ct, written>>

Merged(item, s) == [item EXCEPT !.t = ResolutionTime(s.t), !.c = @ \cup s.c]

\* Mutant: a known item is replaced by the stat.
AddReplaces ==
    /\ adding # NoAdd
    /\ IF adding.at = "taken"
       THEN UNCHANGED <<items, flushed>>
       ELSE items' = [items EXCEPT ![MapKey(adding.s)] = adding.s] /\ UNCHANGED flushed
    /\ adding' = NoAdd
    /\ UNCHANGED <<crashed, accVars, stop, inputChan, jobs, posting, full, writeChan, writeQueue, ct, written>>

\* A new item is a copy of the stat, its own time included; a known one gets
\* the time of the bucket.  The item may be that of an earlier tick by now.
Add ==
    /\ adding # NoAdd
    /\ LET s == adding.s  mk == MapKey(s) IN
       CASE adding.at = "new"   -> items' = [items EXCEPT ![mk] = s] /\ UNCHANGED flushed
         [] adding.at = "found" -> items' = [items EXCEPT ![mk] = Merged(@, s)] /\ UNCHANGED flushed
         [] adding.at = "taken" -> flushed' = [flushed EXCEPT ![adding.n][mk] = Merged(@, s)] /\ UNCHANGED items
    /\ adding' = NoAdd
    /\ UNCHANGED <<crashed, accVars, stop, inputChan, jobs, posting, full, writeChan, writeQueue, ct, written>>

-----------------------------------------------------------------------------
(* The write looper.                                                       *)

\* The lists that range over a map may produce, and those sorted by time.
ListsOf(S) == {list \in [1..Cardinality(S) -> S] : \A i, j \in DOMAIN list : list[i] = list[j] => i = j}
Sorted(list) == \A i, j \in DOMAIN list : i < j => items[list[i]].t <= items[list[j]].t

\* Mutant: the items stay in the aggregator.
WriteTickKeeps ==
    /\ posting = <<>> /\ Present(items) # {} /\ Len(flushed) < MaxTicks
    /\ flushed' = Append(flushed, items)
    /\ \E list \in ListsOf(Present(items)) :
           Sorted(list) /\ posting' = [i \in DOMAIN list |-> <<Len(flushed) + 1, list[i]>>]
    /\ UNCHANGED <<crashed, accVars, stop, inputChan, jobs, adding, items, full, writeChan, writeQueue, ct, written>>

\* Mutant: post runs in a goroutine of its own, which may be the faster one.
WriteTickSpawns ==
    /\ Present(items) # {} /\ Len(flushed) < MaxTicks
    /\ flushed' = Append(flushed, items)
    /\ adding' = IF adding.at = "found" THEN [at |-> "taken", s |-> adding.s, n |-> Len(flushed')] ELSE adding
    /\ \E list \in ListsOf(Present(items)) :
           Sorted(list) /\ posting' = [i \in DOMAIN list |-> <<Len(flushed'), list[i]>>] \o posting
    /\ items' = [mk \in AggKeys |-> NoItem]
    /\ UNCHANGED <<crashed, accVars, stop, inputChan, jobs, full, writeChan, writeQueue, ct, written>>

\* GetListAndClear takes all the items and sorts them by time.
WriteTick ==
    /\ posting = <<>> /\ Present(items) # {} /\ Len(flushed) < MaxTicks
    /\ flushed' = Append(flushed, items)
    /\ adding' = IF adding.at = "found" THEN [at |-> "taken", s |-> adding.s, n |-> Len(flushed')] ELSE adding
    /\ \E list \in ListsOf(Present(items)) :
           Sorted(list) /\ posting' = [i \in DOMAIN list |-> <<Len(flushed'), list[i]>>]
    /\ items' = [mk \in AggKeys |-> NoItem]
    /\ UNCHANGED <<crashed, accVars, stop, inputChan, jobs, full, writeChan, writeQueue, ct, written>>

\* post asks before its first send whether the writer is full: then it drops
\* the whole tick.  If there is room, the first send does not block.
postBails ==
    /\ posting # <<>> /\ Len(posting) = Cardinality(Present(flushed[Len(flushed)])) /\ Len(writeChan) >= MetricQLen
    /\ full' = full \cup Range(posting)
    /\ posting' = <<>>
    /\ UNCHANGED <<crashed, accVars, stop, inputChan, jobs, adding, items, flushed, writeChan, writeQueue, ct, written>>

post ==
    /\ posting # <<>> /\ stop # "done" /\ Len(writeChan) < MetricQLen
    /\ writeChan' = Append(writeChan, Head(posting))
    /\ posting' = Tail(posting)
    /\ UNCHANGED <<crashed, accVars, stop, inputChan, jobs, adding, items, flushed, full, writeQueue, ct, written>>

\* The writer was stopped under the looper: it sends to a closed channel, if
\* it read the field before Stop cleared it; otherwise it waits for ever.
postPanics ==
    /\ posting # <<>> /\ stop = "done"
    /\ crashed' = TRUE
    /\ UNCHANGED <<accVars, stop, inputChan, aggVars>>

-----------------------------------------------------------------------------
(* The writer loop.                                                        *)

\* Push refuses what is over queuemax.
procLoop ==
    /\ writeChan # <<>>
    /\ IF Len(writeQueue) >= QueueMax
       THEN full' = full \cup {Head(writeChan)} /\ UNCHANGED writeQueue
       ELSE writeQueue' = Append(writeQueue, Head(writeChan)) /\ UNCHANGED full
    /\ writeChan' = Tail(writeChan)
    /\ UNCHANGED <<crashed, accVars, stop, inputChan, jobs, adding, items, flushed, posting, ct, written>>

\* Mutant: the pass leaves the last item to the next one.
processQueueShort ==
    /\ ct = 0 /\ Len(writeQueue) > 1
    /\ ct' = Len(writeQueue) - 1
    /\ UNCHANGED <<crashed, accVars, stop, inputChan, jobs, adding, items, flushed, posting, full, writeChan, writeQueue, written>>

\* A pass over what is in the queue now.
processQueue ==
    /\ ct = 0 /\ writeQueue # <<>>
    /\ ct' = Len(writeQueue)
    /\ UNCHANGED <<crashed, accVars, stop, inputChan, jobs, adding, items, flushed, posting, full, writeChan, writeQueue, written>>

\* Poll, and metrics.Write of what the item counts by now.
Poll ==
    /\ ct > 0
    /\ LET e == Head(writeQueue) IN
           written' = Append(written, [n |-> e[1], mk |-> e[2], t |-> flushed[e[1]][e[2]].t, c |-> flushed[e[1]][e[2]].c])
    /\ writeQueue' = Tail(writeQueue)
    /\ ct' = ct - 1
    /\ UNCHANGED <<crashed, accVars, stop, inputChan, jobs, adding, items, flushed, posting, full, writeChan>>

-----------------------------------------------------------------------------
(* The end of AggregateLoop.Stop.                                          *)

\* WriterLoop.Stop tells its loops and closes and clears the channel.  A loop
\* that was told returns at its next select, or goes on while select prefers
\* the other case: it takes some more steps, and is owed none.
StopWriter ==
    /\ stop = "told"
    /\ stop' = "done"
    /\ UNCHANGED <<crashed, accVars, inputChan, aggVars>>

AddStep == (\E i \in 1..Workers : AddLookup(i)) \/ Add
WriterStep == procLoop \/ processQueue \/ Poll

AggNext ==
    \/ startInputLooper \/ AddStep \/ WriteTick \/ postBails \/ post \/ postPanics \/ WriterStep
    \/ StopWriter
=============================================================================
