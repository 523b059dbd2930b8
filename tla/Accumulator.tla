---------------------------- MODULE Accumulator -----------------------------
(***************************************************************************)
(* accumulator/accumulator.go with the graphite accumulator: lines enter a *)
(* queue, one loop adds each to the item of its key and time bucket, and a *)
(* goroutine per timer tick copies the items out, resets the map and hands *)
(* the copies to the aggregator loop.  The copy and the reset take the lock*)
(* one after the other, and the loop adds to an item it looked up before.  *)
(* The backend is BLACKHOLE, as wherever an accumulator has writers.       *)
(***************************************************************************)
EXTENDS Naturals, Sequences, FiniteSets

CONSTANTS
    Lines,       \* the lines the clients will ever send
    LineKeys,    \* the ways the lines may have keys and time buckets
    Flushers,    \* goroutines of timer ticks that are alive at once
    LineLen,     \* capacity of LineQueue
    InputLen,    \* capacity of the aggregator's InputChan
    MaxTwice     \* lines that overlapping flushes may both copy

\* The goroutine that runs Stop, which flushes too.
Stopper == "Stop"
EveryFlusher == Flushers \cup {Stopper}
NoLine == [at |-> "none"]

ASSUME AccAssumption ==
    /\ LineLen \in Nat \ {0} /\ InputLen \in Nat \ {0} /\ MaxTwice \in Nat
    /\ Stopper \notin Flushers /\ IsFiniteSet(Lines)
    /\ \A m \in LineKeys : DOMAIN m = Lines /\ \A l \in Lines : m[l][2] \in Nat

VARIABLES
    lineKey,     \* <<key, time bucket>> of every line; does not change
    crashed,     \* a goroutine panicked, so the process is gone
    sent,        \* lines whose ProcessLine has returned
    lineQueue,   \* LineQueue
    loop,        \* the loop of Start: "run" or "ended" (LineQueue is closed)
    cur,         \* the line the loop is adding, and the item it looked up
    accStats,    \* GraphiteStats: the lines counted in the item of a key
    flush,       \* per flusher: where FlushAndPost is, and the items it holds
    stop,        \* where Stop is: "no", "flush", "told" or "done"
    inputChan,   \* InputChan of the aggregator loop
    wiped,       \* history: lines that a reset or a forgotten item took along
    overlapped   \* history: a flush read the items another was about to reset

accVars == <<lineKey, sent, lineQueue, loop, cur, accStats, flush, wiped, overlapped>>

AccKeys == {lineKey[l] : l \in Lines}

\* A copy of an item: its key, its time, and whose flush counted which lines.
Stat(mk, ls, f) == [k |-> mk[1], t |-> mk[2], c |-> ls \X {f}]

AccInit ==
    /\ lineKey \in LineKeys /\ sent = {} /\ lineQueue = <<>> /\ loop = "run" /\ cur = NoLine
    /\ accStats = [mk \in AccKeys |-> {}]
    /\ flush = [f \in EveryFlusher |-> [at |-> "idle", list |-> {}]]
    /\ wiped = {} /\ overlapped = FALSE

-----------------------------------------------------------------------------
(* ProcessLine tests shutitdown before it sends; a client may have passed   *)
(* the test any time before Stop, so the send alone decides.               *)

ProcessLine(l) ==
    /\ l \notin sent /\ loop = "run" /\ Len(lineQueue) < LineLen
    /\ sent' = sent \cup {l}
    /\ lineQueue' = Append(lineQueue, l)
    /\ UNCHANGED <<lineKey, crashed, loop, cur, accStats, flush, stop, inputChan, wiped, overlapped>>

\* The loop of Start closed the queue since the test: the send panics.
ProcessLinePanics(l) ==
    /\ l \notin sent /\ loop = "ended"
    /\ crashed' = TRUE
    /\ UNCHANGED <<accVars, stop, inputChan>>

-----------------------------------------------------------------------------
(* The loop of Start.                                                      *)

\* A line of the queue is parsed and its item looked up under the read lock.
TakeLine ==
    /\ loop = "run" /\ cur = NoLine /\ lineQueue # <<>>
    /\ LET l == Head(lineQueue) IN
           cur' = [at |-> IF accStats[lineKey[l]] = {} THEN "new" ELSE "found", l |-> l]
    /\ lineQueue' = Tail(lineQueue)
    /\ UNCHANGED <<lineKey, crashed, sent, loop, accStats, flush, stop, inputChan, wiped, overlapped>>

\* Accumulate, and a new item is put into the map.  An item that a reset took
\* out of the map since is nobody's any more.
Accumulate ==
    /\ cur # NoLine
    /\ IF cur.at = "forgotten"
       THEN wiped' = wiped \cup {cur.l} /\ UNCHANGED accStats
       ELSE accStats' = [accStats EXCEPT ![lineKey[cur.l]] = @ \cup {cur.l}] /\ UNCHANGED wiped
    /\ cur' = NoLine
    /\ UNCHANGED <<lineKey, crashed, sent, lineQueue, loop, flush, stop, inputChan, overlapped>>

\* A tick of the timer starts a goroutine for FlushAndPost.
FlushTick(f) ==
    /\ loop = "run" /\ cur = NoLine /\ flush[f].at = "idle"
    /\ flush' = [flush EXCEPT ![f].at = "start"]
    /\ UNCHANGED <<lineKey, crashed, sent, lineQueue, loop, cur, accStats, stop, inputChan, wiped, overlapped>>

\* Shutdown was sent: the loop returns, and its deferred call closes LineQueue.
LoopEnds ==
    /\ loop = "run" /\ cur = NoLine /\ stop # "no"
    /\ loop' = "ended"
    /\ UNCHANGED <<lineKey, crashed, sent, lineQueue, cur, accStats, flush, stop, inputChan, wiped, overlapped>>

-----------------------------------------------------------------------------
(* FlushAndPost, in a goroutine per tick and in Stop.                      *)

LinesIn(stats) == {p[1] : p \in UNION {s.c : s \in stats}}
Held == UNION {accStats[mk] : mk \in AccKeys}

\* Copies of items that are still in the map.
Copied == UNION {flush[f].list : f \in {g \in EveryFlusher : flush[g].at = "copied"}}

\* FlushList copies every item under the read lock ...
FlushList(f) ==
    /\ flush[f].at = "start"
    /\ LET twice == {l \in Held : l \in LinesIn(Copied)} IN
       /\ Cardinality(twice) <= MaxTwice
       /\ overlapped' = (overlapped \/ twice # {})
    /\ flush' = [flush EXCEPT ![f] =
           [at |-> "copied",
            list |-> {Stat(mk, accStats[mk], f) : mk \in {x \in AccKeys : accStats[x] # {}}}]]
    /\ UNCHANGED <<lineKey, crashed, sent, lineQueue, loop, cur, accStats, stop, inputChan, wiped>>

\* ... and Reset empties the map under the write lock, with what came between.
Reset(f) ==
    /\ flush[f].at = "copied"
    /\ flush' = [flush EXCEPT ![f].at = "push"]
    /\ accStats' = [mk \in AccKeys |-> {}]
    /\ wiped' = wiped \cup (Held \ LinesIn(Copied))
    /\ cur' = IF cur.at = "found" THEN [cur EXCEPT !.at = "forgotten"] ELSE cur
    /\ UNCHANGED <<lineKey, crashed, sent, lineQueue, loop, stop, inputChan, overlapped>>

\* PushStat: the copies go to the aggregator loop, in the map's random order.
PushStat(f) ==
    /\ flush[f].at = "push" /\ Len(inputChan) < InputLen
    /\ \E s \in flush[f].list :
           /\ inputChan' = Append(inputChan, s)
           /\ flush' = [flush EXCEPT ![f].list = @ \ {s}]
    /\ UNCHANGED <<lineKey, crashed, sent, lineQueue, loop, cur, accStats, stop, wiped, overlapped>>

FlushEnds(f) ==
    /\ flush[f] = [at |-> "push", list |-> {}]
    /\ flush' = [flush EXCEPT ![f].at = IF f = Stopper THEN "done" ELSE "idle"]
    /\ UNCHANGED <<lineKey, crashed, sent, lineQueue, loop, cur, accStats, stop, inputChan, wiped, overlapped>>

-----------------------------------------------------------------------------
\* Mutant: the aggregator loop is stopped before the last flush.
StopAggregatorsFirst ==
    /\ stop = "no"
    /\ stop' = "told"
    /\ flush' = [flush EXCEPT ![Stopper].at = "start"]
    /\ UNCHANGED <<lineKey, crashed, sent, lineQueue, loop, cur, accStats, inputChan, wiped, overlapped>>

\* Stop: new lines are refused, the loop is told, and a last flush begins, ...
Stop ==
    /\ stop = "no"
    /\ stop' = "flush"
    /\ flush' = [flush EXCEPT ![Stopper].at = "start"]
    /\ UNCHANGED <<lineKey, crashed, sent, lineQueue, loop, cur, accStats, inputChan, wiped, overlapped>>

\* ... after which AggregateLoop.Stop stops the dispatcher and tells the loopers.
StopAggregators ==
    /\ stop = "flush" /\ flush[Stopper].at = "done"
    /\ stop' = "told"
    /\ UNCHANGED <<crashed, accVars, inputChan>>

\* What the goroutines of the accumulator do by themselves.
LoopStep == TakeLine \/ Accumulate \/ LoopEnds
FlushStep(f) == FlushList(f) \/ Reset(f) \/ PushStat(f) \/ FlushEnds(f)

AccNext ==
    \/ \E l \in Lines : ProcessLine(l) \/ ProcessLinePanics(l)
    \/ LoopStep
    \/ \E f \in Flushers : FlushTick(f)
    \/ \E f \in EveryFlusher : FlushStep(f)
    \/ Stop \/ StopAggregators
=============================================================================
