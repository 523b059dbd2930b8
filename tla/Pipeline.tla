------------------------------ MODULE Pipeline ------------------------------
(***************************************************************************)
(* From a line to metrics.Write: an accumulator and its aggregator loop,   *)
(* joined by InputChan and by Stop.                                        *)
(***************************************************************************)
EXTENDS AggLoop

vars == <<crashed, accVars, stop, inputChan, aggVars>>

Init == crashed = FALSE /\ stop = "no" /\ AccInit /\ AggInit

Next ==
    /\ ~crashed
    /\ \/ AccNext /\ UNCHANGED aggVars
       \/ AggNext

Spec == Init /\ [][Next]_vars

\* The aggregator loop, or the writer loop, was not told to stop.
Running == ~crashed /\ stop \in {"no", "flush"}
Writing == ~crashed /\ stop # "done"

Up == ~crashed /\ UNCHANGED aggVars

\* Goroutines and timers go on.  Nobody must send a line or call Stop, and a loop
\* that was told to stop is owed no step.
LiveSpec ==
    /\ Spec
    /\ WF_vars(Up /\ (TakeLine \/ Accumulate))
    /\ \A f \in Flushers : WF_vars(Up /\ FlushTick(f))
    /\ \A f \in EveryFlusher : WF_vars(Up /\ FlushStep(f))
    /\ WF_vars(~crashed /\ ((StopAggregators /\ UNCHANGED aggVars) \/ StopWriter))
    /\ WF_vars(Running /\ startInputLooper) /\ WF_vars(Running /\ AddStep)
    /\ WF_vars(Running /\ WriteTick) /\ WF_vars(~crashed /\ (post \/ postBails))
    /\ WF_vars(Writing /\ procLoop) /\ WF_vars(Writing /\ (processQueue \/ Poll))

-----------------------------------------------------------------------------
(* Where a line can be.                                                    *)

Contents(m) == UNION {m[mk].c : mk \in AggKeys}
LinesOf(pairs) == {p[1] : p \in pairs}

\* What the stats between the flushes of the accumulator and the ticks hold.
Underway ==
    (UNION {s.c : s \in Range(inputChan) \cup Range(jobs)})
        \cup (IF adding = NoAdd THEN {} ELSE adding.s.c) \cup Contents(items)
Flushed == UNION {Contents(flushed[n]) : n \in DOMAIN flushed}
Written == UNION {w.c : w \in Range(written)}
InAccumulator ==
    Range(lineQueue) \cup (IF cur = NoLine THEN {} ELSE {cur.l})
        \cup Held \cup (UNION {LinesIn(flush[f].list) : f \in EveryFlusher})

\* Every line that was taken is somewhere between the line queue and the
\* aggregator, or was handed over in a tick, or a flush of the accumulator wiped
\* it out (FlushList and Reset are two critical sections): up to the tick no other
\* step drops a line.  What becomes of a tick is LineIsWritten's.
NoLineVanishes ==
    \A l \in sent :
        l \in InAccumulator \cup wiped \cup LinesOf(Underway \cup Flushed)

\* The copies of a line that were counted: one for each flush and each item.
Copies(l) == {x \in (DOMAIN flushed) \X AggKeys \X EveryFlusher : <<l, x[3]>> \in flushed[x[1]][x[2]].c}

\* No line is counted twice in what is posted to the writer, unless two flushes
\* of the accumulator overlapped (a slow one and the next, or Stop's own), and
\* what a writer was given holds no line that was dropped.
NoLineTwice ==
    /\ ~overlapped => \A l \in Lines : Cardinality(Copies(l)) <= 1
    /\ \A i \in DOMAIN written : <<written[i].n, written[i].mk>> \notin full

\* The writer gets the items of one tick after those of the tick before, and the
\* items of a tick by time bucket, each of them once: "to ensure time order of inputs,
\* this cannot be a go routine".
WrittenInOrder ==
    \A i, j \in DOMAIN written : i < j =>
        \/ written[i].n < written[j].n
        \/ /\ written[i].n = written[j].n /\ written[i].mk # written[j].mk
           /\ written[i].mk[2] <= written[j].mk[2]

\* A line that was counted too late: its item had been written already.
Late == UNION {flushed[w.n][w.mk].c \ w.c : w \in Range(written)}
Dropped == UNION {flushed[e[1]][e[2]].c : e \in full}

\* While the process runs, a line that was taken reaches metrics.Write, or is
\* lost in one of the three ways there are: a flush wiped it out, a full writer
\* or queue refused its item, or Add counted it in an item already written.
LineIsWritten ==
    \A l \in Lines :
        l \in sent ~>
            (crashed \/ stop # "no" \/ l \in wiped \cup LinesOf(Written \cup Late \cup Dropped))

\* Stop returns: its last flush finds room in InputChan, because the aggregator
\* loop is stopped only after it.
StopReturns == stop # "no" ~> crashed \/ (stop = "done" /\ flush[Stopper].at = "done")
=============================================================================
