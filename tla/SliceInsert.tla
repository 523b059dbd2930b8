---------------------------- MODULE SliceInsert ----------------------------
(***************************************************************************)
(* The insert blast of writeSlice in cassandra_log.go: the loop goroutine  *)
(* feeds the series of one chunk to a few worker goroutines over tsChan,   *)
(* waits on a WaitGroup for all of them, and then purges the chunk's       *)
(* sequence from the log.                                                  *)
(*                                                                         *)
(* The workers share ONE variable err, declared by the loop: each assigns  *)
(* the result of its insert to it and reads it back in later statements,   *)
(* so a worker can read another's result.  The loop assigns the result of  *)
(* the purge to it too, while workers may still be at their last test.     *)
(* The model keeps each read and each write of err as a step of its own.   *)
(***************************************************************************)
EXTENDS Integers, FiniteSets

CONSTANTS
    Series,      \* the series of the chunk: toLog.Slice.AllSeries()
    Workers,     \* CASSANDRA_LOG_DEFAULT_METRIC_WORKERS goroutines
    MaxFails,    \* bound: insert attempts and purges that fail
    MayGiveUp    \* whether the backoff may run out of retries

ASSUME WorkersAssumption == IsFiniteSet(Series) /\ IsFiniteSet(Workers) /\ Workers # {}
ASSUME FailsAssumption == MaxFails \in Nat /\ MayGiveUp \in BOOLEAN

None == "none"       \* the worker holds no series
ASSUME NoneAssumption == None \notin Series

VARIABLES
    toFeed,      \* series the loop has yet to send
    announced,   \* the series waitG.Add(1) was called for, not yet in tsChan
    tsChan,      \* series in the channel
    waitG,       \* the WaitGroup's counter
    loop,        \* the loop: "feed", "purge", and "purged" or "kept" after the DELETE
    err,         \* the shared error: TRUE when not nil
    pc, ts,      \* per worker: control point and series held
    result,      \* per worker: what backoffFunc returned
    inserted,    \* series in the database
    givenUp,     \* series whose retries ran out
    fails,
    failed       \* history: series an insert of which has failed

feeder == <<toFeed, announced, loop>>
vars == <<toFeed, announced, tsChan, waitG, loop, err, pc, ts, result, inserted,
          givenUp, fails, failed>>

Init ==
    /\ toFeed = Series /\ announced = {} /\ tsChan = {} /\ waitG = 0 /\ loop = "feed"
    /\ err = FALSE
    /\ pc = [w \in Workers |-> "take"] /\ ts = [w \in Workers |-> None]
    /\ result = [w \in Workers |-> FALSE]
    /\ inserted = {} /\ givenUp = {} /\ fails = 0 /\ failed = {}

-----------------------------------------------------------------------------
(* The loop goroutine.                                                      *)

\* Mutant: the series is not counted.
AnnounceUncounted(s) ==
    /\ loop = "feed" /\ announced = {} /\ s \in toFeed
    /\ toFeed' = toFeed \ {s}
    /\ announced' = {s}
    /\ UNCHANGED <<tsChan, waitG, loop, err, pc, ts, result, inserted,
                   givenUp, fails, failed>>

\* Mutant: the series is counted twice.
AnnounceTwice(s) ==
    /\ loop = "feed" /\ announced = {} /\ s \in toFeed
    /\ toFeed' = toFeed \ {s}
    /\ announced' = {s}
    /\ waitG' = waitG + 2
    /\ UNCHANGED <<tsChan, loop, err, pc, ts, result, inserted, givenUp, fails, failed>>

Announce(s) ==
    /\ loop = "feed" /\ announced = {} /\ s \in toFeed
    /\ toFeed' = toFeed \ {s}
    /\ announced' = {s}
    /\ waitG' = waitG + 1
    /\ UNCHANGED <<tsChan, loop, err, pc, ts, result, inserted, givenUp, fails, failed>>

\* tsChan holds as many series as there are workers.
Feed(s) ==
    /\ s \in announced
    /\ Cardinality(tsChan) < Cardinality(Workers)
    /\ announced' = {}
    /\ tsChan' = tsChan \cup {s}
    /\ UNCHANGED <<toFeed, waitG, loop, err, pc, ts, result, inserted,
                   givenUp, fails, failed>>

\* waitG.Wait returns and the channel is closed ...
Wait ==
    /\ loop = "feed" /\ toFeed = {} /\ announced = {}
    /\ waitG = 0
    /\ loop' = "purge"
    /\ UNCHANGED <<toFeed, announced, tsChan, waitG, err, pc, ts, result, inserted,
                   givenUp, fails, failed>>

\* ... and the sequence is deleted from the log: err = Query(...).Exec()
Purge ==
    /\ loop = "purge"
    /\ \/ loop' = "purged" /\ err' = FALSE /\ UNCHANGED fails
       \/ loop' = "kept" /\ err' = TRUE /\ fails < MaxFails /\ fails' = fails + 1
    /\ UNCHANGED <<toFeed, announced, tsChan, waitG, pc, ts, result, inserted,
                   givenUp, failed>>

-----------------------------------------------------------------------------
(* The workers.                                                             *)

Goto(w, label) == pc' = [pc EXCEPT ![w] = label]

Take(w) ==
    /\ pc[w] = "take"
    /\ \E s \in tsChan :
         /\ tsChan' = tsChan \ {s}
         /\ ts' = [ts EXCEPT ![w] = s]
    /\ Goto(w, "insert")
    /\ UNCHANGED <<waitG, err, result, inserted, givenUp, fails, failed>>
    /\ UNCHANGED feeder

\* range over the closed, empty channel ends
Leave(w) ==
    /\ pc[w] = "take" /\ loop # "feed" /\ tsChan = {}
    /\ Goto(w, "left")
    /\ UNCHANGED <<tsChan, waitG, err, ts, result, inserted, givenUp, fails, failed>>
    /\ UNCHANGED feeder

\* err = cass.doInsert(ts)
Insert(w) ==
    /\ pc[w] = "insert"
    /\ \/ /\ err' = FALSE
          /\ inserted' = inserted \cup {ts[w]}
          /\ UNCHANGED <<fails, failed>>
       \/ /\ err' = TRUE
          /\ fails < MaxFails /\ fails' = fails + 1
          /\ failed' = failed \cup {ts[w]}
          /\ UNCHANGED inserted
    /\ Goto(w, "check")
    /\ UNCHANGED <<tsChan, waitG, ts, result, givenUp>>
    /\ UNCHANGED feeder

\* Mutant: an insert that succeeds is not marked done.
CheckSkipsDone(w) ==
    /\ pc[w] = "check"
    /\ result' = [result EXCEPT ![w] = FALSE]
    /\ IF err THEN Goto(w, "return") ELSE Goto(w, "assign")
    /\ UNCHANGED <<tsChan, waitG, err, ts, inserted, givenUp, fails, failed>>
    /\ UNCHANGED feeder

\* if err != nil: on the way to "return err", or waitG.Done(); return nil
Check(w) ==
    /\ pc[w] = "check"
    /\ IF err
         THEN Goto(w, "return") /\ UNCHANGED <<waitG, result>>
         ELSE /\ waitG' = waitG - 1
              /\ result' = [result EXCEPT ![w] = FALSE]
              /\ Goto(w, "assign")
    /\ UNCHANGED <<tsChan, err, ts, inserted, givenUp, fails, failed>>
    /\ UNCHANGED feeder

\* return err reads the shared variable once more; RetryNotify then retries,
\* gives up with that error, or is content with nil.
Return(w) ==
    /\ pc[w] = "return"
    /\ result' = [result EXCEPT ![w] = err]
    /\ \/ err /\ Goto(w, "insert") /\ UNCHANGED givenUp
       \/ err /\ MayGiveUp /\ Goto(w, "assign") /\ givenUp' = givenUp \cup {ts[w]}
       \/ ~err /\ Goto(w, "assign") /\ UNCHANGED givenUp
    /\ UNCHANGED <<tsChan, waitG, err, ts, inserted, fails, failed>>
    /\ UNCHANGED feeder

\* err = backoff.RetryNotify(...)
Assign(w) ==
    /\ pc[w] = "assign"
    /\ err' = result[w]
    /\ Goto(w, "done")
    /\ UNCHANGED <<tsChan, waitG, ts, result, inserted, givenUp, fails, failed>>
    /\ UNCHANGED feeder

\* if err != nil { waitG.Done() }
Done(w) ==
    /\ pc[w] = "done"
    /\ waitG' = IF err THEN waitG - 1 ELSE waitG
    /\ ts' = [ts EXCEPT ![w] = None]
    /\ Goto(w, "take")
    /\ UNCHANGED <<tsChan, err, result, inserted, givenUp, fails, failed>>
    /\ UNCHANGED feeder

-----------------------------------------------------------------------------
\* A WaitGroup whose counter drops below zero panics and ends the process.
Panicked == waitG < 0

LoopStep == ~Panicked /\ (Wait \/ Purge \/ \E s \in Series : Announce(s) \/ Feed(s))
WorkerStep(w) ==
    /\ ~Panicked
    /\ Take(w) \/ Leave(w) \/ Insert(w) \/ Check(w) \/ Return(w) \/ Assign(w) \/ Done(w)
Next == LoopStep \/ \E w \in Workers : WorkerStep(w)

Spec == Init /\ [][Next]_vars
LiveSpec == Spec /\ WF_vars(LoopStep) /\ \A w \in Workers : WF_vars(WorkerStep(w))

-----------------------------------------------------------------------------
TypeOK ==
    /\ toFeed \subseteq Series /\ announced \subseteq Series /\ tsChan \subseteq Series
    /\ waitG \in -1..Cardinality(Series) /\ loop \in {"feed", "purge", "purged", "kept"}
    /\ err \in BOOLEAN
    /\ pc \in [Workers -> {"take", "insert", "check", "return", "assign", "done", "left"}]
    /\ ts \in [Workers -> Series \cup {None}] /\ result \in [Workers -> BOOLEAN]
    /\ inserted \subseteq Series /\ givenUp \subseteq Series
    /\ fails \in Nat /\ failed \subseteq Series

\* The series that are still somebody's to do: counted in the WaitGroup and
\* not yet marked done.
Open ==
    announced \cup tsChan \cup
    {ts[w] : w \in {v \in Workers : pc[v] \in {"insert", "check", "return"}}} \cup
    {ts[w] : w \in {v \in Workers : pc[v] \in {"assign", "done"} /\ result[v]}}

\* Until an insert or the purge fails, the WaitGroup's counter is the number of
\* series still to be inserted: Wait cannot return early, and Done cannot take
\* the counter below zero, which panics.  (A purge that fails is enough for the
\* panic: a worker that has marked its last series done, and still has to test
\* err, marks it again.)
WaitCountsOpen == fails = 0 => waitG = Cardinality(Open)

\* "we really did write all the series before nuking the log", as long as no
\* insert has failed: the feed, the channel and the WaitGroup let the loop get to
\* the purge only when every series is in the database, and a purge that fails
\* changes nothing about that.
WrittenBeforePurge == failed = {} /\ loop # "feed" => Series \subseteq inserted

\* As long as no insert and no purge fails, the loop gets the log purged: no
\* worker leaves writeSlice waiting for ever.
PurgeReached == [](fails = 0) => <>(loop = "purged")

-----------------------------------------------------------------------------
(* What the comment in writeSlice says, where the code differs.             *)

\* "need to 'know' we really did write all the series before nuking the log":
\* as long as no insert runs out of retries, all series are written when the
\* log is purged.
AllWrittenBeforePurge == loop = "purged" => Series \subseteq inserted

\* The log is nuked once all series are written, so as long as no insert runs
\* out of retries the loop either gets there or the process is gone.
WaitEnds == <>(loop # "feed" \/ Panicked)
=============================================================================
