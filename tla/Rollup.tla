------------------------------- MODULE Rollup -------------------------------
(***************************************************************************)
(* Triggered rollups: a chunk of the finest resolution, once stored, makes *)
(* RollupMetric compute rows of the coarser resolutions.  In mode "blast"  *)
(* the chunk itself is a job of the dispatcher.  In mode "queue" only the  *)
(* series and the start of the chunk are queued, once per series, and the  *)
(* worker reads all chunks from that start on back from the database.      *)
(*                                                                         *)
(* Chunks of a series are numbered in the order of their times.  Resampling*)
(* is abstracted: a rolled-up row stands for the chunks it was made from.  *)
(* The dispatcher of mode "blast" is module Dispatch: here a queue.  The   *)
(* database is external; its calls may fail, MaxFaults times while it is   *)
(* open, and always once Stop has closed it.                               *)
(***************************************************************************)
EXTENDS Naturals, Sequences, FiniteSets, Functions

CONSTANTS
    Series, NumChunks,  \* series, and the chunks of each
    Resolutions,        \* the coarser resolutions, a sequence
    Modes,              \* the run modes: "blast", "queue"
    Workers,            \* the goroutines of queueLoop, or of the dispatcher
    MaxFaults           \* bound: database calls that fail for good

ASSUME RollupAssumption ==
    /\ {NumChunks, MaxFaults, Len(Resolutions)} \subseteq Nat
    /\ Modes \subseteq {"blast", "queue"}

Chunks == 1..NumChunks
Steps == 1..Len(Resolutions)
NoItem == <<>>

VARIABLES
    mode,
    stored,    \* chunks in the table of the finest resolution
    adding,    \* chunks stored and not yet handed to Add
    queue,     \* rollupQueue, or the dispatcher's jobs: series and first chunk
    popper,    \* popQueue: "select", "pop", "send" or "gone"
    popped,    \* the item popQueue is sending
    consume,   \* the channel consumeQueue, of capacity 1
    closed,    \* consumeQueue is closed
    worker,    \* each worker: where it is, its item, the chunks it got, its step
    rolled,    \* the chunks in rows of each coarser resolution
    missed,    \* history: chunks a failed call kept out of a resolution
    backward,  \* history: chunks Add skipped for an item that begins later
    stop,      \* "no", "sent": Stop has been called, "closed": the connection
    faults

vars == <<mode, stored, adding, queue, popper, popped, consume, closed, worker,
          rolled, missed, backward, stop, faults>>
pipe == <<queue, popper, popped, consume, closed>>
done == <<rolled, missed, faults>>

All == Series \X Chunks
Ready == [at |-> "wait", item |-> NoItem, got |-> {}, step |-> 1]

Init ==
    /\ mode \in Modes
    /\ stored = {} /\ adding = {} /\ queue = <<>> /\ popper = "select" /\ popped = NoItem
    /\ consume = <<>> /\ closed = FALSE
    /\ worker = [w \in Workers |-> Ready]
    /\ rolled = [i \in Steps |-> {}] /\ missed = [i \in Steps |-> {}] /\ backward = {}
    /\ stop = "no" /\ faults = 0

\* A database call fails.
Fails ==
    \/ stop = "closed" /\ UNCHANGED faults
    \/ stop # "closed" /\ faults < MaxFaults /\ faults' = faults + 1

-----------------------------------------------------------------------------
(* doInsert of the writer: the chunk is stored, and then Add is called.  The*)
(* chunks of one series are stored one after the other, in any order.       *)

InsertSeries(x) ==
    /\ stop = "no" /\ x \notin stored
    /\ \A y \in adding : y[1] # x[1]
    /\ stored' = stored \cup {x} /\ adding' = adding \cup {x}
    /\ UNCHANGED <<mode, pipe, worker, done, backward, stop>>

\* Mutant: the series stays in the queue's index until its item is done.
QueuedOrHeld(s) ==
    {x \in Range(queue) \cup {popped} \cup Range(consume) \cup {worker[w].item : w \in Workers} :
        x # NoItem /\ x[1] = s}

\* inQueue.
Queued(s) == {x \in Range(queue) : x[1] = s}

\* Add: a series that is queued is not queued again.
Add(x) ==
    /\ x \in adding
    /\ adding' = adding \ {x}
    /\ IF mode = "queue" /\ Queued(x[1]) # {}
       THEN /\ UNCHANGED queue
            /\ backward' = backward \cup {y \in {x} : \E q \in Queued(x[1]) : q[2] > x[2]}
       ELSE queue' = Append(queue, x) /\ UNCHANGED backward
    /\ UNCHANGED <<mode, stored, popper, popped, consume, closed, worker, done, stop>>

-----------------------------------------------------------------------------
(* popQueue.                                                                *)

\* The select hears Stop between two items only.
select ==
    /\ popper = "select" /\ stop = "no"
    /\ popper' = "pop"
    /\ UNCHANGED <<mode, stored, adding, queue, popped, consume, closed, worker, done, backward, stop>>

\* Mutant: the workers are not told.
StopPoppingOpen ==
    /\ popper = "select" /\ stop # "no"
    /\ popper' = "gone"
    /\ UNCHANGED <<mode, stored, adding, queue, popped, consume, closed, worker, done, backward, stop>>

StopPopping ==
    /\ popper = "select" /\ stop # "no"
    /\ popper' = "gone" /\ closed' = TRUE
    /\ UNCHANGED <<mode, stored, adding, queue, popped, consume, worker, done, backward, stop>>

\* The queue of mode "queue" stays empty in mode "blast".
pop ==
    /\ popper = "pop"
    /\ IF mode = "queue" /\ queue # <<>>
       THEN popped' = Head(queue) /\ queue' = Tail(queue) /\ popper' = "send"
       ELSE popper' = "select" /\ UNCHANGED <<queue, popped>>
    /\ UNCHANGED <<mode, stored, adding, consume, closed, worker, done, backward, stop>>

\* Mutant: an item is dropped when the channel is full.
sendOrDrop ==
    /\ popper = "send"
    /\ consume' = IF consume = <<>> THEN <<popped>> ELSE consume
    /\ popped' = NoItem /\ popper' = "select"
    /\ UNCHANGED <<mode, stored, adding, queue, closed, worker, done, backward, stop>>

send ==
    /\ popper = "send" /\ consume = <<>>
    /\ consume' = <<popped>> /\ popped' = NoItem /\ popper' = "select"
    /\ UNCHANGED <<mode, stored, adding, queue, closed, worker, done, backward, stop>>

-----------------------------------------------------------------------------
(* queueLoop, and the workers of the dispatcher.                            *)

Take(w) ==
    /\ worker[w].at = "wait"
    /\ \/ /\ mode = "queue" /\ consume # <<>>
          /\ worker' = [worker EXCEPT ![w] = [Ready EXCEPT !.at = "fetch", !.item = Head(consume)]]
          /\ consume' = <<>> /\ UNCHANGED queue
       \/ /\ mode = "blast" /\ queue # <<>> /\ stop = "no"
          /\ worker' = [worker EXCEPT ![w] =
                [Ready EXCEPT !.at = "write", !.item = Head(queue), !.got = {Head(queue)}]]
          /\ queue' = Tail(queue) /\ UNCHANGED consume
    /\ UNCHANGED <<mode, stored, adding, popper, popped, closed, done, backward, stop>>

\* The rows a worker reads: all chunks from the start of its item on.
From(item) == {x \in stored : x[1] = item[1] /\ x[2] >= item[2]}

GetRangeFromDB(w) ==
    /\ worker[w].at = "fetch" /\ stop # "closed"
    /\ worker' = [worker EXCEPT ![w].at = "write", ![w].got = From(worker[w].item)]
    /\ UNCHANGED <<mode, stored, adding, pipe, done, backward, stop>>

\* A query that fails is an empty list: the item is dropped.
NoData(w) ==
    /\ worker[w].at = "fetch" /\ Fails
    /\ missed' = [i \in Steps |-> missed[i] \cup From(worker[w].item)]
    /\ worker' = [worker EXCEPT ![w] = Ready]
    /\ UNCHANGED <<mode, stored, adding, pipe, rolled, backward, stop>>

\* rollup: one resolution after the other; an insert that fails is skipped.
writeOne(w) ==
    LET i == worker[w].step IN
    /\ worker[w].at = "write"
    /\ \/ /\ stop # "closed"
          /\ rolled' = [rolled EXCEPT ![i] = @ \cup worker[w].got]
          /\ UNCHANGED <<missed, faults>>
       \/ /\ Fails
          /\ missed' = [missed EXCEPT ![i] = @ \cup worker[w].got]
          /\ UNCHANGED rolled
    /\ worker' = [worker EXCEPT ![w] = IF i = Len(Resolutions) THEN Ready ELSE [@ EXCEPT !.step = i + 1]]
    /\ UNCHANGED <<mode, stored, adding, pipe, backward, stop>>

LoopEnds(w) ==
    /\ mode = "queue" /\ worker[w].at = "wait" /\ closed /\ consume = <<>>
    /\ worker' = [worker EXCEPT ![w].at = "gone"]
    /\ UNCHANGED <<mode, stored, adding, pipe, done, backward, stop>>

-----------------------------------------------------------------------------
(* Stop of the rollup, and then of the writer, which closes the connection. *)

Stop ==
    /\ stop = "no" /\ stop' = "sent"
    /\ UNCHANGED <<mode, stored, adding, pipe, worker, done, backward>>

CloseConn ==
    /\ stop = "sent" /\ stop' = "closed"
    /\ UNCHANGED <<mode, stored, adding, pipe, worker, done, backward>>

-----------------------------------------------------------------------------

Popping == select \/ StopPopping \/ pop \/ send
Working(w) == Take(w) \/ GetRangeFromDB(w) \/ NoData(w) \/ writeOne(w) \/ LoopEnds(w)

Next ==
    \/ \E x \in All : InsertSeries(x) \/ Add(x)
    \/ Popping
    \/ \E w \in Workers : Working(w)
    \/ Stop \/ CloseConn

Spec == Init /\ [][Next]_vars

\* The goroutines are scheduled; nobody has to store a chunk or to stop.
LiveSpec ==
    /\ Spec
    /\ \A x \in All : WF_vars(Add(x))
    /\ WF_vars(Popping)
    /\ \A w \in Workers : WF_vars(Working(w))

-----------------------------------------------------------------------------
(* Properties.                                                              *)

\* An item that has not been read back yet will cover the chunk.
Covers(item, x) == item # NoItem /\ item[1] = x[1] /\ (item[2] = x[2] \/ (mode = "queue" /\ item[2] < x[2]))
Pending ==
    Range(queue) \cup {popped} \cup Range(consume)
        \cup {worker[w].item : w \in {v \in Workers : worker[v].at = "fetch"}}

\* A stored chunk is at every moment rolled up, or about to be: "if the uid is
\* still in the list it does not get re-added as it will be computed in a bit".
\* The skip is safe because the chunk is stored before Add looks at the queue
\* and pop takes the series off the index before its rows are read.  Only a
\* chunk older than the queued one, or a failed call, is left out.
NothingIsMissed ==
    \A x \in stored \ (adding \cup backward), i \in Steps :
        \/ x \in rolled[i] \cup missed[i]
        \/ \E item \in Pending : Covers(item, x)
        \/ \E w \in Workers : worker[w].at = "write" /\ x \in worker[w].got /\ worker[w].step <= i

\* A stored chunk is rolled up to every coarser resolution in the end, if no call
\* fails, it is not older than the queued one and nobody stops the writer.
ChunkIsRolledUp ==
    \A x \in All, i \in Steps :
        x \in stored ~> x \in rolled[i] \cup missed[i] \cup backward \/ stop # "no"

\* After Stop every goroutine of the queue ends, though Stop only fills the
\* buffer of consumeQueueStop and waits for nobody.
WorkersEnd ==
    (stop # "no" /\ mode = "queue") ~>
        (popper = "gone" /\ \A w \in Workers : worker[w].at = "gone")
=============================================================================
