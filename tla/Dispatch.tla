------------------------------ MODULE Dispatch ------------------------------
(***************************************************************************)
(* Package dispatch: a queue of jobs, worker goroutines that register with *)
(* a pool, and a dispatcher goroutine that hands the next job to the next  *)
(* registered worker.  A job that still fails after a minute of retries is *)
(* put back on the queue, which only the dispatcher drains.                *)
(*                                                                         *)
(* BackgroundRun has no caller and is left out.  A nil job, which ends a   *)
(* worker, is never added.                                                 *)
(***************************************************************************)
EXTENDS Naturals, Sequences, FiniteSets

CONSTANTS
    Jobs,        \* the jobs clients add, each once
    NumWorkers,  \* numworkers, also the capacity of the pool
    QueueLength, \* the capacity of the job queue
    MaxFails,    \* bound: how often a DoWork gives up
    NoJob

ASSUME DispatchAssumption ==
    /\ NumWorkers \in Nat \ {0}
    /\ QueueLength \in Nat \ {0}
    /\ MaxFails \in Nat
    /\ NoJob \notin Jobs

Workers == 1..NumWorkers

VARIABLES
    notAdded,    \* jobs no client has added
    jobQueue,    \* the buffered channel of jobs
    workPool,    \* the buffered channel of registered workers
    dispatcher,  \* "select", "wait", "hand", "stop", "gone"
    taken,       \* the job the dispatcher holds
    chosen,      \* the worker it hands the job to, or the next one it stops
    worker,      \* each worker: "register", "idle", "work", "requeue", "gone"
    job,         \* the job each worker holds
    done,        \* jobs whose DoWork returned nil
    stop,        \* Stop: "no", "sending", "returned"
    fails

clients == <<notAdded, stop>>
dispatching == <<dispatcher, taken, chosen>>
working == <<worker, job, done, fails>>
vars == <<notAdded, jobQueue, workPool, dispatcher, taken, chosen, worker, job, done, stop, fails>>

\* Run: the workers and the dispatcher are started.
Init ==
    /\ notAdded = Jobs /\ jobQueue = <<>> /\ workPool = <<>>
    /\ dispatcher = "select" /\ taken = NoJob /\ chosen = 1
    /\ worker = [w \in Workers |-> "register"] /\ job = [w \in Workers |-> NoJob]
    /\ done = {} /\ stop = "no" /\ fails = 0

-----------------------------------------------------------------------------
(* Clients.                                                                 *)

Add(j) ==
    /\ j \in notAdded /\ Len(jobQueue) < QueueLength
    /\ notAdded' = notAdded \ {j}
    /\ jobQueue' = Append(jobQueue, j)
    /\ UNCHANGED <<workPool, dispatching, working, stop>>

\* Stop sends on the unbuffered channel shutdown, and returns when the
\* dispatcher receives.
Stop ==
    /\ stop = "no"
    /\ stop' = "sending"
    /\ UNCHANGED <<notAdded, jobQueue, workPool, dispatching, working>>

-----------------------------------------------------------------------------
(* The dispatcher.                                                          *)

TakeJob ==
    /\ dispatcher = "select" /\ jobQueue # <<>>
    /\ dispatcher' = "wait"
    /\ taken' = Head(jobQueue)
    /\ jobQueue' = Tail(jobQueue)
    /\ UNCHANGED <<clients, workPool, chosen, working>>

\* Mutant: the dispatcher looks at the first worker and leaves it in the pool.
TakeWorkerPeeks ==
    /\ dispatcher = "wait" /\ workPool # <<>>
    /\ dispatcher' = "hand"
    /\ chosen' = Head(workPool)
    /\ UNCHANGED <<clients, jobQueue, workPool, taken, working>>

TakeWorker ==
    /\ dispatcher = "wait" /\ workPool # <<>>
    /\ dispatcher' = "hand"
    /\ chosen' = Head(workPool)
    /\ workPool' = Tail(workPool)
    /\ UNCHANGED <<clients, jobQueue, taken, working>>

\* The worker's job channel is unbuffered: both sides move.
HandJob ==
    /\ dispatcher = "hand" /\ worker[chosen] = "idle"
    /\ dispatcher' = "select"
    /\ taken' = NoJob
    /\ worker' = [worker EXCEPT ![chosen] = "work"]
    /\ job' = [job EXCEPT ![chosen] = taken]
    /\ UNCHANGED <<clients, jobQueue, workPool, chosen, done, fails>>

Shutdown ==
    /\ dispatcher = "select" /\ stop = "sending"
    /\ stop' = "returned"
    /\ dispatcher' = "stop"
    /\ chosen' = 1
    /\ UNCHANGED <<notAdded, jobQueue, workPool, taken, working>>

\* Mutant: the quit message does not wait for the worker to be idle.
StopWorkerNow ==
    /\ dispatcher = "stop"
    /\ worker' = [worker EXCEPT ![chosen] = "gone"]
    /\ IF chosen = NumWorkers
       THEN dispatcher' = "gone" /\ UNCHANGED chosen
       ELSE chosen' = chosen + 1 /\ UNCHANGED dispatcher
    /\ UNCHANGED <<clients, jobQueue, workPool, taken, job, done, fails>>

\* The quit channel of each worker in turn, unbuffered as well.
StopWorker ==
    /\ dispatcher = "stop" /\ worker[chosen] = "idle"
    /\ worker' = [worker EXCEPT ![chosen] = "gone"]
    /\ IF chosen = NumWorkers
       THEN dispatcher' = "gone" /\ UNCHANGED chosen
       ELSE chosen' = chosen + 1 /\ UNCHANGED dispatcher
    /\ UNCHANGED <<clients, jobQueue, workPool, taken, job, done, fails>>

-----------------------------------------------------------------------------
(* A worker.                                                                *)

Register(w) ==
    /\ worker[w] = "register" /\ Len(workPool) < NumWorkers
    /\ worker' = [worker EXCEPT ![w] = "idle"]
    /\ workPool' = Append(workPool, w)
    /\ UNCHANGED <<clients, jobQueue, dispatching, job, done, fails>>

DoWork(w) ==
    /\ worker[w] = "work"
    /\ worker' = [worker EXCEPT ![w] = "register"]
    /\ job' = [job EXCEPT ![w] = NoJob]
    /\ done' = done \cup {job[w]}
    /\ UNCHANGED <<clients, jobQueue, workPool, dispatching, fails>>

\* Mutant: a job whose retries are used up is forgotten.
DoWorkDrops(w) ==
    /\ worker[w] = "work" /\ fails < MaxFails
    /\ worker' = [worker EXCEPT ![w] = "register"]
    /\ job' = [job EXCEPT ![w] = NoJob]
    /\ fails' = fails + 1
    /\ UNCHANGED <<clients, jobQueue, workPool, dispatching, done>>

\* Mutant: the worker returns when its job fails.
DoWorkEnds(w) ==
    /\ worker[w] = "work" /\ fails < MaxFails
    /\ worker' = [worker EXCEPT ![w] = "gone"]
    /\ fails' = fails + 1
    /\ UNCHANGED <<clients, jobQueue, workPool, dispatching, job, done>>

\* The retries are used up.
DoWorkFails(w) ==
    /\ worker[w] = "work" /\ fails < MaxFails
    /\ worker' = [worker EXCEPT ![w] = "requeue"]
    /\ fails' = fails + 1
    /\ UNCHANGED <<clients, jobQueue, workPool, dispatching, job, done>>

\* Mutant: the failed job is put in front of the others.
RequeueFirst(w) ==
    /\ worker[w] = "requeue" /\ Len(jobQueue) < QueueLength
    /\ worker' = [worker EXCEPT ![w] = "register"]
    /\ jobQueue' = <<job[w]>> \o jobQueue
    /\ job' = [job EXCEPT ![w] = NoJob]
    /\ UNCHANGED <<clients, workPool, dispatching, done, fails>>

\* Mutant: the send waits for an empty queue.
RequeueWhenEmpty(w) ==
    /\ worker[w] = "requeue" /\ jobQueue = <<>>
    /\ worker' = [worker EXCEPT ![w] = "register"]
    /\ jobQueue' = Append(jobQueue, job[w])
    /\ job' = [job EXCEPT ![w] = NoJob]
    /\ UNCHANGED <<clients, workPool, dispatching, done, fails>>

Requeue(w) ==
    /\ worker[w] = "requeue" /\ Len(jobQueue) < QueueLength
    /\ worker' = [worker EXCEPT ![w] = "register"]
    /\ jobQueue' = Append(jobQueue, job[w])
    /\ job' = [job EXCEPT ![w] = NoJob]
    /\ UNCHANGED <<clients, workPool, dispatching, done, fails>>

DispatcherStep == TakeJob \/ TakeWorker \/ HandJob \/ Shutdown \/ StopWorker
WorkerStep(w) == Register(w) \/ DoWork(w) \/ DoWorkFails(w) \/ Requeue(w)
Next ==
    \/ \E j \in Jobs : Add(j)
    \/ Stop
    \/ DispatcherStep
    \/ \E w \in Workers : WorkerStep(w)

Spec == Init /\ [][Next]_vars

\* Every goroutine that can run does.  The select of the dispatcher picks at
\* random among what is ready, so it does not pass over shutdown for ever.
LiveSpec ==
    /\ Spec
    /\ WF_vars(DispatcherStep) /\ SF_vars(Shutdown)
    /\ \A w \in Workers : WF_vars(WorkerStep(w))

-----------------------------------------------------------------------------
\* v is one of the elements of s.
Has(s, v) == \E i \in 1..Len(s) : s[i] = v

TypeOK ==
    /\ notAdded \subseteq Jobs /\ done \subseteq Jobs
    /\ jobQueue \in Seq(Jobs) /\ Len(jobQueue) <= QueueLength
    /\ workPool \in Seq(Workers)
    /\ dispatcher \in {"select", "wait", "hand", "stop", "gone"}
    /\ taken \in Jobs \cup {NoJob} /\ chosen \in Workers
    /\ worker \in [Workers -> {"register", "idle", "work", "requeue", "gone"}]
    /\ job \in [Workers -> Jobs \cup {NoJob}]
    /\ stop \in {"no", "sending", "returned"} /\ fails \in 0..MaxFails

\* A worker's channel is in the pool, or in the dispatcher's hand, once while
\* the worker waits for a job and never while it works: the dispatcher never
\* gives a job to a worker that has one, and never waits for the one it chose.
PoolHoldsIdle ==
    /\ \A i, k \in 1..Len(workPool) : workPool[i] = workPool[k] => i = k
    /\ \A w \in Workers :
         Has(workPool, w) \/ (dispatcher = "hand" /\ chosen = w)
             <=> worker[w] \in {"idle", "gone"}
    /\ dispatcher = "hand" => worker[chosen] = "idle" /\ ~Has(workPool, chosen)

\* The jobs that were added and are not done.
Open == Jobs \ (notAdded \cup done)

\* What a stop leaves behind: no worker runs, and every job that was added and
\* not done is still in the queue, where nobody will take it.
StopLeavesTheQueue ==
    dispatcher = "gone" =>
        /\ \A w \in Workers : worker[w] = "gone" /\ job[w] = NoJob
        /\ \A j \in Open : Has(jobQueue, j)

\* Why nothing is left but the queue: who is in the middle of a job holds it,
\* workers are stopped in turn, and no open job is out of everyone's hands.
InHand ==
    /\ taken # NoJob <=> dispatcher \in {"wait", "hand"}
    /\ \A w \in Workers : job[w] # NoJob <=> worker[w] \in {"work", "requeue"}
    /\ \A w \in Workers : worker[w] = "gone" <=>
         dispatcher = "gone" \/ (dispatcher = "stop" /\ w < chosen)
    /\ \A j \in Open : Has(jobQueue, j) \/ taken = j \/ \E w \in Workers : job[w] = j

DispatchInv == TypeOK /\ PoolHoldsIdle /\ InHand

\* An open job is in one place: once in the queue, or in one goroutine's hands.
JobsApart ==
    /\ \A i, k \in 1..Len(jobQueue) : jobQueue[i] = jobQueue[k] => i = k
    /\ ~Has(jobQueue, taken)
    /\ \A w \in Workers : job[w] # NoJob =>
         /\ job[w] \in Open /\ job[w] # taken /\ ~Has(jobQueue, job[w])
         /\ \A v \in Workers : job[v] = job[w] => v = w
    /\ taken \in Open \cup {NoJob}
    /\ \A j \in Jobs : Has(jobQueue, j) => j \in Open
    /\ notAdded \cap done = {}

\* No goroutine of the package can go on: the dispatcher waits for a job or a
\* shutdown, for a worker in the pool, or for the one it chose to receive; the
\* workers wait for it, or for room in the pool or in the queue.
Wedged ==
    /\ dispatcher = "select" => jobQueue = <<>> /\ stop # "sending"
    /\ dispatcher = "wait" => workPool = <<>>
    /\ dispatcher \in {"hand", "stop"} => worker[chosen] # "idle"
    /\ \A w \in Workers :
         /\ worker[w] = "register" => Len(workPool) >= NumWorkers
         /\ worker[w] # "work"
         /\ worker[w] = "requeue" => Len(jobQueue) >= QueueLength

\* Those are the states that no goroutine has a step from.
WedgedIsStuck == Wedged <=> ~ENABLED (DispatcherStep \/ \E w \in Workers : WorkerStep(w))

\* The dispatcher and the workers wait for each other for ever only when every
\* worker is putting a failed job back on a full queue and the dispatcher holds
\* one more (or, in a stop, when the queue is full): jobs beyond what the queue
\* can hold.
WedgeNeedsAFullHouse ==
    LET Beyond == IF dispatcher = "stop" THEN 0 ELSE NumWorkers
    IN  Open # {} /\ dispatcher # "gone" /\ Wedged => Cardinality(Open) > QueueLength + Beyond

\* A job that was added gets done, as often as it fails, unless the dispatcher
\* is stopped or every worker waits for a full queue for ever.
JobGetsDone ==
    \/ \A j \in Jobs : j \notin notAdded ~> (j \in done \/ stop # "no")
    \/ <>[](/\ dispatcher = "wait" /\ Len(jobQueue) = QueueLength
            /\ \A w \in Workers : worker[w] = "requeue")

\* Stop returns, and all goroutines end, unless more jobs are open than the
\* queue holds.
StopEnds == stop = "sending" ~> (dispatcher = "gone" \/ Cardinality(Open) > QueueLength)

\* The job the dispatcher holds has not started; it is the next to.
Waiting == (IF taken = NoJob THEN <<>> ELSE <<taken>>) \o jobQueue
Running == [w \in {v \in Workers : job[v] # NoJob} |-> job[w]]

\* The dispatcher is a JobQueue: jobs start in the order they were queued, one
\* per worker, and none is lost or run twice without having failed.
Abstract == INSTANCE JobQueue WITH
    Slots <- Workers, unqueued <- notAdded, waiting <- Waiting, running <- Running, finished <- done

IsAJobQueue == Abstract!ASpec
=============================================================================
