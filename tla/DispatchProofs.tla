--------------------------- MODULE DispatchProofs ---------------------------
(***************************************************************************)
(* For any number of jobs and workers and any queue length, the dispatcher *)
(* only hands jobs to idle workers, an open job is in one place, a stop    *)
(* leaves open jobs in the queue and nowhere else, the goroutines wedge    *)
(* only when all places are full, and the whole is a JobQueue.             *)
(***************************************************************************)
EXTENDS Dispatch, SequenceTheorems, FiniteSetTheorems, TLAPS

\* What Append, Head and Tail do to the elements of a sequence.
LEMMA HasAppend ==
  ASSUME NEW S, NEW s \in Seq(S), NEW e \in S, NEW v
  PROVE  Has(Append(s, e), v) <=> Has(s, v) \/ v = e
<1>1. Len(Append(s, e)) = Len(s) + 1 /\ Len(s) \in Nat
  OBVIOUS
<1>2. \A i \in 1..Len(s) : Append(s, e)[i] = s[i]
  OBVIOUS
<1>3. Append(s, e)[Len(s) + 1] = e
  OBVIOUS
<1> QED
  BY <1>1, <1>2, <1>3, SMT DEF Has

\* A queue that is not empty is its head and its tail.
LEMMA HasTail ==
  ASSUME NEW S, NEW s \in Seq(S), s # <<>>, NEW v
  PROVE  Has(s, v) <=> v = Head(s) \/ Has(Tail(s), v)
<1>1. Len(s) \in Nat \ {0} /\ Len(Tail(s)) = Len(s) - 1
  OBVIOUS
<1>2. Head(s) = s[1]
  OBVIOUS
<1>3. \A i \in 1..(Len(s) - 1) : Tail(s)[i] = s[i + 1]
  OBVIOUS
<1>4. ASSUME NEW i \in 1..Len(s), s[i] = v, v # Head(s) PROVE Has(Tail(s), v)
  <2>1. i # 1 /\ i - 1 \in 1..(Len(s) - 1) /\ (i - 1) + 1 = i
    BY <1>1, <1>2, <1>4
  <2> QED
    BY <2>1, <1>1, <1>3, <1>4 DEF Has
<1>5. ASSUME NEW i \in 1..(Len(s) - 1), Tail(s)[i] = v PROVE Has(s, v)
  BY <1>1, <1>3, <1>5, i + 1 \in 1..Len(s) DEF Has
<1>6. v = Head(s) => Has(s, v)
  BY <1>1, <1>2 DEF Has
<1> QED
  BY <1>1, <1>4, <1>5, <1>6 DEF Has

\* No element occurs twice in s.
Distinct(s) == \A i, k \in 1..Len(s) : s[i] = s[k] => i = k

\* Register puts a worker into the pool that is not in it.
LEMMA DistinctAppend ==
  ASSUME NEW S, NEW s \in Seq(S), NEW e \in S, Distinct(s), ~Has(s, e)
  PROVE  Distinct(Append(s, e))
<1>1. Len(Append(s, e)) = Len(s) + 1 /\ Len(s) \in Nat
  OBVIOUS
<1>2. \A i \in 1..Len(s) : Append(s, e)[i] = s[i]
  OBVIOUS
<1>3. Append(s, e)[Len(s) + 1] = e
  OBVIOUS
<1> QED
  BY <1>1, <1>2, <1>3 DEF Has, Distinct

\* The dispatcher takes the first worker out of the pool.
LEMMA DistinctTail ==
  ASSUME NEW S, NEW s \in Seq(S), s # <<>>, Distinct(s)
  PROVE  Distinct(Tail(s)) /\ ~Has(Tail(s), Head(s))
<1>1. Len(s) \in Nat \ {0} /\ Len(Tail(s)) = Len(s) - 1
  OBVIOUS
<1>2. Head(s) = s[1]
  OBVIOUS
<1>3. \A i \in 1..(Len(s) - 1) : Tail(s)[i] = s[i + 1]
  OBVIOUS
<1> QED
  BY <1>1, <1>2, <1>3 DEF Has, Distinct

-----------------------------------------------------------------------------
(* The invariant.                                                           *)

\* When Run has started the goroutines nobody holds a job.
LEMMA DispatchInvInit == Init => DispatchInv
  BY DispatchAssumption, SMT
  DEF Init, DispatchInv, TypeOK, PoolHoldsIdle, InHand, Has, Open, Workers

\* A step that leaves the pool, the workers and the hand-over alone leaves
\* PoolHoldsIdle alone.
LEMMA PoolUntouched ==
  ASSUME PoolHoldsIdle, UNCHANGED <<workPool, worker, chosen>>,
         dispatcher' = "hand" <=> dispatcher = "hand"
  PROVE  PoolHoldsIdle'
  BY DEF PoolHoldsIdle, Has

\* Clients adding jobs and calling Stop.
LEMMA ClientsKeepInv == DispatchInv /\ (Stop \/ \E j \in Jobs : Add(j)) => DispatchInv'
<1> SUFFICES ASSUME DispatchInv PROVE (Stop \/ \E j \in Jobs : Add(j)) => DispatchInv'
  OBVIOUS
<1>1. TypeOK /\ PoolHoldsIdle /\ InHand
  BY DEF DispatchInv
<1>2. CASE Stop
  <2>1. PoolHoldsIdle'
    BY <1>1, <1>2, PoolUntouched DEF Stop, dispatching, working
  <2>2. TypeOK'
    BY <1>1, <1>2 DEF Stop, TypeOK, dispatching, working
  <2>3. InHand'
    BY <1>1, <1>2 DEF Stop, InHand, Open, Has, dispatching, working
  <2> QED
    BY <2>1, <2>2, <2>3 DEF DispatchInv
<1>3. ASSUME NEW j \in Jobs, Add(j) PROVE DispatchInv'
  <2>0. UNCHANGED <<workPool, dispatcher, taken, chosen, worker, job, done, fails, stop>>
    BY <1>3 DEF Add, dispatching, working
  <2>1. PoolHoldsIdle'
    BY <1>1, <2>0, PoolUntouched
  <2>2. TypeOK'
    <3>1. jobQueue' \in Seq(Jobs) /\ Len(jobQueue') = Len(jobQueue) + 1 /\ Len(jobQueue) \in Nat
      BY <1>1, <1>3, AppendProperties DEF Add, TypeOK
    <3>2. Len(jobQueue') <= QueueLength /\ notAdded' \subseteq Jobs
      BY <1>1, <1>3, <3>1, DispatchAssumption DEF Add, TypeOK
    <3> QED
      BY <1>1, <2>0, <3>1, <3>2 DEF TypeOK
  <2>3. \A v : Has(jobQueue', v) <=> Has(jobQueue, v) \/ v = j
    BY <1>1, <1>3, HasAppend DEF Add, TypeOK
  <2>4. Open' \subseteq Open \cup {j}
    BY <1>3, <2>0 DEF Add, Open
  <2>5. InHand'
    BY <1>1, <2>0, <2>3, <2>4 DEF InHand
  <2> QED
    BY <2>1, <2>2, <2>5 DEF DispatchInv
<1> QED
  BY <1>2, <1>3

\* The dispatcher taking a job and a worker, and bringing them together.
LEMMA HandingKeepsInv == DispatchInv /\ (TakeJob \/ TakeWorker \/ HandJob) => DispatchInv'
<1> SUFFICES ASSUME DispatchInv PROVE (TakeJob \/ TakeWorker \/ HandJob) => DispatchInv'
  OBVIOUS
<1>1. TypeOK /\ PoolHoldsIdle /\ InHand
  BY DEF DispatchInv
<1>2. CASE TakeJob
  <2>0. /\ UNCHANGED <<notAdded, stop, workPool, chosen, worker, job, done, fails>>
        /\ dispatcher = "select" /\ dispatcher' = "wait" /\ taken' = Head(jobQueue)
        /\ jobQueue # <<>> /\ jobQueue' = Tail(jobQueue)
    BY <1>2 DEF TakeJob, clients, working
  <2>1. PoolHoldsIdle'
    BY <1>1, <2>0, PoolUntouched
  <2>2. jobQueue' \in Seq(Jobs) /\ Len(jobQueue') <= QueueLength /\ taken' \in Jobs
    BY <1>1, <2>0, DispatchAssumption DEF TypeOK
  <2>3. TypeOK'
    BY <1>1, <2>0, <2>2 DEF TypeOK
  <2>4. \A v : Has(jobQueue, v) <=> v = taken' \/ Has(jobQueue', v)
    BY <1>1, <2>0, HasTail DEF TypeOK
  <2>5. Open' = Open /\ taken = NoJob /\ taken' # NoJob
    BY <1>1, <2>0, <2>2, DispatchAssumption DEF Open, InHand
  <2>6. ASSUME NEW j \in Open' PROVE j # NoJob
    BY DispatchAssumption DEF Open
  <2>7. InHand'
    BY <1>1, <2>0, <2>4, <2>5, <2>6 DEF InHand
  <2> QED
    BY <2>1, <2>3, <2>7 DEF DispatchInv
<1>3. CASE TakeWorker
  <2>0. /\ UNCHANGED <<notAdded, stop, jobQueue, taken, worker, job, done, fails>>
        /\ dispatcher = "wait" /\ dispatcher' = "hand" /\ chosen' = Head(workPool)
        /\ workPool # <<>> /\ workPool' = Tail(workPool)
    BY <1>3 DEF TakeWorker, clients, working
  <2>1. workPool' \in Seq(Workers) /\ chosen' \in Workers
    BY <1>1, <2>0 DEF TypeOK
  <2>2. TypeOK'
    BY <1>1, <2>0, <2>1 DEF TypeOK
  <2>3. \A v : Has(workPool, v) <=> v = chosen' \/ Has(workPool', v)
    BY <1>1, <2>0, HasTail DEF TypeOK
  <2>4. Distinct(workPool') /\ ~Has(workPool', chosen')
    BY <1>1, <2>0, DistinctTail DEF TypeOK, PoolHoldsIdle, Distinct
  <2>5. worker[chosen'] = "idle"
    BY <1>1, <2>0, <2>1, <2>3 DEF PoolHoldsIdle, InHand
  <2>6. PoolHoldsIdle'
    BY <1>1, <2>0, <2>1, <2>3, <2>4, <2>5 DEF PoolHoldsIdle, Distinct
  <2>7. InHand'
    BY <1>1, <2>0 DEF InHand, Open, Has
  <2> QED
    BY <2>2, <2>6, <2>7 DEF DispatchInv
<1>4. CASE HandJob
  <2>0. /\ UNCHANGED <<notAdded, stop, jobQueue, workPool, chosen, done, fails>>
        /\ dispatcher = "hand" /\ dispatcher' = "select" /\ taken' = NoJob
        /\ worker' = [worker EXCEPT ![chosen] = "work"] /\ job' = [job EXCEPT ![chosen] = taken]
    BY <1>4 DEF HandJob, clients
  <2>1. TypeOK'
    BY <1>1, <2>0 DEF TypeOK
  <2>2. \A v : Has(workPool', v) <=> Has(workPool, v)
    BY <2>0 DEF Has
  <2>3. PoolHoldsIdle'
    BY <1>1, <2>0, <2>2 DEF PoolHoldsIdle, TypeOK
  <2>4. taken # NoJob /\ job[chosen] = NoJob
    BY <1>1, <2>0 DEF InHand, PoolHoldsIdle, TypeOK
  <2>5. ASSUME NEW j \in Open' PROVE Has(jobQueue', j) \/ taken' = j \/ \E w \in Workers : job'[w] = j
    <3>1. j \in Open /\ j # NoJob
      BY <2>0, DispatchAssumption DEF Open
    <3>2. Has(jobQueue', j) <=> Has(jobQueue, j)
      BY <2>0 DEF Has
    <3> QED
      BY <1>1, <2>0, <2>4, <3>1, <3>2 DEF InHand, TypeOK
  <2>6. InHand'
    BY <1>1, <2>0, <2>4, <2>5 DEF InHand, TypeOK
  <2> QED
    BY <2>1, <2>3, <2>6 DEF DispatchInv
<1> QED
  BY <1>2, <1>3, <1>4

\* The dispatcher receiving the shutdown and stopping the workers in turn.
LEMMA StoppingKeepsInv == DispatchInv /\ (Shutdown \/ StopWorker) => DispatchInv'
<1> SUFFICES ASSUME DispatchInv PROVE (Shutdown \/ StopWorker) => DispatchInv'
  OBVIOUS
<1>1. TypeOK /\ PoolHoldsIdle /\ InHand
  BY DEF DispatchInv
<1>2. CASE Shutdown
  <2>0. /\ UNCHANGED <<notAdded, jobQueue, workPool, taken, worker, job, done, fails>>
        /\ dispatcher = "select" /\ dispatcher' = "stop" /\ chosen' = 1 /\ stop' = "returned"
    BY <1>2 DEF Shutdown, working
  <2>1. TypeOK'
    BY <1>1, <2>0, DispatchAssumption DEF TypeOK, Workers
  <2>2. PoolHoldsIdle'
    BY <1>1, <2>0 DEF PoolHoldsIdle, Has
  <2>3. \A w \in Workers : ~(w < 1)
    BY DispatchAssumption DEF Workers
  <2>4. InHand'
    BY <1>1, <2>0, <2>3 DEF InHand, Open, Has
  <2> QED
    BY <2>1, <2>2, <2>4 DEF DispatchInv
<1>3. CASE StopWorker
  <2>0. /\ UNCHANGED <<notAdded, stop, jobQueue, workPool, taken, job, done, fails>>
        /\ dispatcher = "stop" /\ worker[chosen] = "idle"
        /\ worker' = [worker EXCEPT ![chosen] = "gone"]
        /\ \/ chosen = NumWorkers /\ dispatcher' = "gone" /\ chosen' = chosen
           \/ chosen # NumWorkers /\ dispatcher' = "stop" /\ chosen' = chosen + 1
    BY <1>3 DEF StopWorker, clients
  <2>1. TypeOK'
    BY <1>1, <2>0, DispatchAssumption DEF TypeOK, Workers
  <2>2. \A v : Has(workPool', v) <=> Has(workPool, v)
    BY <2>0 DEF Has
  <2>3. PoolHoldsIdle'
    BY <1>1, <2>0, <2>2 DEF PoolHoldsIdle, TypeOK
  <2>4. \A w \in Workers : worker'[w] = "gone" <=>
          dispatcher' = "gone" \/ (dispatcher' = "stop" /\ w < chosen')
    BY <1>1, <2>0, DispatchAssumption DEF InHand, TypeOK, Workers
  <2>5. InHand'
    BY <1>1, <2>0, <2>4 DEF InHand, TypeOK, Open, Has
  <2> QED
    BY <2>1, <2>3, <2>5 DEF DispatchInv
<1> QED
  BY <1>2, <1>3

\* A worker registering, working, failing and putting its job back.
LEMMA WorkerKeepsInv == ASSUME DispatchInv, NEW w \in Workers, WorkerStep(w) PROVE DispatchInv'
<1>1. TypeOK /\ PoolHoldsIdle /\ InHand
  BY DEF DispatchInv
<1>2. CASE Register(w)
  <2>0. /\ UNCHANGED <<notAdded, stop, jobQueue, dispatcher, taken, chosen, job, done, fails>>
        /\ worker[w] = "register" /\ worker' = [worker EXCEPT ![w] = "idle"]
        /\ workPool' = Append(workPool, w)
    BY <1>2 DEF Register, clients, dispatching
  <2>1. workPool' \in Seq(Workers)
    BY <1>1, <2>0, AppendProperties DEF TypeOK
  <2>2. TypeOK'
    BY <1>1, <2>0, <2>1 DEF TypeOK
  <2>3. \A v : Has(workPool', v) <=> Has(workPool, v) \/ v = w
    BY <1>1, <2>0, HasAppend DEF TypeOK
  <2>4. ~Has(workPool, w) /\ ~(dispatcher = "hand" /\ chosen = w)
    BY <1>1, <2>0 DEF PoolHoldsIdle
  <2>5. Distinct(workPool')
    BY <1>1, <2>0, <2>4, DistinctAppend DEF TypeOK, PoolHoldsIdle, Distinct
  <2>6. PoolHoldsIdle'
    BY <1>1, <2>0, <2>3, <2>4, <2>5 DEF PoolHoldsIdle, TypeOK, Distinct
  <2>7. InHand'
    BY <1>1, <2>0 DEF InHand, TypeOK, Open, Has
  <2> QED
    BY <2>2, <2>6, <2>7 DEF DispatchInv
<1>3. CASE DoWork(w)
  <2>0. /\ UNCHANGED <<notAdded, stop, jobQueue, workPool, dispatcher, taken, chosen, fails>>
        /\ worker[w] = "work" /\ worker' = [worker EXCEPT ![w] = "register"]
        /\ job' = [job EXCEPT ![w] = NoJob] /\ done' = done \cup {job[w]}
    BY <1>3 DEF DoWork, clients, dispatching
  <2>1. job[w] \in Jobs
    BY <1>1, <2>0 DEF TypeOK, InHand
  <2>2. TypeOK'
    BY <1>1, <2>0, <2>1 DEF TypeOK
  <2>3. \A v : Has(workPool', v) <=> Has(workPool, v)
    BY <2>0 DEF Has
  <2>4. PoolHoldsIdle'
    BY <1>1, <2>0, <2>3 DEF PoolHoldsIdle, TypeOK
  <2>5. \A v : Has(jobQueue', v) <=> Has(jobQueue, v)
    BY <2>0 DEF Has
  <2>6. \A j \in Open' : j \in Open /\ j # job[w]
    BY <2>0 DEF Open
  <2>7. InHand'
    BY <1>1, <2>0, <2>5, <2>6 DEF InHand, TypeOK
  <2> QED
    BY <2>2, <2>4, <2>7 DEF DispatchInv
<1>4. CASE DoWorkFails(w)
  <2>0. /\ UNCHANGED <<notAdded, stop, jobQueue, workPool, dispatcher, taken, chosen, job, done>>
        /\ worker[w] = "work" /\ worker' = [worker EXCEPT ![w] = "requeue"]
        /\ fails < MaxFails /\ fails' = fails + 1
    BY <1>4 DEF DoWorkFails, clients, dispatching
  <2>1. TypeOK'
    BY <1>1, <2>0, DispatchAssumption DEF TypeOK
  <2>2. \A v : Has(workPool', v) <=> Has(workPool, v)
    BY <2>0 DEF Has
  <2>3. PoolHoldsIdle'
    BY <1>1, <2>0, <2>2 DEF PoolHoldsIdle, TypeOK
  <2>4. InHand'
    BY <1>1, <2>0 DEF InHand, TypeOK, Open, Has
  <2> QED
    BY <2>1, <2>3, <2>4 DEF DispatchInv
<1>5. CASE Requeue(w)
  <2>0. /\ UNCHANGED <<notAdded, stop, workPool, dispatcher, taken, chosen, done, fails>>
        /\ worker[w] = "requeue" /\ worker' = [worker EXCEPT ![w] = "register"]
        /\ Len(jobQueue) < QueueLength /\ jobQueue' = Append(jobQueue, job[w])
        /\ job' = [job EXCEPT ![w] = NoJob]
    BY <1>5 DEF Requeue, clients, dispatching
  <2>1. job[w] \in Jobs
    BY <1>1, <2>0 DEF TypeOK, InHand
  <2>2. jobQueue' \in Seq(Jobs) /\ Len(jobQueue') = Len(jobQueue) + 1 /\ Len(jobQueue) \in Nat
    BY <1>1, <2>0, <2>1, AppendProperties DEF TypeOK
  <2>3. TypeOK'
    BY <1>1, <2>0, <2>2, DispatchAssumption DEF TypeOK
  <2>4. \A v : Has(workPool', v) <=> Has(workPool, v)
    BY <2>0 DEF Has
  <2>5. PoolHoldsIdle'
    BY <1>1, <2>0, <2>4 DEF PoolHoldsIdle, TypeOK
  <2>6. \A v : Has(jobQueue', v) <=> Has(jobQueue, v) \/ v = job[w]
    BY <1>1, <2>0, <2>1, HasAppend DEF TypeOK
  <2>7. Open' = Open
    BY <2>0 DEF Open
  <2>8. InHand'
    BY <1>1, <2>0, <2>6, <2>7 DEF InHand, TypeOK
  <2> QED
    BY <2>3, <2>5, <2>8 DEF DispatchInv
<1> QED
  BY <1>2, <1>3, <1>4, <1>5 DEF WorkerStep

\* Every step preserves the invariant.
LEMMA DispatchInvStep == DispatchInv /\ [Next]_vars => DispatchInv'
<1> SUFFICES ASSUME DispatchInv, [Next]_vars PROVE DispatchInv'
  OBVIOUS
<1>1. CASE UNCHANGED vars
  BY <1>1 DEF vars, DispatchInv, TypeOK, PoolHoldsIdle, InHand, Has, Open
<1>2. CASE Next
  BY <1>2, ClientsKeepInv, HandingKeepsInv, StoppingKeepsInv, WorkerKeepsInv
  DEF Next, DispatcherStep
<1> QED
  BY <1>1, <1>2

\* The invariant of the dispatcher holds in every reachable state.
THEOREM DispatchIsSafe == Spec => []DispatchInv
  BY DispatchInvInit, DispatchInvStep, PTL DEF Spec

\* Only idle workers are in the pool or chosen (dispatch.go, Worker.Start and
\* Dispatch.dispatch), for any number of workers.
THEOREM OnlyIdleWorkersAreChosen == Spec => []PoolHoldsIdle
  BY DispatchIsSafe, PTL DEF DispatchInv

\* After a stop no goroutine holds a job, and every open job is in the queue.
THEOREM StopLosesNothingInHand == Spec => []StopLeavesTheQueue
<1>1. DispatchInv => StopLeavesTheQueue
  <2> SUFFICES ASSUME TypeOK, InHand, dispatcher = "gone"
               PROVE  /\ \A w \in Workers : worker[w] = "gone" /\ job[w] = NoJob
                      /\ \A j \in Open : Has(jobQueue, j)
    BY DEF DispatchInv, StopLeavesTheQueue
  <2>1. \A w \in Workers : worker[w] = "gone" /\ job[w] = NoJob
    BY DEF InHand
  <2>2. taken = NoJob
    BY DEF InHand
  <2>3. \A j \in Open : j # NoJob
    BY DispatchAssumption DEF Open
  <2> QED
    BY <2>1, <2>2, <2>3 DEF InHand
<1> QED
  BY <1>1, DispatchIsSafe, PTL

-----------------------------------------------------------------------------
(* Each open job is in one place, and what a wedge takes.                   *)

\* A step that moves no job leaves each in its place.
LEMMA NoJobMoves ==
  ASSUME JobsApart, UNCHANGED <<notAdded, jobQueue, taken, job, done>>
  PROVE  JobsApart'
  BY DEF JobsApart, Has, Open

\* A client's new job is in no other place yet.
LEMMA AddKeepsApart == ASSUME DispatchInv, JobsApart, NEW j \in Jobs, Add(j) PROVE JobsApart'
<1>1. /\ UNCHANGED <<taken, job, done>> /\ j \in notAdded
      /\ notAdded' = notAdded \ {j} /\ jobQueue' = Append(jobQueue, j)
  BY DEF Add, dispatching, working
<1>2. jobQueue \in Seq(Jobs) /\ j \notin Open /\ j # NoJob /\ taken # j
  BY <1>1, DispatchAssumption DEF DispatchInv, TypeOK, Open, JobsApart
<1>3. ~Has(jobQueue, j) /\ \A w \in Workers : job[w] # j
  BY <1>2 DEF JobsApart
<1>4. \A v : Has(jobQueue', v) <=> Has(jobQueue, v) \/ v = j
  BY <1>1, <1>2, HasAppend
<1>5. Distinct(jobQueue')
  BY <1>1, <1>2, <1>3, DistinctAppend DEF JobsApart, Distinct
<1>6. Open' = Open \cup {j} /\ notAdded' \cap done' = {}
  BY <1>1 DEF Open, JobsApart
<1> QED
  BY <1>1, <1>2, <1>3, <1>4, <1>5, <1>6 DEF JobsApart, Distinct

\* The dispatcher takes a job out of the queue into its hands.
LEMMA TakeJobKeepsApart == ASSUME DispatchInv, JobsApart, TakeJob PROVE JobsApart'
<1>1. /\ UNCHANGED <<notAdded, job, done>> /\ jobQueue # <<>>
      /\ jobQueue' = Tail(jobQueue) /\ taken' = Head(jobQueue)
  BY DEF TakeJob, clients, working
<1>2. jobQueue \in Seq(Jobs) /\ taken' \in Jobs
  BY <1>1 DEF DispatchInv, TypeOK
<1>3. \A v : Has(jobQueue, v) <=> v = taken' \/ Has(jobQueue', v)
  BY <1>1, <1>2, HasTail
<1>4. Distinct(jobQueue') /\ ~Has(jobQueue', taken')
  BY <1>1, <1>2, DistinctTail DEF JobsApart, Distinct
<1>5. Open' = Open /\ notAdded' \cap done' = {}
  BY <1>1 DEF Open, JobsApart
<1> QED
  BY <1>1, <1>2, <1>3, <1>4, <1>5 DEF JobsApart, Distinct

\* The dispatcher's job goes to the worker it chose, which has none.
LEMMA HandJobKeepsApart == ASSUME DispatchInv, JobsApart, HandJob PROVE JobsApart'
<1>1. /\ UNCHANGED <<notAdded, jobQueue, done>> /\ dispatcher = "hand"
      /\ taken' = NoJob /\ job' = [job EXCEPT ![chosen] = taken]
  BY DEF HandJob, clients
<1>2. /\ taken # NoJob /\ chosen \in Workers /\ job \in [Workers -> Jobs \cup {NoJob}]
      /\ jobQueue \in Seq(Jobs)
  BY <1>1 DEF DispatchInv, InHand, TypeOK
<1>3. \A w \in Workers : job'[w] = IF w = chosen THEN taken ELSE job[w]
  BY <1>1, <1>2
<1>4. \A v : Has(jobQueue', v) <=> Has(jobQueue, v)
  BY <1>1 DEF Has
<1>5. ~Has(jobQueue', taken')
  BY <1>1, <1>2, DispatchAssumption DEF Has
<1>6. Open' = Open /\ NoJob \notin Open
  BY <1>1, DispatchAssumption DEF Open
<1>7. ASSUME NEW w \in Workers, job'[w] # NoJob
      PROVE  /\ job'[w] \in Open' /\ job'[w] # taken' /\ ~Has(jobQueue', job'[w])
             /\ \A v \in Workers : job'[v] = job'[w] => v = w
  BY <1>1, <1>2, <1>3, <1>4, <1>6, <1>7 DEF JobsApart
<1> QED
  BY <1>1, <1>4, <1>5, <1>6, <1>7 DEF JobsApart

\* A worker's job is done, and it is nowhere else.
LEMMA DoWorkKeepsApart ==
  ASSUME DispatchInv, JobsApart, NEW w \in Workers, DoWork(w)
  PROVE  JobsApart'
<1>1. /\ UNCHANGED <<notAdded, jobQueue, taken>> /\ worker[w] = "work"
      /\ job' = [job EXCEPT ![w] = NoJob] /\ done' = done \cup {job[w]}
  BY DEF DoWork, clients, dispatching
<1>2. job[w] # NoJob /\ job \in [Workers -> Jobs \cup {NoJob}]
  BY <1>1 DEF DispatchInv, InHand, TypeOK
<1>3. \A v \in Workers : job'[v] = IF v = w THEN NoJob ELSE job[v]
  BY <1>1, <1>2
<1>4. \A v : Has(jobQueue', v) <=> Has(jobQueue, v)
  BY <1>1 DEF Has
<1>5. Open' = Open \ {job[w]} /\ job[w] \in Open /\ notAdded' \cap done' = {}
  BY <1>1, <1>2 DEF Open, JobsApart
<1>6. ASSUME NEW u \in Workers, job'[u] # NoJob
      PROVE  /\ job'[u] \in Open' /\ job'[u] # taken' /\ ~Has(jobQueue', job'[u])
             /\ \A v \in Workers : job'[v] = job'[u] => v = u
  BY <1>1, <1>2, <1>3, <1>4, <1>5, <1>6 DEF JobsApart
<1> QED
  BY <1>1, <1>2, <1>4, <1>5, <1>6 DEF JobsApart

\* A worker's failed job goes back to the queue, which does not hold it.
LEMMA RequeueKeepsApart ==
  ASSUME DispatchInv, JobsApart, NEW w \in Workers, Requeue(w)
  PROVE  JobsApart'
<1>1. /\ UNCHANGED <<notAdded, taken, done>> /\ worker[w] = "requeue"
      /\ job' = [job EXCEPT ![w] = NoJob] /\ jobQueue' = Append(jobQueue, job[w])
  BY DEF Requeue, clients, dispatching
<1>2. /\ job[w] # NoJob /\ job \in [Workers -> Jobs \cup {NoJob}] /\ job[w] \in Jobs
      /\ jobQueue \in Seq(Jobs)
  BY <1>1 DEF DispatchInv, InHand, TypeOK
<1>3. \A v \in Workers : job'[v] = IF v = w THEN NoJob ELSE job[v]
  BY <1>1, <1>2
<1>4. \A v : Has(jobQueue', v) <=> Has(jobQueue, v) \/ v = job[w]
  BY <1>1, <1>2, HasAppend
<1>5. job[w] \in Open /\ job[w] # taken /\ ~Has(jobQueue, job[w])
  BY <1>2 DEF JobsApart
<1>6. Distinct(jobQueue')
  BY <1>1, <1>2, <1>5, DistinctAppend DEF JobsApart, Distinct
<1>7. Open' = Open
  BY <1>1 DEF Open
<1>8. ASSUME NEW u \in Workers, job'[u] # NoJob
      PROVE  /\ job'[u] \in Open' /\ job'[u] # taken' /\ ~Has(jobQueue', job'[u])
             /\ \A v \in Workers : job'[v] = job'[u] => v = u
  BY <1>1, <1>2, <1>3, <1>4, <1>7, <1>8 DEF JobsApart
<1> QED
  BY <1>1, <1>4, <1>5, <1>6, <1>7, <1>8 DEF JobsApart, Distinct

\* Every step leaves each open job in one place.
LEMMA ApartStep == DispatchInv /\ JobsApart /\ [Next]_vars => JobsApart'
<1> SUFFICES ASSUME DispatchInv, JobsApart, [Next]_vars PROVE JobsApart'
  OBVIOUS
<1>1. CASE Stop \/ TakeWorker \/ Shutdown \/ StopWorker \/ UNCHANGED vars
  BY <1>1, NoJobMoves DEF Stop, TakeWorker, Shutdown, StopWorker, vars, clients, dispatching, working
<1>2. ASSUME NEW w \in Workers, Register(w) \/ DoWorkFails(w) PROVE JobsApart'
  BY <1>2, NoJobMoves DEF Register, DoWorkFails, clients, dispatching
<1> QED
  BY <1>1, <1>2, AddKeepsApart, TakeJobKeepsApart, HandJobKeepsApart, DoWorkKeepsApart, RequeueKeepsApart
  DEF Next, DispatcherStep, WorkerStep

\* A job that was added and is not done is once in the queue, or held by the
\* dispatcher or by one worker (dispatch.go, dispatch and Worker.Start).
THEOREM AJobIsInOnePlace == Spec => []JobsApart
<1>1. Init => JobsApart
  BY DispatchAssumption DEF Init, JobsApart, Has, Open
<1> QED
  BY <1>1, ApartStep, DispatchIsSafe, PTL DEF Spec

\* A set that n different things are in has at least n elements.
LEMMA AtLeast ==
  ASSUME NEW n \in Nat, NEW S, IsFiniteSet(S), NEW f \in [1..n -> S],
         \A a, b \in 1..n : f[a] = f[b] => a = b
  PROVE  n <= Cardinality(S)
<1>1. f \in Injection(1..n, S)
  BY DEF Injection, IsInjective
<1>2. Cardinality(1..n) <= Cardinality(S)
  BY <1>1, FS_Injection
<1>3. Cardinality(1..n) = n
  BY FS_Interval
<1> QED
  BY <1>2, <1>3

\* The channel pool has room for a worker that registers: the others are in it
\* once at most, and it is not.
LEMMA PoolHasRoom ==
  ASSUME TypeOK, PoolHoldsIdle, NEW w \in Workers, worker[w] = "register"
  PROVE  Len(workPool) < NumWorkers
<1> SUFFICES ASSUME ~(Len(workPool) < NumWorkers) PROVE FALSE
  OBVIOUS
<1> DEFINE f == [i \in 1..NumWorkers |-> workPool[i]]
<1>1. workPool \in Seq(Workers) /\ Len(workPool) \in Nat /\ NumWorkers \in Nat /\ NumWorkers <= Len(workPool)
  BY DispatchAssumption DEF TypeOK
<1>2. ~Has(workPool, w)
  BY DEF PoolHoldsIdle
<1>3. \A i \in 1..NumWorkers : i \in 1..Len(workPool) /\ workPool[i] \in Workers \ {w}
  BY <1>1, <1>2 DEF Has
<1>4. \A a, b \in 1..NumWorkers : f[a] = f[b] => a = b
  BY <1>3 DEF PoolHoldsIdle
<1>5. f \in [1..NumWorkers -> Workers \ {w}]
  BY <1>3
<1>6. IsFiniteSet(Workers) /\ Cardinality(Workers) = NumWorkers
  BY <1>1, FS_Interval DEF Workers
<1>7. IsFiniteSet(Workers \ {w}) /\ Cardinality(Workers \ {w}) = NumWorkers - 1
  BY <1>6, FS_RemoveElement
<1> HIDE DEF f
<1>8. NumWorkers <= Cardinality(Workers \ {w})
  BY <1>1, <1>4, <1>5, <1>7, AtLeast
<1> QED
  BY <1>1, <1>7, <1>8

\* The places a job can be in, numbered: the queue, the dispatcher, the workers.
Place(i) ==
  IF i <= Len(jobQueue) THEN jobQueue[i]
  ELSE IF i = Len(jobQueue) + 1 THEN taken ELSE job[i - (Len(jobQueue) + 1)]
LastPlace == Len(jobQueue) + 1 + NumWorkers

\* What the places are.
LEMMA Places ==
  ASSUME TypeOK
  PROVE  /\ LastPlace \in Nat /\ Len(jobQueue) \in Nat
         /\ \A i \in 1..Len(jobQueue) : i \in 1..LastPlace /\ Place(i) = jobQueue[i]
         /\ Len(jobQueue) + 1 \in 1..LastPlace /\ Place(Len(jobQueue) + 1) = taken
         /\ \A w \in Workers : /\ Len(jobQueue) + 1 + w \in 1..LastPlace
                               /\ Place(Len(jobQueue) + 1 + w) = job[w]
         /\ \A i \in 1..LastPlace :
              \/ i \in 1..Len(jobQueue)
              \/ i = Len(jobQueue) + 1
              \/ \E w \in Workers : i = Len(jobQueue) + 1 + w
<1>1. Len(jobQueue) \in Nat /\ NumWorkers \in Nat /\ LastPlace \in Nat
  BY DispatchAssumption DEF TypeOK, LastPlace
<1>2. ASSUME NEW i \in 1..LastPlace, i \notin 1..Len(jobQueue), i # Len(jobQueue) + 1
      PROVE  \E w \in Workers : i = Len(jobQueue) + 1 + w
  <2>1. i - (Len(jobQueue) + 1) \in Workers /\ i = Len(jobQueue) + 1 + (i - (Len(jobQueue) + 1))
    BY <1>1, <1>2 DEF Workers, LastPlace
  <2> QED
    BY <2>1
<1>3. ASSUME NEW w \in Workers
      PROVE  /\ Len(jobQueue) + 1 + w \in 1..LastPlace
             /\ Place(Len(jobQueue) + 1 + w) = job[w]
  <2>1. w \in Nat \ {0} /\ w <= NumWorkers
    BY <1>1 DEF Workers
  <2>2. (Len(jobQueue) + 1 + w) - (Len(jobQueue) + 1) = w
    BY <1>1, <2>1
  <2> QED
    BY <1>1, <2>1, <2>2 DEF Place, LastPlace
<1> QED
  BY <1>1, <1>2, <1>3 DEF Place, LastPlace

\* Only finitely many jobs are open, however many there are.
LEMMA OpenIsFinite == ASSUME DispatchInv PROVE IsFiniteSet(Open)
<1> DEFINE f == [i \in 1..LastPlace |-> Place(i)]
           R == {Place(i) : i \in 1..LastPlace}
<1>1. TypeOK /\ InHand
  BY DEF DispatchInv
<1>2. f \in Surjection(1..LastPlace, R)
  BY DEF Surjection
<1>3. IsFiniteSet(1..LastPlace)
  BY <1>1, Places, FS_Interval
<1>4. IsFiniteSet(R)
  <2> HIDE DEF f, R
  <2> QED
    BY <1>2, <1>3, FS_Surjection
<1>5. ASSUME NEW j \in Open PROVE \E i \in 1..LastPlace : Place(i) = j
  <2>1. CASE Has(jobQueue, j)
    BY <1>1, <2>1, Places DEF Has
  <2>2. CASE taken = j
    BY <1>1, <2>2, Places
  <2>3. ASSUME NEW w \in Workers, job[w] = j PROVE \E i \in 1..LastPlace : Place(i) = j
    BY <1>1, <2>3, Places
  <2> QED
    BY <1>1, <2>1, <2>2, <2>3 DEF InHand
<1>6. Open \in SUBSET R
  BY <1>5
<1> HIDE DEF R
<1> QED
  BY <1>4, <1>6, FS_Subset

\* When all hands are full, every place holds an open job of its own.
LEMMA FullHands ==
  ASSUME DispatchInv, JobsApart, taken # NoJob, \A w \in Workers : job[w] # NoJob
  PROVE  Len(jobQueue) + 1 + NumWorkers <= Cardinality(Open)
<1>1. TypeOK /\ IsFiniteSet(Open)
  BY OpenIsFinite DEF DispatchInv
<1> DEFINE f == [i \in 1..LastPlace |-> Place(i)]
<1>2. ASSUME NEW i \in 1..Len(jobQueue) PROVE jobQueue[i] \in Open /\ Has(jobQueue, jobQueue[i])
  BY <1>1 DEF JobsApart, Has, TypeOK
<1>3. \A i \in 1..LastPlace : Place(i) \in Open
  BY <1>1, <1>2, Places DEF JobsApart
<1>4. ASSUME NEW a \in 1..LastPlace, NEW b \in 1..LastPlace, Place(a) = Place(b) PROVE a = b
  <2>1. CASE a \in 1..Len(jobQueue)
    BY <1>1, <1>2, <1>4, <2>1, Places DEF JobsApart
  <2>2. CASE a = Len(jobQueue) + 1
    BY <1>1, <1>2, <1>4, <2>2, Places DEF JobsApart
  <2>3. ASSUME NEW w \in Workers, a = Len(jobQueue) + 1 + w PROVE a = b
    BY <1>1, <1>2, <1>4, <2>3, Places DEF JobsApart
  <2> QED
    BY <1>1, <2>1, <2>2, <2>3, Places
<1>5. f \in [1..LastPlace -> Open] /\ \A a, b \in 1..LastPlace : f[a] = f[b] => a = b
  BY <1>3, <1>4
<1>6. LastPlace \in Nat
  BY <1>1, Places
<1> HIDE DEF f
<1>7. LastPlace <= Cardinality(Open)
  BY <1>1, <1>5, <1>6, AtLeast
<1> QED
  BY <1>7 DEF LastPlace

\* A worker that holds a job has one more than the queue.
LEMMA OneMoreThanTheQueue ==
  ASSUME DispatchInv, JobsApart, NEW w \in Workers, job[w] # NoJob
  PROVE  Len(jobQueue) + 1 <= Cardinality(Open)
<1>1. TypeOK /\ IsFiniteSet(Open)
  BY OpenIsFinite DEF DispatchInv
<1> DEFINE n == Len(jobQueue) + 1
           f == [i \in 1..n |-> IF i = n THEN job[w] ELSE jobQueue[i]]
<1>2. Len(jobQueue) \in Nat /\ n \in Nat /\ \A i \in 1..n : i # n => i \in 1..Len(jobQueue)
  BY <1>1 DEF TypeOK
<1>3. \A i \in 1..Len(jobQueue) : jobQueue[i] \in Open /\ jobQueue[i] # job[w]
  BY <1>1 DEF JobsApart, Has, TypeOK
<1>4. f \in [1..n -> Open]
  BY <1>2, <1>3 DEF JobsApart
<1>5. \A a, b \in 1..n : f[a] = f[b] => a = b
  BY <1>2, <1>3 DEF JobsApart
<1> HIDE DEF f
<1>6. n <= Cardinality(Open)
  BY <1>1, <1>2, <1>4, <1>5, AtLeast
<1> QED
  BY <1>6

\* In a wedge no worker registers or works.
LEMMA WedgedWorkers ==
  ASSUME DispatchInv, Wedged, NEW w \in Workers
  PROVE  /\ worker[w] \in {"idle", "requeue", "gone"}
         /\ worker[w] = "requeue" => Len(jobQueue) = QueueLength
<1>1. TypeOK /\ PoolHoldsIdle
  BY DEF DispatchInv
<1>2. Len(workPool) \in Nat /\ Len(jobQueue) \in Nat /\ NumWorkers \in Nat /\ QueueLength \in Nat
  BY <1>1, DispatchAssumption DEF TypeOK
<1>3. worker[w] # "register"
  BY <1>1, <1>2, PoolHasRoom DEF Wedged
<1> QED
  BY <1>1, <1>2, <1>3 DEF Wedged, TypeOK

\* The two forms a wedge has while jobs are open: the dispatcher holds a job and
\* every worker puts one back, or it stops a worker that puts one back.
LEMMA WedgeForms ==
  ASSUME DispatchInv, Wedged, dispatcher # "gone", Open # {}
  PROVE  /\ Len(jobQueue) = QueueLength
         /\ \/ dispatcher = "wait" /\ \A w \in Workers : worker[w] = "requeue"
            \/ dispatcher = "stop" /\ worker[chosen] = "requeue"
<1>1. TypeOK /\ PoolHoldsIdle /\ InHand
  BY DEF DispatchInv
<1>2. 1 \in Workers /\ chosen \in Workers /\ QueueLength # 0
  BY <1>1, DispatchAssumption DEF TypeOK, Workers
<1>3. CASE dispatcher = "select"
  <2>1. PICK j \in Open : TRUE
    OBVIOUS
  <2>2. jobQueue = <<>> /\ taken = NoJob /\ j # NoJob
    BY <1>1, <1>3, DispatchAssumption DEF Wedged, InHand, Open
  <2>3. \A w \in Workers : job[w] = NoJob
    BY <1>1, <1>2, <2>2, WedgedWorkers DEF InHand
  <2>4. ~Has(jobQueue, j)
    BY <2>2 DEF Has
  <2> QED
    BY <1>1, <2>2, <2>3, <2>4 DEF InHand
<1>4. CASE dispatcher = "wait"
  <2>1. \A w \in Workers : ~Has(workPool, w)
    BY <1>4 DEF Wedged, Has
  <2>2. \A w \in Workers : worker[w] = "requeue"
    BY <1>1, <1>4, <2>1, WedgedWorkers DEF PoolHoldsIdle
  <2> QED
    BY <1>2, <1>4, <2>2, WedgedWorkers
<1>5. CASE dispatcher = "hand"
  BY <1>1, <1>5 DEF PoolHoldsIdle, Wedged
<1>6. CASE dispatcher = "stop"
  <2>1. ~(chosen < chosen)
    BY <1>2 DEF Workers
  <2>2. worker[chosen] # "idle" /\ worker[chosen] # "gone"
    BY <1>1, <1>2, <1>6, <2>1 DEF Wedged, InHand
  <2> QED
    BY <1>2, <1>6, <2>2, WedgedWorkers
<1> QED
  BY <1>1, <1>3, <1>4, <1>5, <1>6 DEF TypeOK

\* The goroutines of a dispatch queue wait for each other for ever (dispatch.go,
\* the requeue of Worker.Start against dispatch) only when more jobs are open
\* than the queue and all hands hold, or in a stop than the queue holds.
THEOREM AWedgeIsAFullHouse == Spec => []WedgeNeedsAFullHouse
<1>1. DispatchInv /\ JobsApart => WedgeNeedsAFullHouse
  <2> SUFFICES ASSUME DispatchInv, JobsApart, Wedged, dispatcher # "gone", Open # {}
               PROVE  Cardinality(Open) > QueueLength + (IF dispatcher = "stop" THEN 0 ELSE NumWorkers)
    BY DEF WedgeNeedsAFullHouse
  <2>1. TypeOK /\ InHand
    BY DEF DispatchInv
  <2>2. QueueLength \in Nat /\ NumWorkers \in Nat /\ chosen \in Workers
    BY <2>1, DispatchAssumption DEF TypeOK
  <2>3. Cardinality(Open) \in Nat
    BY OpenIsFinite, FS_CardinalityType
  <2>4. Len(jobQueue) = QueueLength
    BY WedgeForms
  <2>5. CASE dispatcher = "wait" /\ \A w \in Workers : worker[w] = "requeue"
    <3>1. taken # NoJob /\ \A w \in Workers : job[w] # NoJob
      BY <2>1, <2>5 DEF InHand
    <3>2. Len(jobQueue) + 1 + NumWorkers <= Cardinality(Open)
      BY <3>1, FullHands
    <3> QED
      BY <2>2, <2>3, <2>4, <2>5, <3>2
  <2>6. CASE dispatcher = "stop" /\ worker[chosen] = "requeue"
    <3>1. Len(jobQueue) + 1 <= Cardinality(Open)
      BY <2>1, <2>2, <2>6, OneMoreThanTheQueue DEF InHand
    <3> QED
      BY <2>2, <2>3, <2>4, <2>6, <3>1
  <2> QED
    BY <2>5, <2>6, WedgeForms
<1> QED
  BY <1>1, DispatchIsSafe, AJobIsInOnePlace, PTL

\* Nothing undoes a wedge: no job moves, no worker and no dispatcher goes on, and
\* no client can add a job.  All that still happens is a call of Stop, which the
\* dispatcher never receives.
THEOREM AWedgeIsForEver ==
  Spec => [][Open # {} /\ dispatcher # "gone" /\ Wedged =>
               Wedged' /\ UNCHANGED <<notAdded, jobQueue, workPool, dispatching, working>>]_vars
<1> DEFINE Still == UNCHANGED <<notAdded, jobQueue, workPool, dispatching, working>>
<1>1. ASSUME DispatchInv, [Next]_vars, Open # {}, dispatcher # "gone", Wedged
      PROVE  Wedged' /\ Still
  <2>1. /\ Len(jobQueue) = QueueLength /\ QueueLength \in Nat /\ NumWorkers \in Nat
        /\ dispatcher = "wait" \/ (dispatcher = "stop" /\ worker[chosen] # "idle")
    BY <1>1, WedgeForms, DispatchAssumption
  <2>2. \A j \in Jobs : ~Add(j)
    BY <2>1 DEF Add
  <2>3. ~DispatcherStep
    BY <1>1, <2>1 DEF DispatcherStep, TakeJob, TakeWorker, HandJob, Shutdown, StopWorker, Wedged
  <2>4. ASSUME NEW w \in Workers PROVE ~WorkerStep(w)
    <3>1. worker[w] \in {"idle", "requeue", "gone"}
      BY <1>1, WedgedWorkers
    <3> QED
      BY <2>1, <3>1 DEF WorkerStep, Register, DoWork, DoWorkFails, Requeue
  <2>5. Stop \/ UNCHANGED vars
    BY <1>1, <2>2, <2>3, <2>4 DEF Next
  <2>6. Still
    BY <2>5 DEF Stop, vars, dispatching, working
  <2> QED
    BY <1>1, <2>1, <2>6 DEF Wedged, dispatching, working
<1> QED
  BY <1>1, DispatchIsSafe, PTL DEF Spec

-----------------------------------------------------------------------------
(* The refinement of JobQueue.                                              *)

\* The sequence the abstract queue sees is one of jobs, and a job put at the
\* end of jobQueue is put at its end.
LEMMA WaitingAppend ==
  ASSUME TypeOK, NEW j \in Jobs, jobQueue' = Append(jobQueue, j), taken' = taken
  PROVE  Waiting' = Append(Waiting, j)
<1>1. CASE taken = NoJob
  <2>1. Waiting = jobQueue /\ Waiting' = jobQueue'
    <3>1. jobQueue \in Seq(Jobs) /\ jobQueue' \in Seq(Jobs)
      BY AppendProperties DEF TypeOK
    <3> QED
      BY <1>1, <3>1, ConcatEmptySeq DEF Waiting
  <2> QED
    BY <2>1
<1>2. CASE taken # NoJob
  <2>1. jobQueue \in Seq(Jobs) /\ <<taken>> \in Seq(Jobs) /\ <<j>> \in Seq(Jobs)
    BY <1>2 DEF TypeOK
  <2>2. jobQueue' = jobQueue \o <<j>>
    BY <2>1, AppendIsConcat
  <2>3. Waiting = <<taken>> \o jobQueue /\ Waiting' = <<taken>> \o (jobQueue \o <<j>>)
    BY <1>2, <2>2 DEF Waiting
  <2>4. Waiting \in Seq(Jobs)
    BY <2>1, <2>3, ConcatProperties
  <2>5. Waiting' = Waiting \o <<j>>
    BY <2>1, <2>3, ConcatAssociative
  <2> QED
    BY <2>4, <2>5, AppendIsConcat
<1> QED
  BY <1>1, <1>2

\* The job the dispatcher takes stays the first of the abstract queue.
LEMMA WaitingTaken ==
  ASSUME TypeOK, taken = NoJob, jobQueue # <<>>, jobQueue' = Tail(jobQueue), taken' = Head(jobQueue)
  PROVE  Waiting' = Waiting
<1>1. jobQueue \in Seq(Jobs) /\ Head(jobQueue) \in Jobs /\ Tail(jobQueue) \in Seq(Jobs)
  BY HeadTailProperties DEF TypeOK
<1>2. Waiting = jobQueue
  BY <1>1, ConcatEmptySeq DEF Waiting
<1>3. Waiting' = <<Head(jobQueue)>> \o Tail(jobQueue)
  BY <1>1, DispatchAssumption DEF Waiting
<1>4. jobQueue = <<Head(jobQueue)>> \o Tail(jobQueue)
  <2> DEFINE t == <<Head(jobQueue)>> \o Tail(jobQueue)
  <2>1. <<Head(jobQueue)>> \in Seq(Jobs) /\ Len(<<Head(jobQueue)>>) = 1 /\ <<Head(jobQueue)>>[1] = jobQueue[1]
    BY <1>1
  <2>2. Len(Tail(jobQueue)) = Len(jobQueue) - 1 /\ Len(jobQueue) \in Nat \ {0}
        /\ \A i \in 1..(Len(jobQueue) - 1) : Tail(jobQueue)[i] = jobQueue[i + 1]
    BY <1>1, HeadTailProperties
  <2>3. t \in Seq(Jobs) /\ Len(t) = Len(jobQueue)
    BY <1>1, <2>1, <2>2, ConcatProperties
  <2>4. \A i \in 1..Len(jobQueue) : t[i] = jobQueue[i]
    <3>1. \A i \in 1..Len(jobQueue) : t[i] = IF i <= 1 THEN jobQueue[1] ELSE Tail(jobQueue)[i - 1]
      BY <1>1, <2>1, <2>2, ConcatProperties
    <3> QED
      BY <3>1, <2>2
  <2> HIDE DEF t
  <2>5. jobQueue = t
    BY <1>1, <2>3, <2>4, SeqEqual
  <2> QED
    BY <2>5 DEF t
<1> QED
  BY <1>2, <1>3, <1>4

\* The job that is handed over is the first of the abstract queue.
LEMMA WaitingHanded ==
  ASSUME TypeOK, taken # NoJob, jobQueue' = jobQueue, taken' = NoJob
  PROVE  Waiting # <<>> /\ Head(Waiting) = taken /\ Waiting' = Tail(Waiting)
<1>1. jobQueue \in Seq(Jobs) /\ taken \in Jobs /\ <<taken>> \in Seq(Jobs)
  BY DEF TypeOK
<1>2. Waiting' = jobQueue
  BY <1>1, ConcatEmptySeq DEF Waiting
<1>3. /\ Waiting \in Seq(Jobs) /\ Len(Waiting) = 1 + Len(jobQueue) /\ Len(jobQueue) \in Nat
      /\ \A i \in 1..(1 + Len(jobQueue)) : Waiting[i] = IF i <= 1 THEN taken ELSE jobQueue[i - 1]
  BY <1>1, ConcatProperties DEF Waiting
<1>4. Waiting # <<>> /\ Head(Waiting) = taken
  BY <1>3
<1>5. Tail(Waiting) \in Seq(Jobs) /\ Len(Tail(Waiting)) = Len(jobQueue)
      /\ \A i \in 1..Len(jobQueue) : Tail(Waiting)[i] = Waiting[i + 1]
  BY <1>3, <1>4, HeadTailProperties
<1>6. \A i \in 1..Len(jobQueue) : Tail(Waiting)[i] = jobQueue[i]
  BY <1>3, <1>5
<1>7. Tail(Waiting) = jobQueue
  BY <1>1, <1>5, <1>6, SeqEqual
<1> QED
  BY <1>2, <1>4, <1>7

\* The initial state is the abstract one.
LEMMA JobQueueInit == Init => Abstract!AInit
<1> SUFFICES ASSUME Init PROVE Abstract!AInit
  OBVIOUS
<1>1. Waiting = <<>>
  BY ConcatEmptySeq DEF Init, Waiting
<1>2. Running = [s \in {} |-> s]
  BY Zenon DEF Init, Running
<1> QED
  BY <1>1, <1>2 DEF Init, Abstract!AInit

\* Every step is a step of the abstract queue or leaves it as it is.
LEMMA JobQueueStep == DispatchInv /\ [Next]_vars => [Abstract!ANext]_(Abstract!avars)
<1> SUFFICES ASSUME DispatchInv, [Next]_vars PROVE Abstract!ANext \/ UNCHANGED Abstract!avars
  OBVIOUS
<1>0. TypeOK /\ PoolHoldsIdle /\ InHand
  BY DEF DispatchInv
<1>1. ASSUME NEW j \in Jobs, Add(j) PROVE Abstract!Queue(j)
  <2>1. Waiting' = Append(Waiting, j)
    BY <1>0, <1>1, WaitingAppend DEF Add, dispatching
  <2> QED
    BY <1>1, <2>1 DEF Add, Abstract!Queue, Running, working
<1>2. CASE TakeJob
  <2>1. Waiting' = Waiting
    BY <1>0, <1>2, WaitingTaken DEF TakeJob, InHand
  <2> QED
    BY <1>2, <2>1 DEF TakeJob, Abstract!avars, Running, working, clients
<1>3. CASE HandJob
  <2>1. Waiting # <<>> /\ Head(Waiting) = taken /\ Waiting' = Tail(Waiting)
    BY <1>0, <1>3, WaitingHanded DEF HandJob, InHand
  <2>2. chosen \in Workers /\ job[chosen] = NoJob /\ taken # NoJob /\ job' = [job EXCEPT ![chosen] = taken]
    BY <1>0, <1>3 DEF HandJob, InHand, TypeOK
  <2>3. chosen \notin DOMAIN Running
    BY <2>2 DEF Running
  <2>4. Running' = [t \in DOMAIN Running \cup {chosen} |-> IF t = chosen THEN taken ELSE Running[t]]
    BY <1>0, <2>2 DEF Running, TypeOK
  <2>5. Abstract!Begin(chosen)
    BY <1>3, <2>1, <2>3, <2>4 DEF HandJob, Abstract!Begin, clients
  <2> QED
    BY <2>2, <2>5 DEF Abstract!ANext
<1>4. ASSUME NEW w \in Workers, DoWork(w) \/ Requeue(w)
      PROVE  w \in DOMAIN Running /\ Running[w] = job[w] /\ job[w] \in Jobs
             /\ Running' = [t \in DOMAIN Running \ {w} |-> Running[t]]
  <2>1. job[w] # NoJob /\ job' = [job EXCEPT ![w] = NoJob] /\ job[w] \in Jobs
    BY <1>0, <1>4 DEF DoWork, Requeue, InHand, TypeOK
  <2> QED
    BY <1>0, <2>1 DEF Running, TypeOK
<1>5. ASSUME NEW w \in Workers, DoWork(w) PROVE Abstract!Complete(w)
  <2>1. Waiting' = Waiting /\ notAdded' = notAdded /\ done' = done \cup {job[w]}
    BY <1>5 DEF DoWork, Waiting, clients, dispatching
  <2> QED
    BY <1>4, <1>5, <2>1 DEF Abstract!Complete, Abstract!Leave
<1>6. ASSUME NEW w \in Workers, Requeue(w) PROVE Abstract!GiveBack(w)
  <2>1. Waiting' = Append(Waiting, job[w])
    BY <1>0, <1>4, <1>6, WaitingAppend DEF Requeue, dispatching
  <2> QED
    BY <1>4, <1>6, <2>1 DEF Abstract!GiveBack, Abstract!Leave, Requeue, clients
<1>7. ASSUME UNCHANGED <<notAdded, jobQueue, taken, job, done>> PROVE UNCHANGED Abstract!avars
  BY <1>7 DEF Abstract!avars, Waiting, Running
<1>8. ASSUME Stop \/ TakeWorker \/ Shutdown \/ StopWorker \/ UNCHANGED vars PROVE UNCHANGED Abstract!avars
  BY <1>7, <1>8 DEF Stop, TakeWorker, Shutdown, StopWorker, vars, clients, dispatching, working
<1>9. ASSUME NEW w \in Workers, Register(w) \/ DoWorkFails(w) PROVE UNCHANGED Abstract!avars
  BY <1>7, <1>9 DEF Register, DoWorkFails, clients, dispatching
<1> QED
  BY <1>1, <1>2, <1>3, <1>5, <1>6, <1>8, <1>9 DEF Next, DispatcherStep, WorkerStep, Abstract!ANext

\* Jobs start in the order they were queued, one per worker, and none is lost
\* or done twice, for any number of jobs and workers and any queue length.
THEOREM DispatcherIsAJobQueue == Spec => IsAJobQueue
<1>1. Init => Abstract!AInit
  BY JobQueueInit
<1>2. DispatchInv /\ [Next]_vars => [Abstract!ANext]_(Abstract!avars)
  BY JobQueueStep
<1> QED
  BY <1>1, <1>2, DispatchIsSafe, PTL DEF Spec, IsAJobQueue, Abstract!ASpec
=============================================================================
