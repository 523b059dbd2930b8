----------------------------- MODULE SyncProofs -----------------------------
(***************************************************************************)
(* What is proved of the three small pieces of synchronisation: the gate   *)
(* in front of Write (StartGate), the guard around Start and Stop          *)
(* (StartStop) and the insert blast of writeSlice (SliceInsert), each for  *)
(* any number of goroutines.                                               *)
(***************************************************************************)
EXTENDS StartGate, StartStop, SliceInsert, FiniteSetTheorems, TLAPS

-----------------------------------------------------------------------------
(* The gate: no Write gets past it before the replay is over.               *)

\* The inductive invariant of the gate: the field is nil, and a channel is
\* closed, only once getSequences has returned, and a receive from nil never ends.
GateInv ==
    /\ GateTypeOK
    /\ okToWrite = Nil => start = "up"
    /\ closedChans # {} => start \in {"closed", "up"}
    /\ NoEarlyWrite

\* The constructor makes the channel, so every Write has to wait.
LEMMA GateFirst == GateInit => GateInv
  BY DEF GateInit, GateInv, GateTypeOK, NoEarlyWrite, FromNew, FromStart, Nil

\* Each step of Start and of Write keeps the gate shut until the replay is over.
LEMMA GateStep == GateInv /\ [GateNext]_gateVars => GateInv'
  <1> SUFFICES ASSUME GateInv, [GateNext]_gateVars PROVE GateInv'
    OBVIOUS
  <1> USE DEF GateInv, GateTypeOK, NoEarlyWrite, FromNew, FromStart, Nil
  <1>1. CASE StartBegins
    BY <1>1 DEF StartBegins
  <1>2. CASE CloseGate
    BY <1>2 DEF CloseGate
  <1>3. CASE ClearGate
    BY <1>3 DEF ClearGate
  <1>4. ASSUME NEW w \in Writers, WriteCall(w) PROVE GateInv'
    BY <1>4 DEF WriteCall, Move
  <1>5. ASSUME NEW w \in Writers, WriteTest(w) PROVE GateInv'
    BY <1>5 DEF WriteTest, Move
  <1>6. ASSUME NEW w \in Writers, Receive(w) PROVE GateInv'
    BY <1>6 DEF Receive, Move
  <1>7. ASSUME NEW w \in Writers, Pass(w) PROVE GateInv'
    BY <1>7 DEF Pass, Move
  <1>8. CASE UNCHANGED gateVars
    BY <1>8 DEF gateVars
  <1> QED
    BY <1>1, <1>2, <1>3, <1>4, <1>5, <1>6, <1>7, <1>8
    DEF GateNext, StartStep, WriteStep

\* No point gets into the cache before getSequences has returned, whichever of
\* its two reads of okToWrite a Write is at when Start makes a new channel,
\* closes it or clears the field.
THEOREM NothingPassesEarly == GateSpec => []NoEarlyWrite
  <1>1. GateInv => NoEarlyWrite
    BY DEF GateInv
  <1> QED
    BY GateFirst, GateStep, <1>1, PTL DEF GateSpec

-----------------------------------------------------------------------------
(* The guard: the functions given to Start and Stop alternate.              *)

\* Before the first call neither Once is done and nobody holds a lock.
LEMMA DoInvInit == OnceInit => DoInv
  BY NobodyAssumption DEF OnceInit, DoInv, OnceTypeOK, Holds, HasRun, Runs, Onces, Other

\* Every step of Start, Stop and their Onces preserves DoInv.
LEMMA DoInvStep == DoInv /\ [OnceNext]_onceVars => DoInv'
  <1> SUFFICES ASSUME DoInv, [OnceNext]_onceVars PROVE DoInv'
    OBVIOUS
  <1> USE NobodyAssumption DEF DoInv, OnceTypeOK, Holds, HasRun, Runs, Onces, Other, Jump
  <1>1. ASSUME NEW p \in Procs, NEW o \in Onces, Call(p, o) PROVE DoInv'
    BY <1>1 DEF Call
  <1>2. ASSUME NEW p \in Procs, Test(p) PROVE DoInv'
    BY <1>2 DEF Test
  <1>3. ASSUME NEW p \in Procs, Lock(p) PROVE DoInv'
    BY <1>3 DEF Lock
  <1>4. ASSUME NEW p \in Procs, Retest(p) PROVE DoInv'
    BY <1>4 DEF Retest
  <1>5. ASSUME NEW p \in Procs, Run(p) PROVE DoInv'
    BY <1>5 DEF Run
  <1>6. ASSUME NEW p \in Procs, Reset(p) PROVE DoInv'
    BY <1>6 DEF Reset
  <1>7. ASSUME NEW p \in Procs, Clear(p) PROVE DoInv'
    BY <1>7 DEF Clear
  <1>8. ASSUME NEW p \in Procs, Finish(p) PROVE DoInv'
    BY <1>8 DEF Finish
  <1>9. CASE UNCHANGED onceVars
    BY <1>9 DEF onceVars
  <1> QED
    BY ONLY [OnceNext]_onceVars, <1>1, <1>2, <1>3, <1>4, <1>5, <1>6, <1>7, <1>8, <1>9, Zenon
    DEF OnceNext, Step

\* The lock of a Once is held by exactly the goroutine in its Do or resetting
\* it, and the Once whose function ran last is done or on its way to it.
THEOREM GuardIsSound == OnceSpec => []DoInv
  BY DoInvInit, DoInvStep, PTL DEF OnceSpec

\* Start's function never runs twice without Stop's in between, nor the other
\* way round (utils/once.go), for any number of goroutines.
THEOREM StartAndStopAlternate == OnceSpec => []Alternates
  <1>1. DoInv => Alternates
    BY NobodyAssumption DEF DoInv, OnceTypeOK, Alternates, Holds, HasRun, Runs, Onces
  <1> QED
    BY <1>1, GuardIsSound, PTL

-----------------------------------------------------------------------------
(* The insert blast.                                                        *)

\* A series is in one place: yet to be sent, announced, in the channel, or held
\* by the one worker that took it.  The loop announces one at a time, and a
\* worker holds a series exactly from Take to Done.
InOnePlace ==
    /\ toFeed \cap announced = {} /\ toFeed \cap tsChan = {} /\ announced \cap tsChan = {}
    /\ \A s, t \in announced : s = t
    /\ \A w \in Workers :
         /\ ts[w] = None <=> pc[w] \in {"take", "left"}
         /\ ts[w] # None => /\ ts[w] \notin toFeed \cup announced \cup tsChan
                           /\ \A v \in Workers \ {w} : ts[v] # ts[w]

\* As long as no insert and no purge has failed, nobody sees an error in the
\* shared err.
NoErrorYet ==
    fails = 0 => /\ err = FALSE
                 /\ \A w \in Workers : result[w] = FALSE /\ pc[w] # "return"

\* As long as no insert has failed, a series that is neither on its way to a
\* worker nor about to be inserted by one is in the database, and only the purge
\* can have failed.
Accounted ==
    failed = {} =>
        /\ loop \in {"feed", "purge"} => fails = 0
        /\ \A s \in Series :
              \/ s \in toFeed \cup announced \cup tsChan \cup inserted
              \/ \E w \in Workers : ts[w] = s /\ pc[w] = "insert"

\* The inductive invariant of the insert blast.
BlastInv ==
    /\ TypeOK
    /\ waitG + Cardinality(toFeed) <= Cardinality(Series)
    /\ InOnePlace /\ NoErrorYet /\ WaitCountsOpen /\ Accounted /\ WrittenBeforePurge

\* At first every series is yet to be sent, and the counter is zero.
LEMMA BlastInit == Init => BlastInv
  <1> SUFFICES ASSUME Init PROVE BlastInv
    OBVIOUS
  <1>1. Cardinality(Series) \in Nat /\ Cardinality({}) = 0
    BY WorkersAssumption, FS_CardinalityType, FS_EmptySet
  <1>2. TypeOK
    <2>1. waitG \in -1..Cardinality(Series)
      BY <1>1 DEF Init
    <2> QED
      BY <2>1 DEF Init, TypeOK
  <1>7. waitG + Cardinality(toFeed) <= Cardinality(Series)
    BY <1>1 DEF Init
  <1>3. InOnePlace
    BY DEF Init, InOnePlace
  <1>4. NoErrorYet
    BY DEF Init, NoErrorYet
  <1>5. Open = {}
    BY DEF Init, Open
  <1>6. WaitCountsOpen
    BY <1>1, <1>5 DEF Init, WaitCountsOpen
  <1>8. Accounted /\ WrittenBeforePurge
    BY DEF Init, Accounted, WrittenBeforePurge
  <1> QED
    BY <1>2, <1>3, <1>4, <1>6, <1>7, <1>8 DEF BlastInv

\* The steps of the loop and of the workers move a series from one place to the
\* next: none is taken while it is queued, or queued while it is held.
LEMMA PlaceStep == TypeOK /\ InOnePlace /\ [Next]_vars => InOnePlace'
  <1> SUFFICES ASSUME TypeOK, InOnePlace, [Next]_vars PROVE InOnePlace'
    OBVIOUS
  <1> USE NoneAssumption DEF TypeOK, InOnePlace, Goto, feeder
  <1>1. ASSUME NEW s \in Series, Announce(s) PROVE InOnePlace'
    BY <1>1 DEF Announce
  <1>2. ASSUME NEW s \in Series, Feed(s) PROVE InOnePlace'
    BY <1>2 DEF Feed
  <1>3. CASE Wait \/ Purge
    BY <1>3 DEF Wait, Purge
  <1>4. ASSUME NEW w \in Workers, Take(w) PROVE InOnePlace'
    BY <1>4 DEF Take
  <1>5. ASSUME NEW w \in Workers, Leave(w) \/ Insert(w) \/ Check(w) \/ Return(w) \/ Assign(w)
        PROVE  InOnePlace'
    <2>1. UNCHANGED <<toFeed, announced, tsChan, ts>>
      BY <1>5 DEF Leave, Insert, Check, Return, Assign
    <2>2. \A v \in Workers : pc'[v] \in {"take", "left"} <=> pc[v] \in {"take", "left"}
      BY <1>5 DEF Leave, Insert, Check, Return, Assign
    <2> QED
      BY <2>1, <2>2
  <1>6. ASSUME NEW w \in Workers, Done(w) PROVE InOnePlace'
    BY <1>6 DEF Done
  <1>7. CASE UNCHANGED vars
    BY <1>7 DEF vars
  <1> QED
    BY <1>1, <1>2, <1>3, <1>4, <1>5, <1>6, <1>7 DEF Next, LoopStep, WorkerStep

\* A failed insert or purge is counted, so until the first one every worker reads nil.
LEMMA NoErrorStep == TypeOK /\ NoErrorYet /\ [Next]_vars => NoErrorYet'
  <1> SUFFICES ASSUME TypeOK, NoErrorYet, [Next]_vars, fails' = 0
               PROVE  err' = FALSE /\ \A w \in Workers : result'[w] = FALSE /\ pc'[w] # "return"
    BY DEF NoErrorYet
  <1> DEFINE Goal == err' = FALSE /\ \A w \in Workers : result'[w] = FALSE /\ pc'[w] # "return"
  <1> USE DEF TypeOK, Goto, feeder
  <1>0. fails = 0 /\ err = FALSE /\ \A w \in Workers : result[w] = FALSE /\ pc[w] # "return"
    <2>1. fails' = fails \/ fails' = fails + 1
      BY DEF Next, LoopStep, WorkerStep, Announce, Feed, Wait, Purge, Take, Leave, Insert,
             Check, Return, Assign, Done, vars
    <2> QED
      BY <2>1 DEF NoErrorYet
  <1>1. CASE LoopStep \/ UNCHANGED vars
    BY <1>0, <1>1 DEF LoopStep, Announce, Feed, Wait, Purge, vars
  <1>2. ASSUME NEW w \in Workers, Take(w) \/ Leave(w) \/ Done(w) PROVE Goal
    BY <1>0, <1>2 DEF Take, Leave, Done
  <1>3. ASSUME NEW w \in Workers, Insert(w) PROVE Goal
    BY <1>0, <1>3 DEF Insert
  <1>4. ASSUME NEW w \in Workers, Check(w) PROVE Goal
    BY <1>0, <1>4 DEF Check
  <1>5. ASSUME NEW w \in Workers, Return(w) PROVE Goal
    BY <1>0, <1>5 DEF Return
  <1>6. ASSUME NEW w \in Workers, Assign(w) PROVE Goal
    BY <1>0, <1>6 DEF Assign
  <1> QED
    BY <1>1, <1>2, <1>3, <1>4, <1>5, <1>6 DEF Next, WorkerStep

\* The counter of the WaitGroup never exceeds the number of series, and a step
\* that takes it below zero, where Go panics, is the last.
LEMMA BlastTypes ==
    ASSUME TypeOK, InOnePlace, [Next]_vars, waitG + Cardinality(toFeed) <= Cardinality(Series)
    PROVE  TypeOK' /\ waitG' + Cardinality(toFeed') <= Cardinality(Series)
  <1> DEFINE N == Cardinality(Series)
             Goal == TypeOK' /\ waitG' + Cardinality(toFeed') <= N
  <1>1. N \in Nat /\ Cardinality(toFeed) \in Nat /\ IsFiniteSet(toFeed)
    BY WorkersAssumption, FS_CardinalityType, FS_Subset DEF TypeOK
  <1>2. waitG \in Int /\ -1 <= waitG /\ waitG <= N
    BY <1>1 DEF TypeOK
  <1> HIDE DEF N
  <1>a. ASSUME UNCHANGED toFeed, ~Panicked,
               waitG' = waitG \/ waitG' = waitG - 1
        PROVE  waitG' \in -1..N /\ waitG' + Cardinality(toFeed') <= N
    BY <1>1, <1>2, <1>a DEF Panicked, N
  <1> USE DEF TypeOK, Goto, feeder
  <1>3. ASSUME NEW s \in Series, Announce(s) PROVE Goal
    <2>1. Cardinality(toFeed') = Cardinality(toFeed) - 1 /\ Cardinality(toFeed') \in Nat
      BY <1>1, <1>3, FS_RemoveElement, FS_CardinalityType DEF Announce
    <2>2. waitG' \in -1..N /\ waitG' + Cardinality(toFeed') <= N
      BY <1>1, <1>2, <1>3, <2>1 DEF Announce, N
    <2> QED
      BY <1>3, <2>2 DEF Announce, N
  <1>4. ASSUME NEW s \in Series, Feed(s) PROVE Goal
    BY <1>4 DEF Feed, N
  <1>5. CASE Wait
    BY <1>5 DEF Wait, N
  <1>5a. CASE Purge
    <2>1. err' \in BOOLEAN /\ loop' \in {"purged", "kept"}
      BY <1>5a, Zenon DEF Purge
    <2>2. fails' \in Nat
      BY <1>5a DEF Purge
    <2> QED
      BY <1>5a, <2>1, <2>2 DEF Purge, N
  <1>6. ASSUME NEW w \in Workers, Take(w) \/ Leave(w), ~Panicked PROVE Goal
    BY <1>6 DEF Take, Leave, N
  <1>7. ASSUME NEW w \in Workers, Insert(w), ~Panicked PROVE Goal
    <2>1. ts[w] \in Series
      BY <1>7 DEF Insert, InOnePlace
    <2>2. CASE err' = FALSE /\ inserted' = inserted \cup {ts[w]} /\ UNCHANGED <<fails, failed>>
      BY <1>7, <2>1, <2>2 DEF Insert, N
    <2>3. CASE /\ err' = TRUE /\ fails' = fails + 1
               /\ failed' = failed \cup {ts[w]} /\ UNCHANGED inserted
      BY <1>7, <2>1, <2>3 DEF Insert, N
    <2> QED
      BY <1>7, <2>2, <2>3 DEF Insert
  <1>8. ASSUME NEW w \in Workers, Check(w), ~Panicked PROVE Goal
    <2>1. UNCHANGED toFeed /\ (waitG' = waitG \/ waitG' = waitG - 1)
      BY <1>8 DEF Check
    <2> QED
      BY <1>8, <1>a, <2>1 DEF Check, N
  <1>9. ASSUME NEW w \in Workers, Return(w) \/ Assign(w), ~Panicked PROVE Goal
    <2>1. ts[w] \in Series
      BY <1>9 DEF Return, Assign, InOnePlace
    <2> QED
      BY <1>9, <2>1 DEF Return, Assign, N
  <1>10. ASSUME NEW w \in Workers, Done(w), ~Panicked PROVE Goal
    <2>1. UNCHANGED toFeed /\ (waitG' = waitG \/ waitG' = waitG - 1)
      BY <1>10 DEF Done
    <2> QED
      BY <1>10, <1>a, <2>1 DEF Done, N
  <1>11. CASE UNCHANGED vars
    BY <1>11 DEF vars, N
  <1> QED
    BY <1>3, <1>4, <1>5, <1>5a, <1>6, <1>7, <1>8, <1>9, <1>10, <1>11
    DEF Next, LoopStep, WorkerStep, N

\* The members of Open, one by one.
LEMMA OpenMembers ==
    \A s : s \in Open <=>
         \/ s \in announced \/ s \in tsChan
         \/ \E w \in Workers : /\ s = ts[w]
                               /\ \/ pc[w] \in {"insert", "check", "return"}
                                  \/ pc[w] \in {"assign", "done"} /\ result[w]
  BY DEF Open

\* Until a call fails the WaitGroup counts the open series: a series enters
\* Open in the step that calls Add(1) for it and leaves it in the step that
\* calls Done() for it.
LEMMA CountStep == BlastInv /\ [Next]_vars => WaitCountsOpen'
  <1> SUFFICES ASSUME BlastInv, [Next]_vars, fails' = 0 PROVE waitG' = Cardinality(Open')
    BY DEF WaitCountsOpen
  <1> DEFINE Goal == waitG' = Cardinality(Open')
  <1>0. fails = 0
    <2>1. fails \in Nat /\ (fails' = fails \/ fails' = fails + 1)
      BY DEF BlastInv, TypeOK, Next, LoopStep, WorkerStep, Announce, Feed, Wait, Purge, Take,
             Leave, Insert, Check, Return, Assign, Done, feeder, vars
    <2> QED
      BY <2>1
  <1>1. waitG = Cardinality(Open)
    BY <1>0 DEF BlastInv, WaitCountsOpen
  <1>2. err = FALSE /\ \A w \in Workers : result[w] = FALSE /\ pc[w] # "return"
    BY <1>0 DEF BlastInv, NoErrorYet
  <1>3. IsFiniteSet(Open) /\ Open \subseteq Series
    <2>1. \A w \in Workers : pc[w] \in {"insert", "check"} => ts[w] \in Series
      BY DEF BlastInv, TypeOK, InOnePlace
    <2>2. Open \subseteq Series
      BY <1>2, <2>1, OpenMembers DEF BlastInv, TypeOK
    <2> QED
      BY <2>2, WorkersAssumption, FS_Subset
  <1>b. \A s : s \in Open' <=>
            \/ s \in announced' \/ s \in tsChan'
            \/ \E w \in Workers : /\ s = ts'[w]
                                  /\ \/ pc'[w] \in {"insert", "check", "return"}
                                     \/ pc'[w] \in {"assign", "done"} /\ result'[w]
    BY DEF Open
  <1>a. ASSUME Open' = Open, waitG' = waitG PROVE Goal
    BY <1>1, <1>a
  <1>c. ASSUME \A x : x \in Open' <=> x \in Open PROVE Open' = Open
    BY <1>c
  <1> USE DEF BlastInv, TypeOK, InOnePlace, Goto, feeder
  <1>4. ASSUME NEW s \in Series, Announce(s) PROVE Goal
    <2>1. s \notin Open
      BY <1>2, <1>4, OpenMembers DEF Announce
    <2>2. Open' = Open \cup {s}
      BY <1>4 DEF Announce, Open
    <2>3. waitG' = waitG + 1
      BY <1>4 DEF Announce
    <2> QED
      BY <1>1, <1>3, <2>1, <2>2, <2>3, FS_AddElement
  <1>5. ASSUME NEW s \in Series, Feed(s) PROVE Goal
    <2>1. announced = {s}
      BY <1>5 DEF Feed
    <2>2. Open' = Open
      BY <1>5, <2>1 DEF Feed, Open
    <2> QED
      BY <1>5, <2>2, <1>a DEF Feed
  <1>6. CASE Wait \/ Purge
    <2>1. Open' = Open
      BY <1>6 DEF Wait, Purge, Open
    <2> QED
      BY <1>6, <2>1, <1>a DEF Wait, Purge
  <1>7. ASSUME NEW w \in Workers, Take(w) PROVE Goal
    <2>1. PICK s \in tsChan : tsChan' = tsChan \ {s} /\ ts' = [ts EXCEPT ![w] = s]
      BY <1>7 DEF Take
    <2>2. \A x : x \in Open' <=> x \in Open
      BY <1>2, <1>7, <2>1, OpenMembers, <1>b DEF Take
    <2>3. waitG' = waitG
      BY <1>7 DEF Take
    <2> QED
      BY <2>2, <2>3, <1>a, <1>c, Zenon
  <1>8. ASSUME NEW w \in Workers, Leave(w) \/ Insert(w) PROVE Goal
    <2>1. \A x : x \in Open' <=> x \in Open
      BY <1>2, <1>8, OpenMembers, <1>b DEF Leave, Insert
    <2>2. waitG' = waitG
      BY <1>8 DEF Leave, Insert
    <2> QED
      BY <2>1, <2>2, <1>a, <1>c, Zenon
  <1>9. ASSUME NEW w \in Workers, Check(w) PROVE Goal
    <2>1. ts[w] \in Open
      BY <1>9, OpenMembers DEF Check
    <2>2. Open' = Open \ {ts[w]}
      BY <1>2, <1>9, OpenMembers, <1>b DEF Check
    <2>3. waitG' = waitG - 1
      BY <1>2, <1>9 DEF Check
    <2> QED
      BY <1>1, <1>3, <2>1, <2>2, <2>3, FS_RemoveElement
  <1>10. ASSUME NEW w \in Workers, Return(w) PROVE Goal
    BY <1>2, <1>10 DEF Return
  <1>11. ASSUME NEW w \in Workers, Assign(w) \/ Done(w) PROVE Goal
    <2>1. \A x : x \in Open' <=> x \in Open
      BY <1>2, <1>11, OpenMembers, <1>b DEF Assign, Done
    <2>2. waitG' = waitG
      BY <1>2, <1>11 DEF Assign, Done
    <2> QED
      BY <2>1, <2>2, <1>a, <1>c, Zenon
  <1>12. CASE UNCHANGED vars
    <2>1. Open' = Open
      BY <1>12 DEF vars, Open
    <2> QED
      BY <1>12, <2>1, <1>a DEF vars
  <1> QED
    BY <1>4, <1>5, <1>6, <1>7, <1>8, <1>9, <1>10, <1>11, <1>12 DEF Next, LoopStep, WorkerStep

\* A series that leaves a worker's hand without a failed insert is in the
\* database.
LEMMA AccountStep == BlastInv /\ [Next]_vars => Accounted'
  <1> SUFFICES ASSUME BlastInv, [Next]_vars, failed' = {} PROVE Accounted'
    BY DEF Accounted
  <1> USE DEF BlastInv, TypeOK, Goto, feeder
  <1>0. failed = {}
    BY DEF Next, LoopStep, WorkerStep, Announce, Feed, Wait, Purge, Take, Leave, Insert, Check,
           Return, Assign, Done, vars
  <1>1. ASSUME NEW s \in Series, Announce(s) \/ Feed(s) PROVE Accounted'
    <2>1. toFeed' \cup announced' \cup tsChan' = toFeed \cup announced \cup tsChan
      BY <1>1 DEF Announce, Feed, InOnePlace
    <2> QED
      BY <1>0, <1>1, <2>1 DEF Announce, Feed, Accounted
  <1>1a. CASE Wait \/ UNCHANGED vars
    BY <1>0, <1>1a DEF Wait, vars, Accounted
  <1>1b. CASE Purge
    BY <1>0, <1>1b DEF Purge, Accounted
  <1>2. ASSUME NEW w \in Workers, Take(w) PROVE Accounted'
    BY <1>0, <1>2 DEF Take, Accounted
  <1>3. ASSUME NEW w \in Workers, Insert(w) PROVE Accounted'
    BY <1>0, <1>3 DEF Insert, Accounted
  <1>4. ASSUME NEW w \in Workers, Leave(w) \/ Check(w) \/ Return(w) \/ Assign(w) \/ Done(w)
        PROVE  Accounted'
    <2>1. UNCHANGED <<toFeed, announced, tsChan, inserted, loop, fails>>
      BY <1>4 DEF Leave, Check, Return, Assign, Done
    <2>2. \A v \in Workers : pc[v] = "insert" => pc'[v] = "insert" /\ ts'[v] = ts[v]
      BY <1>4 DEF Leave, Check, Return, Assign, Done
    <2> QED
      BY <1>0, <2>1, <2>2 DEF Accounted
  <1> QED
    BY <1>1, <1>1a, <1>1b, <1>2, <1>3, <1>4 DEF Next, LoopStep, WorkerStep

\* Wait returns with nothing open, so with every series in the database; after
\* that the database keeps them.
LEMMA WrittenStep == BlastInv /\ [Next]_vars => WrittenBeforePurge'
  <1> SUFFICES ASSUME BlastInv, [Next]_vars, failed' = {}, loop' # "feed"
               PROVE  Series \subseteq inserted'
    BY DEF WrittenBeforePurge
  <1>1. failed = {} /\ inserted \subseteq inserted'
    BY DEF Next, LoopStep, WorkerStep, Announce, Feed, Wait, Purge, Take, Leave, Insert, Check,
           Return, Assign, Done, feeder, vars
  <1>2. CASE Wait
    <2>1. fails = 0
      BY <1>1, <1>2 DEF Wait, BlastInv, Accounted
    <2>2. Cardinality(Open) = 0
      BY <1>2, <2>1 DEF Wait, BlastInv, WaitCountsOpen
    <2>3. Open \subseteq Series
      BY <2>1, OpenMembers DEF BlastInv, TypeOK, InOnePlace, NoErrorYet
    <2>4. Open = {}
      BY <2>2, <2>3, WorkersAssumption, FS_Subset, FS_EmptySet
    <2>5. tsChan = {} /\ announced = {} /\ \A w \in Workers : pc[w] # "insert"
      BY <2>4, OpenMembers
    <2> QED
      BY <1>1, <1>2, <2>5 DEF Wait, BlastInv, Accounted
  <1>3. CASE ~Wait
    <2>1. loop # "feed"
      BY <1>3 DEF Next, LoopStep, WorkerStep, Announce, Feed, Purge, Take, Leave, Insert, Check,
                  Return, Assign, Done, feeder, vars
    <2> QED
      BY <1>1, <2>1 DEF BlastInv, WrittenBeforePurge
  <1> QED
    BY <1>2, <1>3

\* The inductive invariant holds in every reachable state.
LEMMA BlastIsSafe == Spec => []BlastInv
  <1>1. BlastInv /\ [Next]_vars => BlastInv'
    BY BlastTypes, PlaceStep, NoErrorStep, CountStep, AccountStep, WrittenStep DEF BlastInv
  <1> QED
    BY BlastInit, <1>1, PTL DEF Spec

\* Until an insert or the purge of writeSlice fails, the WaitGroup's counter is
\* the number of series still to be inserted: Wait does not return early, and
\* Done does not panic.
THEOREM WaitIsExact == Spec => []WaitCountsOpen
  <1>1. BlastInv => WaitCountsOpen
    BY DEF BlastInv
  <1> QED
    BY BlastIsSafe, <1>1, PTL

\* Until an insert of writeSlice fails, the loop gets to the purge of the log only
\* when every series of the chunk is in the database, also when the purge fails
\* and workers read its error.
THEOREM LogIsPurgedLast == Spec => []WrittenBeforePurge
  <1>1. BlastInv => WrittenBeforePurge
    BY DEF BlastInv
  <1> QED
    BY BlastIsSafe, <1>1, PTL
=============================================================================
