---------------------------- MODULE RollupProofs ----------------------------
(***************************************************************************)
(* A stored chunk is at every moment rolled up or about to be, for any     *)
(* number of series, chunks, resolutions and workers, in both modes.       *)
(***************************************************************************)
EXTENDS Rollup, SequenceTheorems, TLAPS

-----------------------------------------------------------------------------
(* The elements of a queue.                                                 *)

\* Add appends to the queue, pop takes its head: what the queue holds then.
LEMMA QueueElements ==
    ASSUME NEW S, NEW q \in Seq(S)
    PROVE  /\ Range(q) \subseteq S
           /\ \A x \in S : Append(q, x) \in Seq(S) /\ Range(Append(q, x)) = Range(q) \cup {x}
           /\ q # <<>> => /\ Head(q) \in S /\ Tail(q) \in Seq(S)
                          /\ Range(q) = {Head(q)} \cup Range(Tail(q))
  <1>1. Range(q) \subseteq S
    BY DEF Range
  <1>2. ASSUME NEW x \in S
        PROVE  Append(q, x) \in Seq(S) /\ Range(Append(q, x)) = Range(q) \cup {x}
    <2>1. /\ Append(q, x) \in Seq(S) /\ Len(Append(q, x)) = Len(q) + 1
          /\ \A i \in 1..Len(q) : Append(q, x)[i] = q[i]
          /\ Append(q, x)[Len(q) + 1] = x
      BY AppendProperties
    <2>2. DOMAIN q = 1..Len(q) /\ DOMAIN Append(q, x) = 1..(Len(q) + 1) /\ Len(q) \in Nat
      BY <2>1, LenProperties
    <2>3. Range(Append(q, x)) \subseteq Range(q) \cup {x}
      BY <2>1, <2>2 DEF Range
    <2>4. Range(q) \subseteq Range(Append(q, x))
      BY <2>1, <2>2 DEF Range
    <2>5. x \in Range(Append(q, x))
      BY <2>1, <2>2 DEF Range
    <2> QED
      BY <2>1, <2>3, <2>4, <2>5
  <1>3. ASSUME q # <<>>
        PROVE  /\ Head(q) \in S /\ Tail(q) \in Seq(S)
               /\ Range(q) = {Head(q)} \cup Range(Tail(q))
    <2>1. /\ Head(q) \in S /\ Tail(q) \in Seq(S) /\ Head(q) = q[1]
          /\ Len(Tail(q)) = Len(q) - 1 /\ Len(q) \in Nat \ {0}
          /\ \A i \in 1..Len(Tail(q)) : Tail(q)[i] = q[i + 1]
      BY <1>3, HeadTailProperties, EmptySeq, LenProperties
    <2>2. DOMAIN q = 1..Len(q) /\ DOMAIN Tail(q) = 1..(Len(q) - 1)
      BY <2>1, LenProperties
    <2>3. Range(Tail(q)) \subseteq Range(q)
      BY <2>1, <2>2 DEF Range
    <2>4. Head(q) \in Range(q)
      BY <2>1, <2>2 DEF Range
    <2>5. ASSUME NEW i \in 1..Len(q) PROVE q[i] \in {Head(q)} \cup Range(Tail(q))
      <3>1. CASE i = 1
        BY <2>1, <3>1
      <3>2. CASE i # 1
        <4>1. i - 1 \in 1..(Len(q) - 1) /\ Tail(q)[i - 1] = q[i]
          BY <2>1, <3>2
        <4> QED
          BY <2>2, <4>1 DEF Range
      <3> QED
        BY <3>1, <3>2
    <2> QED
      BY <2>1, <2>2, <2>3, <2>4, <2>5 DEF Range
  <1> QED
    BY <1>1, <1>2, <1>3

\* An empty channel holds nothing, a full one its one item.
LEMMA ChannelElements == Range(<<>>) = {} /\ \A x : Range(<<x>>) = {x} /\ Head(<<x>>) = x
  BY DEF Range

-----------------------------------------------------------------------------
(* Types and places.                                                        *)

Item == All \cup {NoItem}
WorkerRec == [at : {"wait", "fetch", "write", "gone"}, item : Item, got : SUBSET All, step : Nat]

TypeOK ==
    /\ mode \in {"blast", "queue"}
    /\ stored \subseteq All /\ adding \subseteq All
    /\ queue \in Seq(All) /\ consume \in Seq(All)
    /\ popper \in {"select", "pop", "send", "gone"} /\ popped \in Item
    /\ closed \in BOOLEAN
    /\ worker \in [Workers -> WorkerRec]
    /\ rolled \in [Steps -> SUBSET All] /\ missed \in [Steps -> SUBSET All]
    /\ stop \in {"no", "sent", "closed"} /\ faults \in Nat

\* popQueue holds an item exactly while it sends it, the channel holds at most
\* one, and a worker begins with the first resolution.
InPlace ==
    /\ popper = "send" <=> popped # NoItem
    /\ consume = <<>> \/ \E x \in All : consume = <<x>>
    /\ \A w \in Workers : worker[w].at = "fetch" => worker[w].step = 1 /\ worker[w].item \in All

\* The inductive invariant.
RollupInv == TypeOK /\ InPlace /\ NothingIsMissed

\* No item is mistaken for the empty one.
LEMMA Items ==
    /\ NoItem \notin All
    /\ \A x \in All : x[1] \in Series /\ x[2] \in Nat
    /\ \A x, y \in All : x[1] = y[1] /\ x[2] = y[2] => x = y
    /\ Len(Resolutions) \in Nat /\ \A i \in Steps : i \in Nat /\ 1 <= i /\ i <= Len(Resolutions)
  BY RollupAssumption DEF NoItem, All, Chunks, Steps

\* A worker that is done forgets its item.
LEMMA ReadyType == /\ Ready \in WorkerRec /\ Ready.at = "wait"
                   /\ Ready.item = NoItem /\ Ready.step = 1
  BY DEF Ready, WorkerRec, Item

\* At first nothing is stored and every goroutine waits.
LEMMA RollupInit == Init => RollupInv
  <1> SUFFICES ASSUME Init PROVE RollupInv
    OBVIOUS
  <1>1. TypeOK
    <2>1. worker \in [Workers -> WorkerRec]
      BY ReadyType DEF Init
    <2>2. queue \in Seq(All) /\ consume \in Seq(All) /\ mode \in {"blast", "queue"}
      BY RollupAssumption DEF Init
    <2> QED
      BY <2>1, <2>2 DEF Init, TypeOK, Item
  <1>2. InPlace
    BY ReadyType DEF Init, InPlace
  <1>3. NothingIsMissed
    BY DEF Init, NothingIsMissed
  <1> QED
    BY <1>1, <1>2, <1>3 DEF RollupInv

\* The types and places are kept by every step.
LEMMA RollupTypes == TypeOK /\ InPlace /\ [Next]_vars => TypeOK' /\ InPlace'
  <1> SUFFICES ASSUME TypeOK, InPlace, [Next]_vars PROVE TypeOK' /\ InPlace'
    OBVIOUS
  <1> DEFINE Goal == TypeOK' /\ InPlace'
             Fetches(r) == r.at = "fetch" => r.step = 1 /\ r.item \in All
  <1>w. worker \in [Workers -> WorkerRec] /\ \A w \in Workers : Fetches(worker[w])
    BY DEF TypeOK, InPlace
  <1>a. ASSUME NEW w \in Workers, NEW r \in WorkerRec, Fetches(r), worker' = [worker EXCEPT ![w] = r]
        PROVE  worker' \in [Workers -> WorkerRec] /\ \A v \in Workers : Fetches(worker'[v])
    BY <1>w, <1>a
  <1>b. ASSUME worker' \in [Workers -> WorkerRec], \A v \in Workers : Fetches(worker'[v]),
               UNCHANGED <<mode, stored, adding, queue, popper, popped, closed, stop>>,
               consume' \in Seq(All), consume' = <<>> \/ \E x \in All : consume' = <<x>>,
               rolled' \in [Steps -> SUBSET All], missed' \in [Steps -> SUBSET All],
               faults' \in Nat
        PROVE  Goal
    BY <1>b DEF TypeOK, InPlace
  <1>q. /\ \A x \in All : Append(queue, x) \in Seq(All)
        /\ queue # <<>> => Head(queue) \in All /\ Tail(queue) \in Seq(All)
    BY QueueElements DEF TypeOK
  <1>1. ASSUME NEW x \in All, InsertSeries(x) PROVE Goal
    BY <1>1 DEF InsertSeries, done, pipe, TypeOK, InPlace
  <1>2. ASSUME NEW x \in All, Add(x) PROVE Goal
    <2>1. queue' \in Seq(All) /\ adding' \subseteq All
      BY <1>2, <1>q DEF Add, TypeOK
    <2> QED
      BY <1>2, <2>1 DEF Add, done, TypeOK, InPlace
  <1>3. CASE select \/ StopPopping
    BY <1>3 DEF select, StopPopping, done, TypeOK, InPlace
  <1>4. CASE pop
    BY <1>4, <1>q, Items DEF pop, done, TypeOK, InPlace, Item
  <1>5. CASE send
    <2>1. popped \in All /\ consume' = <<popped>>
      BY <1>5 DEF send, TypeOK, InPlace, Item
    <2> QED
      BY <1>5, <2>1 DEF send, done, TypeOK, InPlace, Item
  <1>6. ASSUME NEW w \in Workers, Take(w) PROVE Goal
    <2>1. ASSUME consume # <<>>, mode = "queue", consume' = <<>>, UNCHANGED queue,
                 worker' = [worker EXCEPT ![w] = [Ready EXCEPT !.at = "fetch", !.item = Head(consume)]]
          PROVE  Goal
      <3>1. Head(consume) \in All
        BY <2>1, ChannelElements DEF InPlace
      <3> DEFINE r == [Ready EXCEPT !.at = "fetch", !.item = Head(consume)]
      <3>2. r \in WorkerRec /\ Fetches(r)
        BY <3>1 DEF Ready, WorkerRec, Item
      <3>3. worker' \in [Workers -> WorkerRec] /\ \A v \in Workers : Fetches(worker'[v])
        BY <1>a, <2>1, <3>2
      <3> QED
        BY <1>6, <1>b, <2>1, <3>3 DEF Take, done, TypeOK
    <2>2. ASSUME queue # <<>>, queue' = Tail(queue), UNCHANGED consume,
                 worker' = [worker EXCEPT ![w] =
                    [Ready EXCEPT !.at = "write", !.item = Head(queue), !.got = {Head(queue)}]]
          PROVE  Goal
      <3> DEFINE r == [Ready EXCEPT !.at = "write", !.item = Head(queue), !.got = {Head(queue)}]
      <3>1. r \in WorkerRec /\ Fetches(r)
        BY <1>q, <2>2 DEF Ready, WorkerRec, Item
      <3>2. worker' \in [Workers -> WorkerRec] /\ \A v \in Workers : Fetches(worker'[v])
        BY <1>a, <2>2, <3>1
      <3> QED
        BY <1>6, <1>q, <2>2, <3>2 DEF Take, done, TypeOK, InPlace
    <2> QED
      BY <1>6, <2>1, <2>2 DEF Take
  <1>7. ASSUME NEW w \in Workers, GetRangeFromDB(w) PROVE Goal
    <2> DEFINE r == [worker[w] EXCEPT !.at = "write", !.got = From(worker[w].item)]
    <2>1. worker' = [worker EXCEPT ![w] = r]
      BY <1>7, <1>w DEF GetRangeFromDB, WorkerRec
    <2>2. r \in WorkerRec /\ Fetches(r)
      BY <1>w DEF WorkerRec, From, TypeOK
    <2>3. worker' \in [Workers -> WorkerRec] /\ \A v \in Workers : Fetches(worker'[v])
      BY <1>a, <2>1, <2>2
    <2> QED
      BY <1>7, <1>b, <2>3 DEF GetRangeFromDB, done, pipe, TypeOK, InPlace
  <1>8. ASSUME NEW w \in Workers, NoData(w) PROVE Goal
    <2>1. worker' \in [Workers -> WorkerRec] /\ \A v \in Workers : Fetches(worker'[v])
      BY <1>a, <1>8, ReadyType DEF NoData
    <2>2. missed' \in [Steps -> SUBSET All] /\ faults' \in Nat
      BY <1>8 DEF NoData, From, Fails, TypeOK
    <2> QED
      BY <1>8, <1>b, <2>1, <2>2 DEF NoData, pipe, TypeOK, InPlace
  <1>9. ASSUME NEW w \in Workers, writeOne(w) PROVE Goal
    <2> DEFINE i == worker[w].step
               r == IF i = Len(Resolutions) THEN Ready ELSE [worker[w] EXCEPT !.step = i + 1]
    <2>1. worker' = [worker EXCEPT ![w] = r] /\ worker[w].at = "write"
      BY <1>9, <1>w DEF writeOne
    <2>2. r \in WorkerRec /\ Fetches(r)
      <3>1. CASE i = Len(Resolutions)
        BY <3>1, ReadyType
      <3>2. CASE i # Len(Resolutions)
        <4>1. worker[w] \in WorkerRec /\ i + 1 \in Nat
          BY <1>w DEF WorkerRec
        <4>2. r = [worker[w] EXCEPT !.step = i + 1]
          BY <3>2
        <4> QED
          BY <2>1, <4>1, <4>2 DEF WorkerRec
      <3> QED
        BY <3>1, <3>2
    <2>3. worker' \in [Workers -> WorkerRec] /\ \A v \in Workers : Fetches(worker'[v])
      BY <1>a, <2>1, <2>2
    <2>4. worker[w].got \subseteq All
      BY <1>w DEF WorkerRec
    <2>5. /\ rolled' \in [Steps -> SUBSET All] /\ missed' \in [Steps -> SUBSET All]
          /\ faults' \in Nat
      <3>1. ASSUME NEW f \in [Steps -> SUBSET All], NEW g, g = [f EXCEPT ![i] = @ \cup worker[w].got]
            PROVE  g \in [Steps -> SUBSET All]
        BY <2>4, <3>1
      <3>2. \/ rolled' = [rolled EXCEPT ![i] = @ \cup worker[w].got] /\ UNCHANGED <<missed, faults>>
            \/ Fails /\ missed' = [missed EXCEPT ![i] = @ \cup worker[w].got] /\ UNCHANGED rolled
        BY <1>9 DEF writeOne
      <3>3. faults' \in Nat
        BY <3>2 DEF Fails, TypeOK
      <3> QED
        BY <3>1, <3>2, <3>3 DEF TypeOK
    <2> QED
      BY <1>9, <1>b, <2>3, <2>5 DEF writeOne, pipe, TypeOK, InPlace
  <1>10. ASSUME NEW w \in Workers, LoopEnds(w) PROVE Goal
    <2> DEFINE r == [worker[w] EXCEPT !.at = "gone"]
    <2>1. worker' = [worker EXCEPT ![w] = r]
      BY <1>10, <1>w DEF LoopEnds, WorkerRec
    <2>2. r \in WorkerRec /\ Fetches(r)
      BY <1>w DEF WorkerRec
    <2>3. worker' \in [Workers -> WorkerRec] /\ \A v \in Workers : Fetches(worker'[v])
      BY <1>a, <2>1, <2>2
    <2> QED
      BY <1>10, <1>b, <2>3 DEF LoopEnds, done, pipe, TypeOK, InPlace
  <1>11. CASE Stop \/ CloseConn
    BY <1>11 DEF Stop, CloseConn, done, pipe, TypeOK, InPlace
  <1>12. CASE UNCHANGED vars
    BY <1>12 DEF vars, TypeOK, InPlace
  <1> QED
    BY <1>1, <1>2, <1>3, <1>4, <1>5, <1>6, <1>7, <1>8, <1>9, <1>10, <1>11, <1>12
    DEF Next, Popping, Working

-----------------------------------------------------------------------------
(* Nothing is missed.                                                       *)

\* Where chunk x is on its way into resolution i: the three cases of
\* NothingIsMissed.
Writing(x, i) ==
    \E w \in Workers : worker[w].at = "write" /\ x \in worker[w].got /\ worker[w].step <= i
Accounted(x, i) ==
    \/ x \in rolled[i] \cup missed[i]
    \/ \E item \in Pending : Covers(item, x)
    \/ Writing(x, i)
Due == stored \ (adding \cup backward)

\* The steps that leave the workers alone: storing a chunk, popQueue, Stop.
LEMMA HandOver ==
    ASSUME NothingIsMissed, UNCHANGED <<mode, worker, rolled, missed>>,
           Pending \ {NoItem} \subseteq Pending', Due' \subseteq Due
    PROVE  NothingIsMissed'
  BY DEF NothingIsMissed, Covers, Due

\* Add hands a chunk over, or finds its series queued from an earlier start.
LEMMA AddKeeps ==
    ASSUME TypeOK, NothingIsMissed, NEW x \in All, Add(x)
    PROVE  NothingIsMissed'
  <1>q. /\ Range(queue) \subseteq All
        /\ Range(Append(queue, x)) = Range(queue) \cup {x}
    BY QueueElements DEF TypeOK
  <1>1. UNCHANGED <<mode, worker, rolled, missed, stored, popped, consume>> /\ adding' = adding \ {x}
    BY DEF Add, done
  <1>2. Range(queue) \subseteq Range(queue') /\ Pending \subseteq Pending'
    BY <1>1, <1>q DEF Add, Pending
  <1>3. x \notin backward' => \E item \in Pending' : Covers(item, x)'
    <2>1. CASE mode = "queue" /\ Queued(x[1]) # {}
      <3>1. PICK q \in Range(queue) : q[1] = x[1]
        BY <2>1 DEF Queued
      <3>2. x \notin backward' => ~(q[2] > x[2])
        BY <2>1, <3>1 DEF Add, Queued
      <3>3. q \in All /\ q \in Pending'
        BY <1>2, <1>q, <3>1 DEF Pending
      <3>4. x \notin backward' => q[2] <= x[2]
        BY <3>2, <3>3, Items
      <3> QED
        BY <1>1, <2>1, <3>1, <3>3, <3>4, Items DEF Covers
    <2>2. CASE ~(mode = "queue" /\ Queued(x[1]) # {})
      <3>1. x \in Range(queue')
        BY <1>q, <2>2 DEF Add
      <3> QED
        BY <3>1, Items DEF Covers, Pending
    <2> QED
      BY <2>1, <2>2
  <1>4. Due' \subseteq Due \cup {x} /\ backward \subseteq backward'
    BY <1>1 DEF Add, Due
  <1> SUFFICES ASSUME NEW y \in Due', NEW i \in Steps PROVE Accounted(y, i)'
    BY DEF NothingIsMissed, Accounted, Writing, Due
  <1>5. CASE y = x
    BY <1>3, <1>5 DEF Accounted, Due
  <1>6. CASE y # x
    <2>1. Accounted(y, i)
      BY <1>4, <1>6 DEF NothingIsMissed, Accounted, Writing, Due
    <2> QED
      BY <1>1, <1>2, <2>1 DEF Accounted, Writing, Covers
  <1> QED
    BY <1>5, <1>6

\* A worker takes an item over, reads its rows, writes one resolution after the
\* other, or counts what a failed call keeps out.
LEMMA WorkKeeps ==
    ASSUME TypeOK, InPlace, NothingIsMissed, NEW w \in Workers, Working(w)
    PROVE  NothingIsMissed'
  <1>1. UNCHANGED <<mode, stored, adding, popped, backward>>
    BY DEF Working, Take, GetRangeFromDB, NoData, writeOne, LoopEnds, pipe
  <1> SUFFICES ASSUME NEW x \in Due, NEW i \in Steps, Accounted(x, i) PROVE Accounted(x, i)'
    BY <1>1 DEF NothingIsMissed, Accounted, Writing, Due
  <1>x. x \in All /\ x \in stored /\ i \in Nat /\ 1 <= i /\ i <= Len(Resolutions)
    BY Items DEF Due, TypeOK
  <1>w. /\ worker \in [Workers -> WorkerRec]
        /\ worker[w].step \in Nat /\ worker[w].got \subseteq All /\ worker[w].item \in Item
    BY DEF TypeOK, WorkerRec
  \* What the other workers hold stays.
  <1>a. ASSUME NEW r, worker' = [worker EXCEPT ![w] = r],
               \E v \in Workers \ {w} :
                  worker[v].at = "write" /\ x \in worker[v].got /\ worker[v].step <= i
        PROVE  Accounted(x, i)'
    BY <1>w, <1>a DEF Accounted, Writing
  <1>b. ASSUME NEW r, worker' = [worker EXCEPT ![w] = r],
               NEW v \in Workers \ {w}, worker[v].at = "fetch", Covers(worker[v].item, x)
        PROVE  Accounted(x, i)'
    BY <1>w, <1>1, <1>b DEF Accounted, Pending, Covers
  <1>2. CASE Take(w)
    <2>0. worker[w].at = "wait" /\ UNCHANGED <<rolled, missed>>
      BY <1>2 DEF Take, done
    <2>1. ASSUME mode = "queue", consume # <<>>, consume' = <<>>, UNCHANGED queue,
                 worker' = [worker EXCEPT ![w] = [Ready EXCEPT !.at = "fetch", !.item = Head(consume)]]
          PROVE  Accounted(x, i)'
      <3>1. worker'[w].at = "fetch" /\ worker'[w].item = Head(consume)
        BY <1>w, <2>1 DEF Ready
      <3>2. Range(consume) = {Head(consume)}
        BY <2>1, ChannelElements DEF InPlace
      <3>3. Pending \subseteq Pending'
        BY <1>1, <1>w, <2>0, <2>1, <3>1, <3>2 DEF Pending
      <3>4. CASE Writing(x, i)
        BY <1>a, <2>0, <2>1, <3>4 DEF Writing
      <3> QED
        BY <1>1, <2>0, <3>3, <3>4 DEF Accounted, Covers
    <2>2. ASSUME mode = "blast", queue # <<>>, queue' = Tail(queue), UNCHANGED consume,
                 worker' = [worker EXCEPT ![w] =
                    [Ready EXCEPT !.at = "write", !.item = Head(queue), !.got = {Head(queue)}]]
          PROVE  Accounted(x, i)'
      <3>1. worker'[w].at = "write" /\ worker'[w].got = {Head(queue)} /\ worker'[w].step = 1
        BY <1>w, <2>2 DEF Ready
      <3>2. Range(queue) = {Head(queue)} \cup Range(queue') /\ Head(queue) \in All
        BY <2>2, QueueElements DEF TypeOK
      <3>3. Pending \subseteq Pending' \cup {Head(queue)}
        BY <1>1, <1>w, <2>0, <2>2, <3>2 DEF Pending
      <3>4. CASE Writing(x, i)
        BY <1>a, <2>0, <2>2, <3>4 DEF Writing
      <3>5. CASE Covers(Head(queue), x)
        <4>1. x = Head(queue)
          BY <1>x, <2>2, <3>2, <3>5, Items DEF Covers
        <4> QED
          BY <1>x, <3>1, <4>1 DEF Accounted, Writing
      <3> QED
        BY <1>1, <2>0, <3>3, <3>4, <3>5 DEF Accounted, Covers
    <2> QED
      BY <1>2, <2>1, <2>2 DEF Take
  <1>3. CASE GetRangeFromDB(w)
    <2> DEFINE r == [worker[w] EXCEPT !.at = "write", !.got = From(worker[w].item)]
    <2>1. /\ worker' = [worker EXCEPT ![w] = r] /\ worker[w].at = "fetch"
          /\ UNCHANGED <<queue, consume, rolled, missed>>
      BY <1>3, <1>w DEF GetRangeFromDB, WorkerRec, pipe, done
    <2>2. worker'[w].at = "write" /\ worker'[w].got = From(worker[w].item) /\ worker'[w].step = 1
      BY <1>w, <2>1 DEF WorkerRec, InPlace
    <2>3. CASE Covers(worker[w].item, x)
      <3>1. x \in From(worker[w].item)
        BY <1>x, <2>1, <2>3, Items DEF InPlace, Covers, From
      <3> QED
        BY <1>x, <2>2, <3>1 DEF Accounted, Writing
    <2>4. CASE Writing(x, i)
      BY <1>a, <2>1, <2>4 DEF Writing
    <2>5. CASE \E item \in Range(queue) \cup {popped} \cup Range(consume) : Covers(item, x)
      BY <1>1, <2>1, <2>5 DEF Accounted, Pending, Covers
    <2>6. CASE x \in rolled[i] \cup missed[i]
      BY <2>1, <2>6 DEF Accounted
    <2>7. ASSUME NEW v \in Workers \ {w}, worker[v].at = "fetch", Covers(worker[v].item, x)
          PROVE  Accounted(x, i)'
      BY <1>b, <2>1, <2>7
    <2>8. ASSUME NEW item \in Pending, Covers(item, x) PROVE Accounted(x, i)'
      BY <2>3, <2>5, <2>7, <2>8 DEF Pending
    <2> QED
      BY <2>4, <2>6, <2>8 DEF Accounted
  <1>4. CASE NoData(w)
    <2>1. /\ worker' = [worker EXCEPT ![w] = Ready] /\ worker[w].at = "fetch"
          /\ UNCHANGED <<queue, consume, rolled>>
          /\ missed'[i] = missed[i] \cup From(worker[w].item)
      BY <1>4 DEF NoData, pipe
    <2>3. CASE Covers(worker[w].item, x)
      <3>1. x \in From(worker[w].item)
        BY <1>x, <2>1, <2>3, Items DEF InPlace, Covers, From
      <3> QED
        BY <2>1, <3>1 DEF Accounted
    <2>4. CASE Writing(x, i)
      BY <1>a, <2>1, <2>4 DEF Writing
    <2>5. CASE \E item \in Range(queue) \cup {popped} \cup Range(consume) : Covers(item, x)
      BY <1>1, <2>1, <2>5 DEF Accounted, Pending, Covers
    <2>6. CASE x \in rolled[i] \cup missed[i]
      BY <2>1, <2>6 DEF Accounted
    <2>7. ASSUME NEW v \in Workers \ {w}, worker[v].at = "fetch", Covers(worker[v].item, x)
          PROVE  Accounted(x, i)'
      BY <1>b, <2>1, <2>7
    <2>8. ASSUME NEW item \in Pending, Covers(item, x) PROVE Accounted(x, i)'
      BY <2>3, <2>5, <2>7, <2>8 DEF Pending
    <2> QED
      BY <2>4, <2>6, <2>8 DEF Accounted
  <1>5. CASE writeOne(w)
    <2> DEFINE j == worker[w].step
               r == IF j = Len(Resolutions) THEN Ready ELSE [worker[w] EXCEPT !.step = j + 1]
    <2>1. /\ worker' = [worker EXCEPT ![w] = r] /\ worker[w].at = "write"
          /\ UNCHANGED <<queue, consume>>
      BY <1>5 DEF writeOne, pipe
    <2>2. /\ rolled[i] \cup missed[i] \subseteq rolled'[i] \cup missed'[i]
          /\ i = j => worker[w].got \subseteq rolled'[i] \cup missed'[i]
      BY <1>5 DEF writeOne, TypeOK
    <2>3. CASE x \in rolled[i] \cup missed[i]
      BY <2>2, <2>3 DEF Accounted
    <2>4. CASE \E item \in Range(queue) \cup {popped} \cup Range(consume) : Covers(item, x)
      BY <1>1, <2>1, <2>4 DEF Accounted, Pending, Covers
    <2>5. CASE x \in worker[w].got /\ j <= i
      <3>1. CASE j = i
        BY <2>2, <2>5, <3>1 DEF Accounted
      <3>2. CASE j < i
        <4>1. r = [worker[w] EXCEPT !.step = j + 1]
          BY <1>x, <1>w, <3>2
        <4>2. worker'[w].at = "write" /\ worker'[w].got = worker[w].got /\ worker'[w].step = j + 1
          BY <1>w, <2>1, <4>1 DEF WorkerRec
        <4>3. j + 1 <= i
          BY <1>x, <1>w, <3>2
        <4> QED
          BY <2>5, <4>2, <4>3 DEF Accounted, Writing
      <3> QED
        BY <1>x, <1>w, <2>5, <3>1, <3>2
    <2>6. ASSUME NEW v \in Workers, worker[v].at = "fetch", Covers(worker[v].item, x)
          PROVE  Accounted(x, i)'
      BY <1>b, <2>1, <2>6
    <2>7. ASSUME NEW item \in Pending, Covers(item, x) PROVE Accounted(x, i)'
      BY <2>4, <2>6, <2>7 DEF Pending
    <2>8. CASE Writing(x, i)
      BY <1>a, <2>1, <2>5, <2>8 DEF Writing
    <2> QED
      BY <2>3, <2>7, <2>8 DEF Accounted
  <1>6. CASE LoopEnds(w)
    <2>1. /\ worker' = [worker EXCEPT ![w] = [worker[w] EXCEPT !.at = "gone"]]
          /\ worker[w].at = "wait" /\ UNCHANGED <<queue, consume, rolled, missed>>
      BY <1>6 DEF LoopEnds, pipe, done
    <2> QED
      BY <1>1, <1>a, <1>b, <2>1 DEF Accounted, Pending, Writing, Covers
  <1> QED
    BY <1>2, <1>3, <1>4, <1>5, <1>6 DEF Working

\* Every step of the rollup, and of the writer that feeds it, keeps every stored
\* chunk accounted for.
LEMMA RollupStep == RollupInv /\ [Next]_vars => RollupInv'
  <1> SUFFICES ASSUME RollupInv, [Next]_vars PROVE NothingIsMissed'
    BY RollupTypes DEF RollupInv
  <1> USE DEF RollupInv
  <1>1. ASSUME NEW x \in All, InsertSeries(x) PROVE NothingIsMissed'
    <2>1. Due' \subseteq Due
      BY <1>1 DEF InsertSeries, Due
    <2>2. Pending' = Pending
      BY <1>1 DEF InsertSeries, Pending, pipe
    <2> QED
      BY <1>1, <2>1, <2>2, HandOver DEF InsertSeries, done
  <1>2. ASSUME NEW x \in All, Add(x) PROVE NothingIsMissed'
    BY <1>2, AddKeeps
  <1>3. CASE select \/ StopPopping \/ Stop \/ CloseConn \/ UNCHANGED vars
    <2>1. UNCHANGED <<mode, stored, adding, queue, popped, consume, worker, rolled, missed, backward>>
      BY <1>3 DEF select, StopPopping, Stop, CloseConn, pipe, done, vars
    <2>2. Pending' = Pending /\ Due' = Due
      BY <2>1 DEF Pending, Due
    <2> QED
      BY <2>1, <2>2, HandOver
  <1>4. CASE pop
    <2>1. UNCHANGED <<mode, stored, adding, consume, worker, rolled, missed, backward>>
      BY <1>4 DEF pop, done
    <2>2. popped = NoItem
      BY <1>4 DEF pop, InPlace
    <2>q. queue # <<>> => Range(queue) = {Head(queue)} \cup Range(Tail(queue))
      BY QueueElements DEF TypeOK
    <2>3. Range(queue) \subseteq Range(queue') \cup {popped'}
      BY <1>4, <2>q DEF pop
    <2>4. Pending \ {NoItem} \subseteq Pending'
      BY <2>1, <2>2, <2>3 DEF Pending
    <2>5. Due' = Due
      BY <2>1 DEF Due
    <2> QED
      BY <2>1, <2>4, <2>5, HandOver
  <1>5. CASE send
    <2>1. UNCHANGED <<mode, stored, adding, queue, worker, rolled, missed, backward>>
      BY <1>5 DEF send, done
    <2>2. Range(consume) = {} /\ Range(consume') = {popped}
      BY <1>5, ChannelElements DEF send
    <2>3. Pending \ {NoItem} \subseteq Pending'
      BY <2>1, <2>2 DEF Pending
    <2>4. Due' = Due
      BY <2>1 DEF Due
    <2> QED
      BY <2>1, <2>3, <2>4, HandOver
  <1>6. ASSUME NEW w \in Workers, Working(w) PROVE NothingIsMissed'
    BY <1>6, WorkKeeps
  <1> QED
    BY <1>1, <1>2, <1>3, <1>4, <1>5, <1>6 DEF Next, Popping

\* A stored chunk is at every moment in the rows of each coarser resolution,
\* kept out of them by a failed call, or about to be rolled up, in both modes:
\* the skip in Add loses no chunk but one older than the queued one.
THEOREM NoChunkIsForgotten == Spec => []NothingIsMissed
  <1>1. RollupInv => NothingIsMissed
    BY DEF RollupInv
  <1> QED
    BY RollupInit, RollupStep, <1>1, PTL DEF Spec
=============================================================================
