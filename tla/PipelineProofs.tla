--------------------------- MODULE PipelineProofs ---------------------------
(***************************************************************************)
(* What is proved of the way from a line to metrics.Write: the writer gets *)
(* what is posted in order and nothing that was dropped, no step loses a   *)
(* line but a reset of the accumulator, and a line is counted once unless  *)
(* two flushes of the accumulator overlap.                                 *)
(***************************************************************************)
EXTENDS Pipeline, FiniteSetTheorems, TLAPS

-----------------------------------------------------------------------------
(* Types, and what the goroutines know at each of their steps.             *)

Pairs == Lines \X EveryFlusher
ItemSet == [k : {mk[1] : mk \in AccKeys}, t : Nat, c : SUBSET Pairs]
StatSet == {s \in ItemSet : MapKey(s) \in AggKeys}

\* The time of an item lies in the bucket of its key.
InBucket(mk, item) == mk[2] <= item.t /\ item.t < mk[2] + Resolution
ItemMap == {m \in [AggKeys -> ItemSet \cup {NoItem}] :
                \A mk \in AggKeys : m[mk] # NoItem => InBucket(mk, m[mk])}

\* What a tick has posted: an item that it found.
Posted == {e \in (DOMAIN flushed) \X AggKeys : flushed[e[1]][e[2]] # NoItem}

\* A flusher holds items only between FlushList and its last PushStat, and
\* Stop's flush has not begun before Stop.
FlushTypes ==
    /\ flush \in [EveryFlusher ->
                     [at : {"idle", "start", "copied", "push", "done"}, list : SUBSET StatSet]]
    /\ \A f \in EveryFlusher : flush[f].at \in {"idle", "start", "done"} => flush[f].list = {}
    /\ stop = "no" => flush[Stopper].at = "idle"

AccTypes ==
    /\ lineKey \in LineKeys /\ sent \subseteq Lines /\ lineQueue \in Seq(Lines)
    /\ cur \in {NoLine} \cup [at : {"new", "found", "forgotten"}, l : Lines]
    /\ accStats \in [AccKeys -> SUBSET Lines]
    /\ FlushTypes
    /\ wiped \subseteq Lines /\ overlapped \in BOOLEAN

\* The item that Add looked up is where Add believes it to be.
AddTypes ==
    /\ jobs \in Seq(StatSet) /\ inputChan \in Seq(StatSet)
    /\ items \in ItemMap /\ flushed \in Seq(ItemMap)
    /\ \/ adding = NoAdd
       \/ adding \in [at : {"new"}, s : StatSet] /\ items[MapKey(adding.s)] = NoItem
       \/ adding \in [at : {"found"}, s : StatSet] /\ items[MapKey(adding.s)] # NoItem
       \/ /\ adding \in [at : {"taken"}, s : StatSet, n : DOMAIN flushed]
          /\ flushed[adding.n][MapKey(adding.s)] # NoItem

PostTypes ==
    /\ posting \in Seq(Posted) /\ writeChan \in Seq(Posted) /\ writeQueue \in Seq(Posted)
    /\ full \subseteq Posted /\ ct \in 0..Len(writeQueue)
    /\ written \in Seq([n : DOMAIN flushed, mk : AggKeys, t : Nat, c : SUBSET Pairs])

Types == AccTypes /\ AddTypes /\ PostTypes

-----------------------------------------------------------------------------
(* The order of what is posted.                                            *)

Follows(d, e) == e[1] < d[1] \/ (e[1] = d[1] /\ e[2] # d[2] /\ e[2][2] <= d[2][2])
InOrder(q) == \A i, j \in DOMAIN q : i < j => Follows(q[j], q[i])
Behind(D, E) == \A d \in D, e \in E : Follows(d, e)
Done == [i \in DOMAIN written |-> <<written[i].n, written[i].mk>>]

\* What was written, what is in the queue, what is in the channel and what is
\* still to be posted is one sequence in order, and nothing dropped is in it.
OrderInv ==
    /\ InOrder(Done) /\ InOrder(writeQueue) /\ InOrder(writeChan) /\ InOrder(posting)
    /\ Behind(Range(posting) \cup Range(writeChan) \cup Range(writeQueue), Range(Done))
    /\ Behind(Range(posting) \cup Range(writeChan), Range(writeQueue))
    /\ Behind(Range(posting), Range(writeChan))
    /\ full \cap (Range(posting) \cup Range(writeChan) \cup Range(writeQueue) \cup Range(Done)) = {}

-----------------------------------------------------------------------------
(* Where the copies of a line are.                                         *)

\* The flushes that counted line l in some content.
By(l, c) == {f \in EveryFlusher : <<l, f>> \in c}

InLists(l, fl) ==
    {x \in EveryFlusher \X (UNION {fl[f].list : f \in EveryFlusher}) \X EveryFlusher :
         x[2] \in fl[x[1]].list /\ x[3] \in By(l, x[2].c)}
InSeq(l, q) == {x \in (DOMAIN q) \X EveryFlusher : x[2] \in By(l, q[x[1]].c)}
InAdd(l) == IF adding = NoAdd THEN {} ELSE By(l, adding.s.c)
InMap(l, m) == {x \in AggKeys \X EveryFlusher : x[2] \in By(l, m[x[1]].c)}
InTicks(l, h) == {x \in (DOMAIN h) \X AggKeys \X EveryFlusher : x[3] \in By(l, h[x[1]][x[2]].c)}

Places == 1..6
Spots(l) == [p \in Places |-> CASE p = 1 -> InLists(l, flush)
                                [] p = 2 -> InSeq(l, inputChan)
                                [] p = 3 -> InSeq(l, jobs)
                                [] p = 4 -> InAdd(l)
                                [] p = 5 -> InMap(l, items)
                                [] p = 6 -> InTicks(l, flushed)]

Single(S) == \A x, y \in S : x = y
None(R) == \A p \in Places : R[p] = {}
OneSpot(R) ==
    /\ \A p \in Places : Single(R[p])
    /\ \A p, q \in Places : p # q => R[p] = {} \/ R[q] = {}

\* A line that is on its way to the map of the accumulator is nowhere else; one
\* that is in the map was at most copied by flushes that are about to reset it.
Waits(l) == l \in Range(lineQueue) \/ (cur # NoLine /\ cur.l = l)
WaitInv ==
    /\ \A i, j \in DOMAIN lineQueue : lineQueue[i] = lineQueue[j] => i = j
    /\ cur # NoLine => cur.l \notin Range(lineQueue)
    /\ \A l \in Lines : Waits(l) => l \in sent
    /\ \A l \in Lines : l \notin sent \/ Waits(l) => l \notin Held /\ None(Spots(l))
    /\ \A mk \in AccKeys : \A l \in accStats[mk] : lineKey[l] = mk
    /\ \A l \in Held : \A p \in Places \ {1} : Spots(l)[p] = {}
    /\ \A l \in Held : \A x \in InLists(l, flush) : flush[x[1]].at = "copied"

\* A line that was taken has copies as soon as it is neither waiting, nor in the
\* map, nor wiped out.
KeptInv == \A l \in sent : Waits(l) \/ l \in Held \cup wiped \/ ~None(Spots(l))

CountInv == ~overlapped => \A l \in Lines : OneSpot(Spots(l))

LineInv == WaitInv /\ KeptInv /\ CountInv

-----------------------------------------------------------------------------
(* Lemmas on the operators of the model.                                   *)

\* Truncate goes back by less than a resolution, to a multiple of it.
LEMMA BucketOf ==
    ASSUME NEW t \in Nat
    PROVE  /\ ResolutionTime(t) \in Nat
           /\ ResolutionTime(t) <= t /\ t < ResolutionTime(t) + Resolution
           /\ \E q \in Nat : ResolutionTime(t) = Resolution * q
  <1>0. Resolution \in Nat \ {0}
    BY AggAssumption, Zenon
  <1>1. t % Resolution \in 0..(Resolution - 1)
    BY <1>0
  <1>2. t \div Resolution \in Nat /\ t = Resolution * (t \div Resolution) + (t % Resolution)
    BY <1>0
  <1>3. ResolutionTime(t) = Resolution * (t \div Resolution)
    BY <1>1, <1>2, <1>0 DEF ResolutionTime
  <1>4. ResolutionTime(t) <= t /\ t < ResolutionTime(t) + Resolution
    BY <1>1, <1>0 DEF ResolutionTime
  <1>5. ResolutionTime(t) \in Nat
    BY <1>1, <1>2, <1>3, <1>0
  <1> QED
    BY <1>2, <1>3, <1>4, <1>5, Zenon

\* Multiples of a resolution that are less than one apart are in order.
LEMMA Multiples ==
    ASSUME NEW r \in Nat \ {0}, NEW a \in Nat, NEW b \in Nat, r * a < r * b + r
    PROVE  r * a <= r * b
  <1>1. CASE a <= b
    BY <1>1
  <1>2. CASE a >= b + 1
    <2>1. PICK d \in Nat : a = b + 1 + d
      <3>1. a - (b + 1) \in Nat
        BY <1>2
      <3> QED
        BY <3>1
    <2>2. r * a = r * b + r + r * d
      BY <2>1
    <2>3. r * d >= 0
      OBVIOUS
    <2>4. r * a \in Nat /\ r * b \in Nat /\ r * d \in Nat
      OBVIOUS
    <2> QED
      BY <2>2, <2>3, <2>4
  <1> QED
    BY <1>1, <1>2

\* Items sorted by time are sorted by time bucket.
LEMMA BucketOrder ==
    ASSUME NEW s \in Nat, NEW t \in Nat, ResolutionTime(s) < ResolutionTime(t) + Resolution
    PROVE  ResolutionTime(s) <= ResolutionTime(t)
  <1>1. PICK a \in Nat : ResolutionTime(s) = Resolution * a
    BY BucketOf, Zenon
  <1>2. PICK b \in Nat : ResolutionTime(t) = Resolution * b
    BY BucketOf, Zenon
  <1>3. Resolution \in Nat \ {0}
    BY AggAssumption, Zenon
  <1> QED
    BY <1>1, <1>2, <1>3, Multiples, Zenon

\* A sequence over a set is one over a larger set.
LEMMA SeqWider ==
    ASSUME NEW S, NEW T, S \subseteq T, NEW q \in Seq(S)
    PROVE  q \in Seq(T)
  OBVIOUS

\* What a queue holds when something enters it.
LEMMA Enters ==
    ASSUME NEW S, NEW q \in Seq(S), NEW x \in S
    PROVE  /\ Append(q, x) \in Seq(S) /\ Range(Append(q, x)) = Range(q) \cup {x}
           /\ Len(Append(q, x)) = Len(q) + 1 /\ DOMAIN Append(q, x) = 1..(Len(q) + 1)
           /\ \A i \in DOMAIN q : Append(q, x)[i] = q[i]
           /\ Append(q, x)[Len(q) + 1] = x
  <1>1. /\ Append(q, x) \in Seq(S) /\ Len(Append(q, x)) = Len(q) + 1
        /\ \A i \in DOMAIN q : Append(q, x)[i] = q[i]
        /\ Append(q, x)[Len(q) + 1] = x /\ DOMAIN Append(q, x) = 1..(Len(q) + 1)
        /\ DOMAIN q = 1..Len(q) /\ Len(q) \in Nat
    OBVIOUS
  <1>2. Range(Append(q, x)) = Range(q) \cup {x}
    BY <1>1 DEF Range
  <1> QED
    BY <1>1, <1>2, Zenon

\* What a queue holds when its head leaves.
LEMMA Leaves ==
    ASSUME NEW S, NEW q \in Seq(S), q # <<>>
    PROVE  /\ Head(q) \in S /\ Tail(q) \in Seq(S) /\ Range(q) = Range(Tail(q)) \cup {Head(q)}
           /\ Head(q) = q[1] /\ Len(q) >= 1 /\ DOMAIN Tail(q) = 1..(Len(q) - 1)
           /\ Len(Tail(q)) = Len(q) - 1
           /\ \A i \in DOMAIN Tail(q) : Tail(q)[i] = q[i + 1] /\ i + 1 \in DOMAIN q
  <1>1. /\ Head(q) \in S /\ Tail(q) \in Seq(S) /\ Head(q) = q[1]
        /\ Len(q) \in Nat /\ Len(q) >= 1 /\ Len(Tail(q)) = Len(q) - 1
        /\ DOMAIN q = 1..Len(q) /\ DOMAIN Tail(q) = 1..(Len(q) - 1)
    OBVIOUS
  <1>2. \A i \in DOMAIN Tail(q) : Tail(q)[i] = q[i + 1] /\ i + 1 \in DOMAIN q
    BY <1>1
  <1>3. \A i \in DOMAIN q : i = 1 \/ (i - 1 \in DOMAIN Tail(q) /\ Tail(q)[i - 1] = q[i])
    BY <1>1
  <1>4. Range(q) = Range(Tail(q)) \cup {Head(q)}
    <2>1. ASSUME NEW x \in Range(q) PROVE x \in Range(Tail(q)) \cup {Head(q)}
      BY <1>1, <1>3, Zenon DEF Range
    <2>2. ASSUME NEW x \in Range(Tail(q)) PROVE x \in Range(q)
      BY <1>2, Zenon DEF Range
    <2>3. Head(q) \in Range(q)
      BY <1>1 DEF Range
    <2> QED
      BY <2>1, <2>2, <2>3, Zenon
  <1> QED
    BY <1>1, <1>2, <1>4, Zenon

\* What the dispatcher holds when a worker takes one of its jobs.
LEMMA Removes ==
    ASSUME NEW S, NEW q \in Seq(S), NEW i \in 1..Len(q)
    PROVE  /\ Remove(q, i) \in Seq(S) /\ q[i] \in S
           /\ DOMAIN Remove(q, i) = 1..(Len(q) - 1)
           /\ \A j \in DOMAIN Remove(q, i) : IF j < i THEN Remove(q, i)[j] = q[j] /\ j \in DOMAIN q
                                              ELSE Remove(q, i)[j] = q[j + 1] /\ j + 1 \in DOMAIN q
           /\ Range(q) = Range(Remove(q, i)) \cup {q[i]}
  <1> DEFINE r == Remove(q, i)
  <1>1. Len(q) \in Nat /\ DOMAIN q = 1..Len(q) /\ (Len(q) - 1) \in Nat /\ \A j \in DOMAIN q : q[j] \in S
    OBVIOUS
  <1>2. /\ DOMAIN r = 1..(Len(q) - 1)
        /\ \A j \in DOMAIN r : IF j < i THEN r[j] = q[j] /\ j \in DOMAIN q
                               ELSE r[j] = q[j + 1] /\ j + 1 \in DOMAIN q
    BY <1>1 DEF Remove
  <1>3. r \in [1..(Len(q) - 1) -> S]
    BY <1>1 DEF Remove
  <1>4. r \in Seq(S)
    BY <1>1, <1>3
  <1>5. \A j \in DOMAIN q : \/ j = i
                            \/ (j < i /\ j \in DOMAIN r /\ r[j] = q[j])
                            \/ (j - 1 \in DOMAIN r /\ r[j - 1] = q[j])
    BY <1>1, <1>2
  <1>6. Range(q) = Range(r) \cup {q[i]}
    <2>1. ASSUME NEW x \in Range(q) PROVE x \in Range(r) \cup {q[i]}
      BY <1>5, Zenon DEF Range
    <2>2. ASSUME NEW x \in Range(r) PROVE x \in Range(q)
      BY <1>2, Zenon DEF Range
    <2>3. q[i] \in Range(q)
      BY <1>1, Zenon DEF Range
    <2> QED
      BY <2>1, <2>2, <2>3, Zenon
  <1> QED
    BY <1>1, <1>2, <1>4, <1>6, Zenon

-----------------------------------------------------------------------------
(* Types.                                                                  *)

\* Keys and times of the lines do not change, so neither do the sets of stats.
LEMMA KeysStay ==
    ASSUME lineKey' = lineKey
    PROVE  /\ AccKeys' = AccKeys /\ AggKeys' = AggKeys /\ StatSet' = StatSet
           /\ ItemSet' = ItemSet /\ ItemMap' = ItemMap
  <1>1. AccKeys' = AccKeys
    BY Zenon DEF AccKeys
  <1>2. AggKeys' = AggKeys
    BY <1>1, Zenon DEF AggKeys
  <1>3. ItemSet' = ItemSet
    BY <1>1, Zenon DEF ItemSet
  <1>4. StatSet' = StatSet
    BY <1>2, <1>3, Zenon DEF StatSet
  <1>5. ItemMap' = ItemMap
    BY <1>2, <1>3, Zenon DEF ItemMap
  <1> QED
    BY <1>1, <1>2, <1>3, <1>4, <1>5, Zenon

\* A key of the aggregator holds the start of a time bucket.
LEMMA KeyFacts ==
    ASSUME lineKey \in LineKeys
    PROVE  /\ \A mk \in AccKeys : mk[2] \in Nat /\ <<mk[1], ResolutionTime(mk[2])>> \in AggKeys
           /\ \A mk \in AggKeys : \E t \in Nat : mk[2] = ResolutionTime(t)
           /\ \A mk \in AggKeys : mk[2] \in Nat
           /\ \A l \in Lines : lineKey[l] \in AccKeys
  <1>1. \A l \in Lines : lineKey[l][2] \in Nat
    BY AccAssumption, Zenon
  <1>2. \A mk \in AccKeys : mk[2] \in Nat
    BY <1>1, Zenon DEF AccKeys
  <1>3. \A mk \in AccKeys : <<mk[1], ResolutionTime(mk[2])>> \in AggKeys
    BY Zenon DEF AggKeys
  <1>4. \A mk \in AggKeys : \E t \in Nat : mk[2] = ResolutionTime(t)
    BY <1>2 DEF AggKeys
  <1>5. \A mk \in AggKeys : mk[2] \in Nat
    BY <1>4, BucketOf, Zenon
  <1>6. \A l \in Lines : lineKey[l] \in AccKeys
    BY Zenon DEF AccKeys
  <1> QED
    BY <1>2, <1>3, <1>4, <1>5, <1>6, Zenon

\* A stat goes to an item of its own key and time bucket.
LEMMA StatFacts ==
    ASSUME NEW s \in StatSet
    PROVE  /\ s \in ItemSet /\ s.t \in Nat /\ s.c \subseteq Pairs /\ MapKey(s) \in AggKeys
           /\ MapKey(s)[2] = ResolutionTime(s.t) /\ InBucket(MapKey(s), s)
  <1>1. s \in ItemSet /\ s.t \in Nat /\ s.c \subseteq Pairs /\ MapKey(s) \in AggKeys
    BY Zenon DEF StatSet, ItemSet
  <1>2. MapKey(s)[2] = ResolutionTime(s.t)
    BY Zenon DEF MapKey
  <1>3. InBucket(MapKey(s), s)
    BY <1>1, <1>2, BucketOf, Zenon DEF InBucket
  <1> QED
    BY <1>1, <1>2, <1>3, Zenon

\* What FlushList copies are stats.
LEMMA StatType ==
    ASSUME lineKey \in LineKeys, NEW mk \in AccKeys, NEW ls \in SUBSET Lines, NEW f \in EveryFlusher
    PROVE  Stat(mk, ls, f) \in StatSet
  <1>1. mk[2] \in Nat /\ <<mk[1], ResolutionTime(mk[2])>> \in AggKeys
    BY KeyFacts, Zenon
  <1>2. Stat(mk, ls, f) \in ItemSet
    BY <1>1, Zenon DEF Stat, ItemSet, Pairs
  <1>3. MapKey(Stat(mk, ls, f)) \in AggKeys
    BY <1>1, Zenon DEF Stat, MapKey
  <1> QED
    BY <1>2, <1>3, Zenon DEF StatSet

\* No item is the empty one.
LEMMA ItemIsSome == \A item \in ItemSet : item # NoItem
  <1> SUFFICES ASSUME NEW item \in ItemSet, item = NoItem PROVE FALSE
    OBVIOUS
  <1>1. "k" \in DOMAIN item
    BY Zenon DEF ItemSet
  <1>2. DOMAIN NoItem = {"c"}
    BY Zenon DEF NoItem
  <1> QED
    BY <1>1, <1>2, Zenon

\* Add to an item that there is keeps it in its bucket and counts both.
LEMMA MergedType ==
    ASSUME NEW item \in ItemSet, NEW s \in StatSet
    PROVE  /\ Merged(item, s) \in ItemSet /\ Merged(item, s).c = item.c \cup s.c
           /\ Merged(item, s) # NoItem /\ InBucket(MapKey(s), Merged(item, s))
  <1>0. /\ s.t \in Nat /\ ResolutionTime(s.t) \in Nat /\ s.c \subseteq Pairs
        /\ MapKey(s)[2] = ResolutionTime(s.t) /\ Resolution \in Nat \ {0}
    BY StatFacts, BucketOf, AggAssumption, Zenon
  <1> DEFINE u == ResolutionTime(s.t)
             d == item.c \cup s.c
  <1>1. Merged(item, s) = [item EXCEPT !.t = u, !.c = d]
    BY Zenon DEF Merged
  <1>2. u \in Nat /\ d \in SUBSET Pairs
    BY <1>0, Zenon DEF ItemSet
  <1> HIDE DEF u, d
  <1>3. Merged(item, s) \in ItemSet /\ Merged(item, s).t = u /\ Merged(item, s).c = d
    BY <1>1, <1>2, Zenon DEF ItemSet
  <1>4. InBucket(MapKey(s), Merged(item, s))
    BY <1>0, <1>3 DEF InBucket, u
  <1> QED
    BY <1>3, <1>4, ItemIsSome, Zenon DEF d

\* An Add leaves a map of items that are in their buckets.
LEMMA StoreType ==
    ASSUME NEW m \in ItemMap, NEW s \in StatSet
    PROVE  /\ [m EXCEPT ![MapKey(s)] = s] \in ItemMap
           /\ m[MapKey(s)] # NoItem =>
                  /\ m[MapKey(s)] \in ItemSet
                  /\ [m EXCEPT ![MapKey(s)] = Merged(m[MapKey(s)], s)] \in ItemMap
  <1> DEFINE a == MapKey(s)
  <1>1. /\ a \in AggKeys /\ s \in ItemSet /\ InBucket(a, s)
        /\ m \in [AggKeys -> ItemSet \cup {NoItem}]
        /\ \A mk \in AggKeys : m[mk] # NoItem => InBucket(mk, m[mk])
    BY StatFacts, Zenon DEF ItemMap
  <1>2. ASSUME NEW x \in ItemSet, InBucket(a, x) PROVE [m EXCEPT ![a] = x] \in ItemMap
    <2> DEFINE w == [m EXCEPT ![a] = x]
    <2>1. w \in [AggKeys -> ItemSet \cup {NoItem}]
      BY <1>1, Zenon
    <2>2. ASSUME NEW mk \in AggKeys, w[mk] # NoItem PROVE InBucket(mk, w[mk])
      <3>1. CASE mk = a
        BY <1>1, <1>2, <3>1, Zenon
      <3>2. CASE mk # a
        BY <1>1, <2>2, <3>2, Zenon
      <3> QED
        BY <3>1, <3>2, Zenon
    <2> QED
      BY <2>1, <2>2, Zenon DEF ItemMap
  <1>3. m[a] # NoItem => m[a] \in ItemSet
    BY <1>1, Zenon
  <1>4. m[a] # NoItem => [m EXCEPT ![a] = Merged(m[a], s)] \in ItemMap
    BY <1>2, <1>3, MergedType, Zenon
  <1> QED
    BY <1>1, <1>2, <1>3, <1>4, Zenon

\* Nothing changes the keys and times of the lines.
LEMMA KeysFixed == [Next]_vars => lineKey' = lineKey
  BY Zenon DEF Next, vars, accVars, AccNext, LoopStep, FlushStep, ProcessLine, ProcessLinePanics, TakeLine,
     Accumulate, LoopEnds, FlushTick, FlushList, Reset, PushStat, FlushEnds, Stop, StopAggregators,
     AggNext, startInputLooper, AddStep, AddLookup, Add, WriteTick, postBails, post, postPanics,
     WriterStep, procLoop, processQueue, Poll, StopWriter

\* A flush at each of its steps holds stats, and holds none before and after.
LEMMA FlushTypesStep ==
    ASSUME AccTypes, StatSet' = StatSet, NEW f \in EveryFlusher,
           \/ f # Stopper /\ FlushTick(f)
           \/ FlushList(f) \/ Reset(f) \/ PushStat(f) \/ FlushEnds(f)
           \/ f = Stopper /\ Stop
    PROVE  FlushTypes'
  <1>1. FlushTypes /\ Stopper \in EveryFlusher
    BY Zenon DEF AccTypes, FlushTypes, EveryFlusher
  <1>2. flush[f] \in [at : {"idle", "start", "copied", "push", "done"}, list : SUBSET StatSet]
    BY <1>1, Zenon DEF FlushTypes
  <1>3. ASSUME NEW r \in [at : {"idle", "start", "copied", "push", "done"}, list : SUBSET StatSet],
               flush' = [flush EXCEPT ![f] = r],
               r.at \in {"idle", "start", "done"} => r.list = {},
               stop' = "no" => stop = "no" /\ (f = Stopper => r.at = "idle")
        PROVE  FlushTypes'
    <2>1. flush' \in [EveryFlusher ->
                        [at : {"idle", "start", "copied", "push", "done"}, list : SUBSET StatSet']]
      BY <1>1, <1>3, Zenon DEF FlushTypes
    <2>2. \A g \in EveryFlusher : flush'[g] = IF g = f THEN r ELSE flush[g]
      BY <1>1, <1>3, Zenon DEF FlushTypes
    <2>3. \A g \in EveryFlusher : flush'[g].at \in {"idle", "start", "done"} => flush'[g].list = {}
      BY <1>1, <1>3, <2>2, Zenon DEF FlushTypes
    <2>4. stop' = "no" => flush'[Stopper].at = "idle"
      BY <1>1, <1>3, <2>2, Zenon DEF FlushTypes
    <2> QED
      BY <2>1, <2>3, <2>4, Zenon DEF FlushTypes
  <1>4. CASE f # Stopper /\ FlushTick(f)
    <2> DEFINE r == [flush[f] EXCEPT !.at = "start"]
    <2>1. flush' = [flush EXCEPT ![f] = r] /\ stop' = stop /\ flush[f].list = {}
      BY <1>1, <1>4, Zenon DEF FlushTick, FlushTypes
    <2>2. /\ r \in [at : {"idle", "start", "copied", "push", "done"}, list : SUBSET StatSet]
          /\ r.list = {}
      BY <1>2, <2>1, Zenon
    <2> QED
      BY <1>3, <1>4, <2>1, <2>2, Zenon
  <1>5. CASE FlushList(f)
    <2> DEFINE ls == {Stat(mk, accStats[mk], f) : mk \in {x \in AccKeys : accStats[x] # {}}}
               r == [at |-> "copied", list |-> ls]
    <2>1. flush' = [flush EXCEPT ![f] = r] /\ stop' = stop /\ flush[f].at = "start"
      BY <1>5, Zenon DEF FlushList
    <2>2. ls \subseteq StatSet
      BY StatType DEF AccTypes
    <2>3. stop # "no" \/ f # Stopper
      BY <1>1, <2>1, Zenon DEF FlushTypes
    <2> HIDE DEF ls
    <2>4. /\ r \in [at : {"idle", "start", "copied", "push", "done"}, list : SUBSET StatSet]
          /\ r.at = "copied"
      BY <2>2, Zenon
    <2> QED
      BY <1>3, <2>1, <2>3, <2>4, Zenon
  <1>6. CASE Reset(f)
    <2> DEFINE r == [flush[f] EXCEPT !.at = "push"]
    <2>1. flush' = [flush EXCEPT ![f] = r] /\ stop' = stop /\ flush[f].at = "copied"
      BY <1>6, Zenon DEF Reset
    <2>2. stop # "no" \/ f # Stopper
      BY <1>1, <2>1, Zenon DEF FlushTypes
    <2>3. /\ r \in [at : {"idle", "start", "copied", "push", "done"}, list : SUBSET StatSet]
          /\ r.at = "push"
      BY <1>2, Zenon
    <2> QED
      BY <1>3, <2>1, <2>2, <2>3, Zenon
  <1>7. CASE PushStat(f)
    <2>1. PICK s \in flush[f].list : flush' = [flush EXCEPT ![f].list = @ \ {s}]
      BY <1>7, Zenon DEF PushStat
    <2> DEFINE r == [flush[f] EXCEPT !.list = @ \ {s}]
    <2>2. flush' = [flush EXCEPT ![f] = r] /\ stop' = stop /\ flush[f].at = "push"
      BY <1>7, <2>1, Zenon DEF PushStat
    <2>3. stop # "no" \/ f # Stopper
      BY <1>1, <2>2, Zenon DEF FlushTypes
    <2>4. /\ r \in [at : {"idle", "start", "copied", "push", "done"}, list : SUBSET StatSet]
          /\ r.at = "push"
      BY <1>2, <2>2, Zenon
    <2> QED
      BY <1>3, <2>2, <2>3, <2>4, Zenon
  <1>8. CASE FlushEnds(f)
    <2> DEFINE r == [flush[f] EXCEPT !.at = IF f = Stopper THEN "done" ELSE "idle"]
    <2>1. /\ flush' = [flush EXCEPT ![f] = r] /\ stop' = stop
          /\ flush[f].at = "push" /\ flush[f].list = {}
      BY <1>8 DEF FlushEnds
    <2>2. stop # "no" \/ f # Stopper
      BY <1>1, <2>1, Zenon DEF FlushTypes
    <2>3. /\ r \in [at : {"idle", "start", "copied", "push", "done"}, list : SUBSET StatSet]
          /\ r.list = {}
      BY <1>2, <2>1, Zenon
    <2> QED
      BY <1>3, <2>1, <2>2, <2>3, Zenon
  <1>9. CASE f = Stopper /\ Stop
    <2> DEFINE r == [flush[f] EXCEPT !.at = "start"]
    <2>1. flush' = [flush EXCEPT ![f] = r] /\ stop' = "flush" /\ flush[f].at = "idle"
      BY <1>1, <1>9, Zenon DEF Stop, FlushTypes
    <2>2. flush[f].list = {}
      BY <1>1, <2>1, Zenon DEF FlushTypes
    <2>3. /\ r \in [at : {"idle", "start", "copied", "push", "done"}, list : SUBSET StatSet]
          /\ r.list = {}
      BY <1>2, <2>2, Zenon
    <2> QED
      BY <1>3, <2>1, <2>3, Zenon
  <1> QED
    BY <1>4, <1>5, <1>6, <1>7, <1>8, <1>9, Zenon

\* What the accumulator's steps leave alone, taken from AccTypes.
LEMMA AccSame ==
    ASSUME AccTypes, StatSet' = StatSet, UNCHANGED <<flush, stop>>
    PROVE  FlushTypes'
  BY Zenon DEF AccTypes, FlushTypes

\* Every step of the accumulator keeps its types.
LEMMA AccTypesStep ==
    ASSUME AccTypes, AccNext
    PROVE  AccTypes'
  <1>1. lineKey' = lineKey
    BY Zenon DEF AccNext, LoopStep, FlushStep, ProcessLine, ProcessLinePanics, TakeLine, Accumulate,
       LoopEnds, FlushTick, FlushList, Reset, PushStat, FlushEnds, Stop, StopAggregators, accVars
  <1>2. AccKeys' = AccKeys /\ StatSet' = StatSet
    BY <1>1, KeysStay, Zenon
  <1> USE DEF AccTypes
  <1>3. ASSUME NEW l \in Lines, ProcessLine(l) PROVE AccTypes'
    <2>1. FlushTypes'
      BY <1>2, <1>3, AccSame, Zenon DEF ProcessLine
    <2> QED
      BY <1>2, <1>3, <2>1, Enters, Zenon DEF ProcessLine
  <1>4. ASSUME NEW l \in Lines, ProcessLinePanics(l) PROVE AccTypes'
    <2>1. FlushTypes'
      BY <1>2, <1>4, AccSame, Zenon DEF ProcessLinePanics, accVars
    <2> QED
      BY <1>2, <1>4, <2>1, Zenon DEF ProcessLinePanics, accVars
  <1>5. CASE TakeLine
    <2>1. FlushTypes'
      BY <1>2, <1>5, AccSame, Zenon DEF TakeLine
    <2>2. Head(lineQueue) \in Lines /\ lineQueue' \in Seq(Lines)
      BY <1>5, Leaves, Zenon DEF TakeLine
    <2>3. cur' \in [at : {"new", "found", "forgotten"}, l : Lines]
      BY <1>5, <2>2, Zenon DEF TakeLine
    <2> QED
      BY <1>2, <1>5, <2>1, <2>2, <2>3, Zenon DEF TakeLine
  <1>6. CASE Accumulate
    <2>1. FlushTypes'
      BY <1>2, <1>6, AccSame, Zenon DEF Accumulate
    <2>2. cur.l \in Lines /\ cur' = NoLine
      BY <1>6, Zenon DEF Accumulate
    <2>3. wiped' \subseteq Lines
      BY <1>6, <2>2, Zenon DEF Accumulate
    <2>4. accStats' \in [AccKeys -> SUBSET Lines]
      BY <1>6, <2>2 DEF Accumulate
    <2> QED
      BY <1>2, <1>6, <2>1, <2>2, <2>3, <2>4, Zenon DEF Accumulate
  <1>7. CASE LoopEnds
    <2>1. FlushTypes'
      BY <1>2, <1>7, AccSame, Zenon DEF LoopEnds
    <2> QED
      BY <1>2, <1>7, <2>1, Zenon DEF LoopEnds
  <1>8. ASSUME NEW f \in Flushers, FlushTick(f) PROVE AccTypes'
    <2>1. f \in EveryFlusher /\ f # Stopper
      BY AccAssumption, Zenon DEF EveryFlusher
    <2>2. FlushTypes'
      BY <1>2, <1>8, <2>1, FlushTypesStep, Zenon
    <2> QED
      BY <1>2, <1>8, <2>2, Zenon DEF FlushTick
  <1>9. ASSUME NEW f \in EveryFlusher, FlushList(f) PROVE AccTypes'
    <2>1. FlushTypes'
      BY <1>2, <1>9, FlushTypesStep, Zenon
    <2>2. overlapped' \in BOOLEAN
      BY <1>9, Zenon DEF FlushList
    <2>3. UNCHANGED <<lineKey, sent, lineQueue, cur, accStats, wiped>>
      BY <1>9, Zenon DEF FlushList
    <2> QED
      BY <1>2, <2>1, <2>2, <2>3, Zenon
  <1>10. ASSUME NEW f \in EveryFlusher, Reset(f) PROVE AccTypes'
    <2>1. FlushTypes'
      BY <1>2, <1>10, FlushTypesStep, Zenon
    <2>2. cur' \in {NoLine} \cup [at : {"new", "found", "forgotten"}, l : Lines]
      BY <1>10 DEF Reset, NoLine
    <2>3. accStats' \in [AccKeys -> SUBSET Lines]
      BY <1>10, Zenon DEF Reset
    <2>4. wiped' \subseteq Lines
      BY <1>10, Zenon DEF Reset, Held
    <2> QED
      BY <1>2, <1>10, <2>1, <2>2, <2>3, <2>4, Zenon DEF Reset
  <1>11. ASSUME NEW f \in EveryFlusher, PushStat(f) PROVE AccTypes'
    <2>1. FlushTypes'
      BY <1>2, <1>11, FlushTypesStep, Zenon
    <2> QED
      BY <1>2, <1>11, <2>1, Zenon DEF PushStat
  <1>12. ASSUME NEW f \in EveryFlusher, FlushEnds(f) PROVE AccTypes'
    <2>1. FlushTypes'
      BY <1>2, <1>12, FlushTypesStep, Zenon
    <2> QED
      BY <1>2, <1>12, <2>1, Zenon DEF FlushEnds
  <1>13. CASE Stop
    <2>1. Stopper \in EveryFlusher
      BY Zenon DEF EveryFlusher
    <2>2. FlushTypes'
      BY <1>2, <1>13, <2>1, FlushTypesStep, Zenon
    <2> QED
      BY <1>2, <1>13, <2>2, Zenon DEF Stop
  <1>14. CASE StopAggregators
    <2>1. FlushTypes'
      BY <1>2, <1>14, Zenon DEF StopAggregators, accVars, FlushTypes
    <2> QED
      BY <1>2, <1>14, <2>1, Zenon DEF StopAggregators, accVars
  <1> QED
    BY <1>3, <1>4, <1>5, <1>6, <1>7, <1>8, <1>9, <1>10, <1>11, <1>12, <1>13, <1>14, Zenon
    DEF AccNext, LoopStep, FlushStep

\* What the aggregator has does not change when its variables do not.
LEMMA AddSame ==
    ASSUME AddTypes, lineKey' = lineKey, UNCHANGED <<jobs, inputChan, items, flushed, adding>>
    PROVE  AddTypes'
  <1>1. StatSet' = StatSet /\ ItemMap' = ItemMap
    BY KeysStay, Zenon
  <1> QED
    BY <1>1, Zenon DEF AddTypes, MapKey

\* PushStat hands a stat to the aggregator; the other steps of the accumulator
\* do not touch it.
LEMMA AddTypesAcc ==
    ASSUME AccTypes, AddTypes, lineKey' = lineKey, AccNext, UNCHANGED aggVars
    PROVE  AddTypes'
  <1>1. UNCHANGED <<jobs, items, flushed, adding>>
    BY Zenon DEF aggVars
  <1>2. CASE UNCHANGED inputChan
    BY <1>1, <1>2, AddSame, Zenon
  <1>3. ASSUME NEW f \in EveryFlusher, PushStat(f) PROVE AddTypes'
    <2>1. PICK s \in flush[f].list : inputChan' = Append(inputChan, s)
      BY <1>3, Zenon DEF PushStat
    <2>2. s \in StatSet
      BY Zenon DEF AccTypes, FlushTypes
    <2>3. inputChan' \in Seq(StatSet)
      BY <2>1, <2>2, Enters, Zenon DEF AddTypes
    <2>4. StatSet' = StatSet /\ ItemMap' = ItemMap
      BY KeysStay, Zenon
    <2> QED
      BY <1>1, <2>3, <2>4, Zenon DEF AddTypes, MapKey
  <1> QED
    BY <1>2, <1>3, Zenon DEF AccNext, LoopStep, FlushStep, ProcessLine, ProcessLinePanics, TakeLine,
       Accumulate, LoopEnds, FlushTick, FlushList, Reset, FlushEnds, Stop, StopAggregators

\* Every step of the aggregator keeps its types, and Add finds the item that it
\* looked up in the map or, after a tick, among those of the tick.
LEMMA AddTypesAgg ==
    ASSUME AddTypes, lineKey' = lineKey, AggNext
    PROVE  AddTypes'
  <1>1. StatSet' = StatSet /\ ItemMap' = ItemMap /\ AggKeys' = AggKeys
    BY KeysStay, Zenon
  <1>2. ASSUME UNCHANGED <<jobs, inputChan, items, flushed, adding>> PROVE AddTypes'
    BY <1>2, AddSame, Zenon
  <1>3. CASE startInputLooper
    <2>1. jobs' \in Seq(StatSet) /\ inputChan' \in Seq(StatSet)
      BY <1>3, Leaves, Enters, Zenon DEF startInputLooper, AddTypes
    <2>2. UNCHANGED <<items, flushed, adding>>
      BY <1>3, Zenon DEF startInputLooper
    <2> QED
      BY <1>1, <2>1, <2>2, Zenon DEF AddTypes, MapKey
  <1>4. ASSUME NEW i \in 1..Workers, AddLookup(i) PROVE AddTypes'
    <2>1. jobs \in Seq(StatSet) /\ i \in 1..Len(jobs) /\ UNCHANGED <<items, flushed, inputChan>>
      BY <1>4, Zenon DEF AddTypes, AddLookup
    <2>2. jobs[i] \in StatSet /\ jobs' \in Seq(StatSet)
      BY <1>4, <2>1, Removes, Zenon DEF AddLookup
    <2>3. \/ /\ adding' \in [at : {"new"}, s : StatSet]
             /\ items[MapKey(adding'.s)] = NoItem
          \/ /\ adding' \in [at : {"found"}, s : StatSet]
             /\ items[MapKey(adding'.s)] # NoItem
      BY <1>4, <2>2, Zenon DEF AddLookup
    <2>4. items'[MapKey(adding.s)'] = items[MapKey(adding'.s)]
      BY <2>1, Zenon DEF MapKey
    <2> QED
      BY <1>1, <2>1, <2>2, <2>3, <2>4, Zenon DEF AddTypes
  <1>5. CASE Add
    <2> DEFINE s == adding.s
               mk == MapKey(s)
    <2>1. /\ adding' = NoAdd /\ UNCHANGED <<jobs, inputChan>> /\ adding # NoAdd
          /\ jobs \in Seq(StatSet) /\ inputChan \in Seq(StatSet)
          /\ items \in ItemMap /\ flushed \in Seq(ItemMap)
      BY <1>5, Zenon DEF Add, AddTypes
    <2>2. s \in StatSet
      BY <2>1, Zenon DEF AddTypes
    <2>3. CASE adding.at = "new"
      <3>1. items' = [items EXCEPT ![mk] = s] /\ UNCHANGED flushed
        BY <1>5, <2>3, Zenon DEF Add
      <3> QED
        BY <1>1, <2>1, <2>2, <3>1, StoreType, Zenon DEF AddTypes
    <2>4. CASE adding.at = "found"
      <3>1. items' = [items EXCEPT ![mk] = Merged(items[mk], s)] /\ UNCHANGED flushed
        BY <1>5, <2>4, Zenon DEF Add
      <3>2. items[mk] # NoItem
        BY <2>1, <2>4, Zenon DEF AddTypes
      <3> QED
        BY <1>1, <2>1, <2>2, <3>1, <3>2, StoreType, Zenon DEF AddTypes
    <2>5. CASE adding.at = "taken"
      <3> DEFINE n == adding.n
                 m == flushed[n]
      <3>1. flushed' = [flushed EXCEPT ![n] = [m EXCEPT ![mk] = Merged(m[mk], s)]] /\ UNCHANGED items
        BY <1>5, <2>5, Zenon DEF Add
      <3>2. n \in DOMAIN flushed /\ m[mk] # NoItem /\ m \in ItemMap
        BY <2>1, <2>5 DEF AddTypes
      <3>3. [m EXCEPT ![mk] = Merged(m[mk], s)] \in ItemMap
        BY <2>2, <3>2, StoreType, Zenon
      <3>4. flushed' \in Seq(ItemMap)
        BY <2>1, <3>1, <3>2, <3>3
      <3> QED
        BY <1>1, <2>1, <3>1, <3>4, Zenon DEF AddTypes
    <2>6. adding.at \in {"new", "found", "taken"}
      BY <2>1, Zenon DEF AddTypes
    <2> QED
      BY <2>3, <2>4, <2>5, <2>6, Zenon
  <1>6. CASE WriteTick
    <2>1. /\ flushed' = Append(flushed, items) /\ items' = [mk \in AggKeys |-> NoItem]
          /\ adding' = IF adding.at = "found" THEN [at |-> "taken", s |-> adding.s, n |-> Len(flushed')] ELSE adding
          /\ UNCHANGED <<jobs, inputChan>>
      BY <1>6, Zenon DEF WriteTick
    <2>2. /\ jobs \in Seq(StatSet) /\ inputChan \in Seq(StatSet)
          /\ items \in ItemMap /\ flushed \in Seq(ItemMap)
      BY Zenon DEF AddTypes
    <2>3. /\ flushed' \in Seq(ItemMap) /\ Len(flushed') \in DOMAIN flushed'
          /\ flushed'[Len(flushed')] = items
          /\ \A n \in DOMAIN flushed : n \in DOMAIN flushed' /\ flushed'[n] = flushed[n]
      BY <2>1, <2>2
    <2>4. items' \in ItemMap /\ \A mk \in AggKeys : items'[mk] = NoItem
      BY <2>1, Zenon DEF ItemMap
    <2>5. \A s \in StatSet : MapKey(s) \in AggKeys
      BY StatFacts, Zenon
    <2>6. \/ adding' = NoAdd
          \/ adding' \in [at : {"new"}, s : StatSet] /\ items'[MapKey(adding'.s)] = NoItem
          \/ /\ adding' \in [at : {"taken"}, s : StatSet, n : DOMAIN flushed']
             /\ flushed'[adding'.n][MapKey(adding'.s)] # NoItem
      <3>1. CASE adding = NoAdd
        BY <2>1, <3>1, Zenon DEF NoAdd
      <3>2. CASE adding \in [at : {"new"}, s : StatSet]
        BY <2>1, <2>4, <2>5, <3>2, Zenon
      <3>3. CASE adding \in [at : {"found"}, s : StatSet] /\ items[MapKey(adding.s)] # NoItem
        BY <2>1, <2>3, <3>3, Zenon
      <3>4. CASE /\ adding \in [at : {"taken"}, s : StatSet, n : DOMAIN flushed]
                 /\ flushed[adding.n][MapKey(adding.s)] # NoItem
        BY <2>1, <2>3, <3>4, Zenon
      <3> QED
        BY <3>1, <3>2, <3>3, <3>4, Zenon DEF AddTypes
    <2>7. MapKey(adding.s)' = MapKey(adding'.s)
      BY Zenon DEF MapKey
    <2> QED
      BY <1>1, <2>1, <2>2, <2>3, <2>4, <2>6, <2>7, Zenon DEF AddTypes
  <1>7. CASE postBails \/ post \/ postPanics \/ WriterStep \/ StopWriter
    <2>1. UNCHANGED <<jobs, inputChan, items, flushed, adding>>
      BY <1>7, Zenon DEF postBails, post, postPanics, WriterStep, procLoop, processQueue, Poll, StopWriter, aggVars
    <2> QED
      BY <1>2, <2>1, Zenon
  <1> QED
    BY <1>3, <1>4, <1>5, <1>6, <1>7, Zenon DEF AggNext, AddStep

\* The items of a tick stay: Add may count more in one, and a tick adds its own.
LEMMA PostedGrows ==
    ASSUME AddTypes, lineKey' = lineKey, UNCHANGED flushed \/ Add \/ WriteTick
    PROVE  Posted \subseteq Posted' /\ DOMAIN flushed \subseteq DOMAIN flushed'
  <1>1. AggKeys' = AggKeys
    BY KeysStay, Zenon
  <1>2. ASSUME DOMAIN flushed \subseteq DOMAIN flushed',
               \A n \in DOMAIN flushed : \A mk \in AggKeys :
                   flushed[n][mk] # NoItem => flushed'[n][mk] # NoItem
        PROVE  Posted \subseteq Posted' /\ DOMAIN flushed \subseteq DOMAIN flushed'
    BY <1>1, <1>2, Zenon DEF Posted
  <1>3. CASE UNCHANGED flushed
    BY <1>2, <1>3, Zenon
  <1>4. CASE Add /\ adding.at = "taken"
    <2> DEFINE n == adding.n
               m == flushed[n]
               s == adding.s
               mk == MapKey(s)
    <2>1. flushed' = [flushed EXCEPT ![n] = [m EXCEPT ![mk] = Merged(m[mk], s)]]
      BY <1>4, Zenon DEF Add
    <2>2. n \in DOMAIN flushed /\ m[mk] # NoItem /\ m \in ItemMap /\ s \in StatSet /\ flushed \in Seq(ItemMap)
      BY <1>4 DEF AddTypes, NoAdd, Add
    <2>3. m[mk] \in ItemSet /\ mk \in AggKeys /\ m \in [AggKeys -> ItemSet \cup {NoItem}]
      BY <2>2, StoreType, StatFacts, Zenon DEF ItemMap
    <2>4. Merged(m[mk], s) # NoItem
      BY <2>2, <2>3, MergedType, Zenon
    <2>5. /\ DOMAIN flushed' = DOMAIN flushed
          /\ flushed'[n] = [m EXCEPT ![mk] = Merged(m[mk], s)]
          /\ \A i \in DOMAIN flushed : i # n => flushed'[i] = flushed[i]
      BY <2>1, <2>2, Zenon
    <2>6. ASSUME NEW i \in DOMAIN flushed, NEW a \in AggKeys, flushed[i][a] # NoItem
          PROVE  flushed'[i][a] # NoItem
      <3>1. CASE i = n
        BY <2>3, <2>4, <2>5, <2>6, <3>1, Zenon
      <3>2. CASE i # n
        BY <2>5, <2>6, <3>2, Zenon
      <3> QED
        BY <3>1, <3>2, Zenon
    <2> QED
      BY <1>2, <2>5, <2>6, Zenon
  <1>5. CASE Add /\ adding.at # "taken"
    <2>1. UNCHANGED flushed
      BY <1>5, Zenon DEF Add, AddTypes
    <2> QED
      BY <1>3, <2>1, Zenon
  <1>6. CASE WriteTick
    <2>1. flushed' = Append(flushed, items) /\ flushed \in Seq(ItemMap) /\ items \in ItemMap
      BY <1>6, Zenon DEF WriteTick, AddTypes
    <2>2. \A i \in DOMAIN flushed : i \in DOMAIN flushed' /\ flushed'[i] = flushed[i]
      BY <2>1
    <2> QED
      BY <1>2, <2>2, Zenon
  <1> QED
    BY <1>3, <1>4, <1>5, <1>6, Zenon

\* What the writer knows of is still there after a step that does not post.
LEMMA PostSame ==
    ASSUME PostTypes, lineKey' = lineKey, Posted \subseteq Posted', DOMAIN flushed \subseteq DOMAIN flushed',
           UNCHANGED <<posting, full, writeChan, writeQueue, ct, written>>
    PROVE  PostTypes'
  <1>1. AggKeys' = AggKeys
    BY KeysStay, Zenon
  <1>2. posting' \in Seq(Posted') /\ writeChan' \in Seq(Posted') /\ writeQueue' \in Seq(Posted')
    BY SeqWider, Zenon DEF PostTypes
  <1>3. written' \in Seq([n : DOMAIN flushed', mk : AggKeys, t : Nat, c : SUBSET Pairs])
    <2>1. [n : DOMAIN flushed, mk : AggKeys, t : Nat, c : SUBSET Pairs]
              \subseteq [n : DOMAIN flushed', mk : AggKeys, t : Nat, c : SUBSET Pairs]
      OBVIOUS
    <2> QED
      BY <2>1, SeqWider, Zenon DEF PostTypes
  <1>4. full' \subseteq Posted' /\ ct' \in 0..Len(writeQueue')
    BY Zenon DEF PostTypes
  <1> QED
    BY <1>1, <1>2, <1>3, <1>4, Zenon DEF PostTypes

\* The list of a tick: each item of the map once.
LEMMA TickList ==
    ASSUME AccTypes, AddTypes, lineKey' = lineKey, WriteTick
    PROVE  \E list \in Seq(AggKeys) :
               /\ \A i, j \in DOMAIN list : i # j => list[i] # list[j]
               /\ \A i \in DOMAIN list : items[list[i]] # NoItem /\ list[i] \in AggKeys
               /\ Sorted(list)
               /\ posting' = [i \in DOMAIN list |-> <<Len(flushed) + 1, list[i]>>]
               /\ posting' \in Seq(Posted')
               /\ DOMAIN posting' = DOMAIN list
  <1> DEFINE S == Present(items)
  <1>1. IsFiniteSet(S)
    <2> DEFINE f == [l \in Lines |-> <<lineKey[l][1], ResolutionTime(lineKey[l][2])>>]
    <2>1. f \in Surjection(Lines, AggKeys)
      BY Zenon DEF Surjection, AggKeys, AccKeys
    <2>2. IsFiniteSet(AggKeys)
      BY <2>1, AccAssumption, FS_Surjection, Zenon
    <2> QED
      BY <2>2, FS_Subset, Zenon DEF Present
  <1>2. Cardinality(S) \in Nat
    BY <1>1, FS_CardinalityType, Zenon
  <1>3. /\ flushed \in Seq(ItemMap) /\ items \in ItemMap /\ flushed' = Append(flushed, items)
    BY Zenon DEF AddTypes, WriteTick
  <1>4. Len(flushed') = Len(flushed) + 1 /\ Len(flushed) + 1 \in DOMAIN flushed' /\ flushed'[Len(flushed) + 1] = items
    BY <1>3
  <1>5. PICK list \in ListsOf(S) :
            Sorted(list) /\ posting' = [i \in DOMAIN list |-> <<Len(flushed'), list[i]>>]
    BY Zenon DEF WriteTick
  <1>6. /\ list \in [1..Cardinality(S) -> S]
        /\ \A i, j \in DOMAIN list : i # j => list[i] # list[j]
    BY <1>5, Zenon DEF ListsOf
  <1>7. list \in Seq(AggKeys) /\ \A i \in DOMAIN list : items[list[i]] # NoItem /\ list[i] \in AggKeys
    <2>1. \A i \in DOMAIN list : list[i] \in S
      BY <1>6, Zenon
    <2>2. \A i \in DOMAIN list : items[list[i]] # NoItem /\ list[i] \in AggKeys
      BY <2>1, Zenon DEF Present
    <2>3. DOMAIN list = 1..Cardinality(S) /\ list \in [1..Cardinality(S) -> AggKeys]
      BY <1>6, <2>2, Zenon
    <2> QED
      BY <1>2, <2>2, <2>3
  <1>8. AggKeys' = AggKeys
    BY KeysStay, Zenon
  <1>9. \A i \in DOMAIN list : <<Len(flushed) + 1, list[i]>> \in Posted'
    BY <1>4, <1>7, <1>8, Zenon DEF Posted
  <1>10. posting' = [i \in DOMAIN list |-> <<Len(flushed) + 1, list[i]>>] /\ DOMAIN posting' = DOMAIN list
    BY <1>4, <1>5, Zenon
  <1>11. posting' \in Seq(Posted')
    <2>1. DOMAIN list = 1..Cardinality(S)
      BY <1>6, Zenon
    <2>2. posting' \in [1..Cardinality(S) -> Posted']
      BY <1>9, <1>10, <2>1, Zenon
    <2> QED
      BY <1>2, <2>2
  <1> QED
    BY <1>5, <1>6, <1>7, <1>10, <1>11, Zenon

\* Every step of the write looper and of the writer keeps their types.
LEMMA PostTypesStep ==
    ASSUME Types, lineKey' = lineKey, AggNext
    PROVE  PostTypes'
  <1>1. AggKeys' = AggKeys
    BY KeysStay, Zenon
  <1>2. ASSUME UNCHANGED flushed
        PROVE  /\ Posted' = Posted
               /\ [n : DOMAIN flushed, mk : AggKeys, t : Nat, c : SUBSET Pairs]'
                      = [n : DOMAIN flushed, mk : AggKeys, t : Nat, c : SUBSET Pairs]
    BY <1>1, <1>2, Zenon DEF Posted
  <1>3. CASE startInputLooper \/ AddStep \/ postPanics \/ StopWriter
    <2>1. UNCHANGED <<posting, full, writeChan, writeQueue, ct, written>> /\ (UNCHANGED flushed \/ Add)
      BY <1>3, Zenon DEF startInputLooper, AddStep, AddLookup, Add, postPanics, StopWriter, aggVars
    <2> QED
      BY <2>1, PostedGrows, PostSame, Zenon DEF Types
  <1>4. CASE WriteTick
    <2>1. Posted \subseteq Posted' /\ DOMAIN flushed \subseteq DOMAIN flushed'
      BY <1>4, PostedGrows, Zenon DEF Types
    <2>2. posting' \in Seq(Posted')
      BY <1>4, TickList, Zenon DEF Types
    <2>3. UNCHANGED <<full, writeChan, writeQueue, ct, written>>
      BY <1>4, Zenon DEF WriteTick
    <2>4. writeChan \in Seq(Posted') /\ writeQueue \in Seq(Posted') /\ full \subseteq Posted'
      BY <2>1, SeqWider, Zenon DEF Types, PostTypes
    <2>5. written \in Seq([n : DOMAIN flushed', mk : AggKeys, t : Nat, c : SUBSET Pairs])
      <3>1. [n : DOMAIN flushed, mk : AggKeys, t : Nat, c : SUBSET Pairs]
                \subseteq [n : DOMAIN flushed', mk : AggKeys, t : Nat, c : SUBSET Pairs]
        BY <2>1, Zenon
      <3> QED
        BY <3>1, SeqWider, Zenon DEF Types, PostTypes
    <2>6. ct \in 0..Len(writeQueue)
      BY Zenon DEF Types, PostTypes
    <2> QED
      BY <1>1, <2>2, <2>3, <2>4, <2>5, <2>6, Zenon DEF PostTypes
  <1>5. CASE postBails
    <2>1. UNCHANGED flushed /\ posting' = <<>> /\ full' = full \cup Range(posting)
      BY <1>5, Zenon DEF postBails
    <2>2. UNCHANGED <<writeChan, writeQueue, ct, written>>
      BY <1>5, Zenon DEF postBails
    <2>3. posting' \in Seq(Posted) /\ full' \subseteq Posted
      BY <2>1 DEF Types, PostTypes, Range
    <2> QED
      BY <1>1, <1>2, <2>1, <2>2, <2>3, Zenon DEF Types, PostTypes
  <1>6. CASE post
    <2>1. UNCHANGED <<flushed, full, writeQueue, ct, written>>
      BY <1>6, Zenon DEF post
    <2>2. writeChan' \in Seq(Posted) /\ posting' \in Seq(Posted)
      BY <1>6, Enters, Leaves, Zenon DEF post, Types, PostTypes
    <2> QED
      BY <1>1, <1>2, <2>1, <2>2, Zenon DEF Types, PostTypes
  <1>7. CASE procLoop
    <2>1. UNCHANGED <<flushed, posting, ct, written>>
      BY <1>7, Zenon DEF procLoop
    <2>2. Head(writeChan) \in Posted /\ writeChan' \in Seq(Posted)
      BY <1>7, Leaves, Zenon DEF procLoop, Types, PostTypes
    <2>3. full' \subseteq Posted
      BY <1>7, <2>2, Zenon DEF procLoop, Types, PostTypes
    <2>4. writeQueue' \in Seq(Posted) /\ ct \in 0..Len(writeQueue')
      <3>1. writeQueue \in Seq(Posted) /\ ct \in 0..Len(writeQueue)
        BY Zenon DEF Types, PostTypes
      <3>2. writeQueue' = writeQueue \/ writeQueue' = Append(writeQueue, Head(writeChan))
        BY <1>7, Zenon DEF procLoop
      <3> QED
        BY <2>2, <3>1, <3>2
    <2> QED
      BY <1>1, <1>2, <2>1, <2>2, <2>3, <2>4, Zenon DEF PostTypes, Types
  <1>8. CASE processQueue
    <2>1. UNCHANGED <<flushed, posting, full, writeChan, writeQueue, written>> /\ ct' = Len(writeQueue)
      BY <1>8, Zenon DEF processQueue
    <2>2. ct' \in 0..Len(writeQueue')
      BY <2>1 DEF Types, PostTypes
    <2> QED
      BY <1>1, <1>2, <2>1, <2>2, Zenon DEF Types, PostTypes
  <1>9. CASE Poll
    <2> DEFINE e == Head(writeQueue)
               R == [n : DOMAIN flushed, mk : AggKeys, t : Nat, c : SUBSET Pairs]
    <2>1. UNCHANGED <<flushed, posting, full, writeChan>>
      BY <1>9, Zenon DEF Poll
    <2>2. /\ writeQueue \in Seq(Posted) /\ ct \in 0..Len(writeQueue) /\ ct > 0
          /\ writeQueue' = Tail(writeQueue) /\ ct' = ct - 1
      BY <1>9, Zenon DEF Poll, Types, PostTypes
    <2>3. e \in Posted /\ writeQueue' \in Seq(Posted) /\ ct' \in 0..Len(writeQueue')
      BY <2>2
    <2>4. e[1] \in DOMAIN flushed /\ e[2] \in AggKeys /\ flushed[e[1]][e[2]] # NoItem
      BY <2>3, Zenon DEF Posted
    <2>5. flushed[e[1]] \in ItemMap
      BY <2>4 DEF Types, AddTypes
    <2>6. flushed[e[1]][e[2]] \in ItemSet
      BY <2>4, <2>5, Zenon DEF ItemMap
    <2>7. [n |-> e[1], mk |-> e[2], t |-> flushed[e[1]][e[2]].t, c |-> flushed[e[1]][e[2]].c] \in R
      BY <2>4, <2>6, Zenon DEF ItemSet
    <2>8. written' = Append(written, [n |-> e[1], mk |-> e[2], t |-> flushed[e[1]][e[2]].t,
                                      c |-> flushed[e[1]][e[2]].c])
      BY <1>9, Zenon DEF Poll
    <2>9. written \in Seq(R)
      BY Zenon DEF Types, PostTypes
    <2>10. written' \in Seq(R)
      BY <2>7, <2>8, <2>9, Enters, Zenon
    <2> QED
      BY <1>1, <1>2, <2>1, <2>3, <2>10, Zenon DEF Types, PostTypes
  <1> QED
    BY <1>3, <1>4, <1>5, <1>6, <1>7, <1>8, <1>9, Zenon DEF AggNext, WriterStep

\* Everything starts empty.
LEMMA TypesInit == Init => Types
  <1> SUFFICES ASSUME Init PROVE Types
    OBVIOUS
  <1>1. FlushTypes
    BY Zenon DEF Init, AccInit, FlushTypes, EveryFlusher
  <1>2. AccTypes
    <2>1. accStats \in [AccKeys -> SUBSET Lines] /\ lineQueue \in Seq(Lines)
      BY DEF Init, AccInit
    <2> QED
      BY <1>1, <2>1, Zenon DEF AccTypes, Init, AccInit
  <1>3. AddTypes
    BY DEF AddTypes, Init, AggInit, ItemMap
  <1>4. PostTypes
    BY DEF PostTypes, Init, AggInit
  <1> QED
    BY <1>2, <1>3, <1>4, Zenon DEF Types

\* Every step of the pipeline keeps the types.
LEMMA TypesStep == Types /\ [Next]_vars => Types'
  <1> SUFFICES ASSUME Types, [Next]_vars PROVE Types'
    OBVIOUS
  <1>1. lineKey' = lineKey
    BY KeysFixed, Zenon
  <1>2. CASE AccNext /\ UNCHANGED aggVars
    <2>1. AccTypes' /\ AddTypes'
      BY <1>1, <1>2, AccTypesStep, AddTypesAcc, Zenon DEF Types
    <2>2. UNCHANGED <<flushed, posting, full, writeChan, writeQueue, ct, written>>
      BY <1>2, Zenon DEF aggVars
    <2>3. PostTypes'
      BY <1>1, <2>2, PostedGrows, PostSame, Zenon DEF Types
    <2> QED
      BY <2>1, <2>3, Zenon DEF Types
  <1>3. CASE AggNext
    <2>1. AddTypes' /\ PostTypes'
      BY <1>1, <1>3, AddTypesAgg, PostTypesStep, Zenon DEF Types
    <2>2. UNCHANGED accVars /\ (UNCHANGED stop \/ (stop = "told" /\ stop' = "done"))
      BY <1>3, Zenon DEF AggNext, startInputLooper, AddStep, AddLookup, Add, WriteTick, postBails, post, postPanics,
         WriterStep, procLoop, processQueue, Poll, StopWriter
    <2>3. AccKeys' = AccKeys /\ StatSet' = StatSet
      BY <1>1, KeysStay, Zenon
    <2>4. FlushTypes'
      BY <2>2, <2>3, Zenon DEF Types, AccTypes, FlushTypes, accVars
    <2>5. AccTypes'
      BY <2>2, <2>3, <2>4, Zenon DEF Types, AccTypes, accVars
    <2> QED
      BY <2>1, <2>5, Zenon DEF Types
  <1>4. CASE UNCHANGED vars
    <2>1. UNCHANGED <<accVars, stop, inputChan, aggVars>>
      BY <1>4, Zenon DEF vars
    <2>2. AccKeys' = AccKeys /\ StatSet' = StatSet
      BY <1>1, KeysStay, Zenon
    <2>3. FlushTypes'
      BY <2>1, <2>2, Zenon DEF Types, AccTypes, FlushTypes, accVars
    <2>4. AccTypes'
      BY <2>1, <2>2, <2>3, Zenon DEF Types, AccTypes, accVars
    <2>5. AddTypes'
      BY <1>1, <2>1, AddSame, Zenon DEF Types, aggVars
    <2>6. PostTypes'
      BY <1>1, <2>1, PostedGrows, PostSame, Zenon DEF Types, aggVars
    <2> QED
      BY <2>4, <2>5, <2>6, Zenon DEF Types
  <1> QED
    BY <1>2, <1>3, <1>4, Zenon DEF Next

-----------------------------------------------------------------------------
(* The writer gets what is posted in order.                                *)

\* Nothing follows itself.
LEMMA FollowsIsStrict ==
    ASSUME NEW e, e[1] \in Nat
    PROVE  ~Follows(e, e)
  BY DEF Follows

\* The head of one queue moves to the end of the queue ahead of it.
LEMMA OrderMoves ==
    ASSUME NEW S, NEW a \in Seq(S), NEW b \in Seq(S), b # <<>>,
           InOrder(a), InOrder(b), Behind(Range(b), Range(a))
    PROVE  /\ InOrder(Append(a, Head(b))) /\ InOrder(Tail(b)) /\ Behind(Range(Tail(b)), {Head(b)})
           /\ Range(Append(a, Head(b))) = Range(a) \cup {Head(b)}
           /\ Range(b) = Range(Tail(b)) \cup {Head(b)}
  <1> DEFINE h == Head(b)
             w == Append(a, h)
             t == Tail(b)
  <1>1. /\ h \in S /\ h = b[1] /\ Range(b) = Range(t) \cup {h} /\ DOMAIN t = 1..(Len(b) - 1)
        /\ \A i \in DOMAIN t : t[i] = b[i + 1] /\ i + 1 \in DOMAIN b
    BY Leaves, Zenon
  <1>2. /\ Range(w) = Range(a) \cup {h} /\ DOMAIN w = 1..(Len(a) + 1)
        /\ \A i \in DOMAIN a : w[i] = a[i]
        /\ w[Len(a) + 1] = h
    BY <1>1, Enters
  <1>3. DOMAIN a = 1..Len(a) /\ Len(a) \in Nat /\ DOMAIN b = 1..Len(b) /\ Len(b) \in Nat
    OBVIOUS
  <1> HIDE DEF h, w, t
  <1>4. InOrder(w)
    <2> SUFFICES ASSUME NEW i \in DOMAIN w, NEW j \in DOMAIN w, i < j PROVE Follows(w[j], w[i])
      BY Zenon DEF InOrder
    <2>1. i \in DOMAIN a
      BY <1>2, <1>3
    <2>2. CASE j \in DOMAIN a
      BY <1>2, <2>1, <2>2, Zenon DEF InOrder
    <2>3. CASE j \notin DOMAIN a
      <3>1. j = Len(a) + 1
        BY <1>2, <1>3, <2>3
      <3>2. a[i] \in Range(a) /\ h \in Range(b)
        BY <1>1, <2>1, Zenon DEF Range
      <3> QED
        BY <1>2, <2>1, <3>1, <3>2, Zenon DEF Behind
    <2> QED
      BY <2>2, <2>3, Zenon
  <1>5. InOrder(t)
    <2> SUFFICES ASSUME NEW i \in DOMAIN t, NEW j \in DOMAIN t, i < j PROVE Follows(t[j], t[i])
      BY Zenon DEF InOrder
    <2>1. i + 1 \in DOMAIN b /\ j + 1 \in DOMAIN b /\ i + 1 < j + 1
      BY <1>1, <1>3
    <2> QED
      BY <1>1, <2>1, Zenon DEF InOrder
  <1>6. Behind(Range(t), {h})
    <2> SUFFICES ASSUME NEW i \in DOMAIN t PROVE Follows(t[i], h)
      BY Zenon DEF Behind, Range
    <2>1. i + 1 \in DOMAIN b /\ 1 \in DOMAIN b /\ 1 < i + 1
      BY <1>1, <1>3
    <2> QED
      BY <1>1, <2>1, Zenon DEF InOrder
  <1> QED
    BY <1>1, <1>2, <1>4, <1>5, <1>6, Zenon DEF h, w, t

\* An entry that is behind others is none of them.
LEMMA BehindApart ==
    ASSUME NEW D \in SUBSET Posted, NEW E, Behind(D, E), flushed \in Seq(ItemMap)
    PROVE  D \cap E = {}
  <1> SUFFICES ASSUME NEW e \in D, e \in E PROVE FALSE
    OBVIOUS
  <1>1. e[1] \in Nat
    BY DEF Posted
  <1>2. Follows(e, e)
    BY Zenon DEF Behind
  <1> QED
    BY <1>1, <1>2, FollowsIsStrict, Zenon

\* What was written is a sequence of entries, and Poll adds its own to it.
LEMMA DoneType ==
    ASSUME AddTypes, PostTypes
    PROVE  /\ Done \in Seq((DOMAIN flushed) \X AggKeys)
           /\ \A e \in Posted : e \in (DOMAIN flushed) \X AggKeys
           /\ DOMAIN Done = DOMAIN written
           /\ \A i \in DOMAIN written : Done[i] = <<written[i].n, written[i].mk>>
  <1> DEFINE R == [n : DOMAIN flushed, mk : AggKeys, t : Nat, c : SUBSET Pairs]
  <1>1. written \in Seq(R)
    BY Zenon DEF PostTypes
  <1>2. \A i \in DOMAIN written : <<written[i].n, written[i].mk>> \in (DOMAIN flushed) \X AggKeys
    <2>1. \A r \in R : <<r.n, r.mk>> \in (DOMAIN flushed) \X AggKeys
      OBVIOUS
    <2> HIDE DEF R
    <2>2. \A i \in DOMAIN written : written[i] \in R
      BY <1>1
    <2> QED
      BY <2>1, <2>2, Zenon
  <1>3. Len(written) \in Nat /\ DOMAIN written = 1..Len(written)
    BY <1>1
  <1>4. Done \in [1..Len(written) -> (DOMAIN flushed) \X AggKeys]
    BY <1>2, <1>3, Zenon DEF Done
  <1> QED
    BY <1>3, <1>4 DEF Done, Posted

\* The first entries of a sequence.
LEMMA PollAppends ==
    ASSUME AddTypes, PostTypes, Poll
    PROVE  Done' = Append(Done, Head(writeQueue)) /\ writeQueue # <<>>
  <1> DEFINE e == Head(writeQueue)
             r == [n |-> e[1], mk |-> e[2], t |-> flushed[e[1]][e[2]].t, c |-> flushed[e[1]][e[2]].c]
             R == [n : DOMAIN flushed, mk : AggKeys, t : Nat, c : SUBSET Pairs]
  <1>1. writeQueue \in Seq(Posted) /\ ct \in 0..Len(writeQueue) /\ ct > 0
    BY Zenon DEF Poll, PostTypes
  <1>2. e \in Posted /\ writeQueue # <<>>
    BY <1>1
  <1>3. e = <<e[1], e[2]>>
    BY <1>2 DEF Posted
  <1>4. written' = Append(written, r)
    BY Zenon DEF Poll
  <1>5. written \in Seq(R)
    BY Zenon DEF PostTypes
  <1>6. /\ DOMAIN written' = 1..(Len(written) + 1) /\ written'[Len(written) + 1] = r
        /\ \A i \in DOMAIN written : written'[i] = written[i]
        /\ DOMAIN written = 1..Len(written) /\ Len(written) \in Nat
    <2> HIDE DEF r, R
    <2> QED
      BY <1>4, <1>5
  <1>7. r.n = e[1] /\ r.mk = e[2]
    OBVIOUS
  <1> HIDE DEF e, r
  <1>8. /\ Done \in Seq((DOMAIN flushed) \X AggKeys) /\ Len(Done) = Len(written)
        /\ \A i \in DOMAIN written : Done[i] = <<written[i].n, written[i].mk>>
    BY <1>6, DoneType
  <1>9. e \in (DOMAIN flushed) \X AggKeys
    BY <1>2, DoneType, Zenon
  <1>10. /\ Append(Done, e) \in [1..(Len(written) + 1) -> (DOMAIN flushed) \X AggKeys]
         /\ Append(Done, e)[Len(written) + 1] = e
         /\ \A i \in 1..Len(written) : Append(Done, e)[i] = Done[i]
    <2> DEFINE D == (DOMAIN flushed) \X AggKeys
    <2>1. Done \in Seq(D) /\ e \in D
      BY <1>8, <1>9, Zenon
    <2> HIDE DEF D
    <2>2. /\ Append(Done, e) \in Seq(D)
          /\ DOMAIN Append(Done, e) = 1..(Len(Done) + 1)
          /\ Append(Done, e)[Len(Done) + 1] = e
          /\ \A i \in DOMAIN Done : Append(Done, e)[i] = Done[i]
      BY <2>1, Enters
    <2>3. DOMAIN Done = 1..Len(written)
      BY <1>8, <2>1
    <2>4. Append(Done, e) \in [1..(Len(written) + 1) -> D]
      <3>1. \A q \in Seq(D) : q \in [DOMAIN q -> D]
        OBVIOUS
      <3> QED
        BY <1>8, <2>2, <3>1, Zenon
    <2> QED
      BY <1>8, <2>2, <2>3, <2>4, Zenon DEF D
  <1>11. Done' = [i \in 1..(Len(written) + 1) |-> <<written'[i].n, written'[i].mk>>]
    BY <1>6, Zenon DEF Done
  <1>12. \A i \in 1..(Len(written) + 1) : <<written'[i].n, written'[i].mk>> = Append(Done, e)[i]
    BY <1>3, <1>6, <1>7, <1>8, <1>10
  <1> QED
    BY <1>2, <1>10, <1>11, <1>12, Zenon DEF e

\* Every step keeps what is posted in order and apart from what was dropped.
LEMMA OrderStep ==
    ASSUME Types, OrderInv, [Next]_vars
    PROVE  OrderInv'
  <1> DEFINE P == Range(posting)
             C == Range(writeChan)
             Q == Range(writeQueue)
             D == Range(Done)
             W == (DOMAIN flushed) \X AggKeys
  <1>1. lineKey' = lineKey
    BY KeysFixed, Zenon
  <1>2. /\ posting \in Seq(Posted) /\ writeChan \in Seq(Posted) /\ writeQueue \in Seq(Posted)
        /\ full \subseteq Posted /\ flushed \in Seq(ItemMap)
    BY Zenon DEF Types, PostTypes, AddTypes
  <1>3. P \subseteq Posted /\ C \subseteq Posted /\ Q \subseteq Posted
    BY <1>2 DEF Range
  <1>4. /\ Done \in Seq(W) /\ Posted \subseteq W
    BY DoneType, Zenon DEF Types
  <1> HIDE DEF W
  <1>5. /\ InOrder(Done) /\ InOrder(writeQueue) /\ InOrder(writeChan) /\ InOrder(posting)
        /\ Behind(P, D) /\ Behind(C, D) /\ Behind(Q, D)
        /\ Behind(P, Q) /\ Behind(C, Q) /\ Behind(P, C)
        /\ full \cap (P \cup C \cup Q \cup D) = {}
    BY Zenon DEF OrderInv, Behind
  <1>6. ASSUME UNCHANGED <<posting, full, writeChan, writeQueue, written>> PROVE OrderInv'
    BY <1>6, Zenon DEF OrderInv, Done
  <1>7. CASE AccNext /\ UNCHANGED aggVars
    BY <1>6, <1>7, Zenon DEF aggVars
  <1>8. CASE startInputLooper \/ AddStep \/ postPanics \/ processQueue \/ StopWriter
    <2>1. UNCHANGED <<posting, full, writeChan, writeQueue, written>>
      BY <1>8, Zenon DEF startInputLooper, AddStep, AddLookup, Add, postPanics, StopWriter, processQueue, aggVars
    <2> QED
      BY <1>6, <2>1, Zenon
  <1>9. CASE WriteTick
    <2>1. PICK list \in Seq(AggKeys) :
              /\ \A i, j \in DOMAIN list : i # j => list[i] # list[j]
              /\ \A i \in DOMAIN list : items[list[i]] # NoItem /\ list[i] \in AggKeys
              /\ Sorted(list)
              /\ posting' = [i \in DOMAIN list |-> <<Len(flushed) + 1, list[i]>>]
              /\ DOMAIN posting' = DOMAIN list
      BY <1>1, <1>9, TickList, Zenon DEF Types
    <2>2. posting = <<>> /\ UNCHANGED <<full, writeChan, writeQueue, written, Done>>
      BY <1>9, Zenon DEF WriteTick, Done
    <2>3. \A i \in DOMAIN list : posting'[i] = <<Len(flushed) + 1, list[i]>>
      BY <2>1, Zenon
    <2>4. InOrder(posting')
      <3> SUFFICES ASSUME NEW i \in DOMAIN list, NEW j \in DOMAIN list, i < j
                   PROVE  Follows(posting'[j], posting'[i])
        BY <2>1, Zenon DEF InOrder
      <3>1. items[list[i]].t <= items[list[j]].t
        BY <2>1, Zenon DEF Sorted
      <3>2. list[i] \in AggKeys /\ list[j] \in AggKeys /\ items[list[i]] # NoItem /\ items[list[j]] # NoItem
        BY <2>1, Zenon
      <3>3. list[i] # list[j]
        BY <2>1
      <3>4. /\ items[list[i]] \in ItemSet /\ items[list[j]] \in ItemSet
            /\ InBucket(list[i], items[list[i]]) /\ InBucket(list[j], items[list[j]])
        BY <3>2, Zenon DEF Types, AddTypes, ItemMap
      <3>5. items[list[i]].t \in Nat /\ items[list[j]].t \in Nat
        BY <3>4, Zenon DEF ItemSet
      <3>6. PICK t \in Nat : list[i][2] = ResolutionTime(t)
        BY <3>2, KeyFacts, Zenon DEF Types, AccTypes
      <3>7. PICK u \in Nat : list[j][2] = ResolutionTime(u)
        BY <3>2, KeyFacts, Zenon DEF Types, AccTypes
      <3>8. ResolutionTime(t) \in Nat /\ ResolutionTime(u) \in Nat /\ Resolution \in Nat
        BY BucketOf, AggAssumption, Zenon
      <3>9. ResolutionTime(t) < ResolutionTime(u) + Resolution
        <4>1. /\ ResolutionTime(t) <= items[list[i]].t
              /\ items[list[j]].t < ResolutionTime(u) + Resolution
          BY <3>4, <3>6, <3>7, Zenon DEF InBucket
        <4> QED
          BY <3>1, <3>5, <3>8, <4>1, SMTT(30)
      <3>10. list[i][2] <= list[j][2]
        BY <3>6, <3>7, <3>9, BucketOrder, Zenon
      <3> QED
        BY <2>3, <3>3, <3>10 DEF Follows
    <2>5. \A d \in Range(posting') : d[1] = Len(flushed) + 1
      BY <2>1, <2>3 DEF Range
    <2>6. \A e \in W : e[1] \in Nat /\ e[1] < Len(flushed) + 1
      BY <1>2 DEF W
    <2>7. \A E \in SUBSET W : Behind(Range(posting'), E)
      BY <2>5, <2>6, Zenon DEF Behind, Follows
    <2>8. C \subseteq W /\ Q \subseteq W /\ D \subseteq W /\ full \subseteq W
      BY <1>2, <1>3, <1>4 DEF Range
    <2>9. Behind(Range(posting'), C) /\ Behind(Range(posting'), Q) /\ Behind(Range(posting'), D)
      BY <2>7, <2>8, Zenon
    <2>10. full \cap Range(posting') = {}
      BY <2>5, <2>6, <2>8, <1>2
    <2> QED
      BY <1>5, <2>2, <2>4, <2>9, <2>10, Zenon DEF OrderInv, Behind
  <1>10. CASE postBails
    <2>1. UNCHANGED <<writeChan, writeQueue, written, Done>> /\ posting' = <<>> /\ full' = full \cup P
      BY <1>10, Zenon DEF postBails, Done
    <2>2. Range(posting') = {} /\ InOrder(posting')
      BY <2>1 DEF Range, InOrder
    <2>3. P \cap C = {} /\ P \cap Q = {} /\ P \cap D = {}
      BY <1>2, <1>3, <1>5, BehindApart, Zenon
    <2>4. full' \cap (Range(posting') \cup C \cup Q \cup D) = {}
      BY <1>5, <2>1, <2>2, <2>3, Zenon
    <2> QED
      BY <1>5, <2>1, <2>2, <2>4, Zenon DEF OrderInv, Behind
  <1>11. CASE post
    <2> DEFINE h == Head(posting)
    <2>1. /\ UNCHANGED <<full, writeQueue, written, Done>> /\ posting # <<>>
          /\ writeChan' = Append(writeChan, h) /\ posting' = Tail(posting)
      BY <1>11, Zenon DEF post, Done
    <2>2. /\ InOrder(writeChan') /\ InOrder(posting') /\ Behind(Range(posting'), {h})
          /\ Range(writeChan') = C \cup {h} /\ P = Range(posting') \cup {h}
      <3>1. /\ InOrder(Append(writeChan, Head(posting))) /\ InOrder(Tail(posting)) /\ Behind(Range(Tail(posting)), {Head(posting)})
            /\ Range(Append(writeChan, Head(posting))) = Range(writeChan) \cup {Head(posting)}
            /\ Range(posting) = Range(Tail(posting)) \cup {Head(posting)}
        BY <1>2, <1>5, <2>1, OrderMoves, Zenon
      <3> QED
        BY <2>1, <3>1, Zenon
    <2> QED
      BY <1>5, <2>1, <2>2, Zenon DEF OrderInv, Behind
  <1>12. CASE procLoop
    <2> DEFINE h == Head(writeChan)
    <2>1. UNCHANGED <<posting, written, Done>> /\ writeChan # <<>> /\ writeChan' = Tail(writeChan)
      BY <1>12, Zenon DEF procLoop, Done
    <2>2. /\ InOrder(Append(writeQueue, h)) /\ InOrder(writeChan') /\ Behind(Range(writeChan'), {h})
          /\ Range(Append(writeQueue, h)) = Q \cup {h} /\ C = Range(writeChan') \cup {h}
      <3>1. /\ InOrder(Append(writeQueue, Head(writeChan))) /\ InOrder(Tail(writeChan)) /\ Behind(Range(Tail(writeChan)), {Head(writeChan)})
            /\ Range(Append(writeQueue, Head(writeChan))) = Range(writeQueue) \cup {Head(writeChan)}
            /\ Range(writeChan) = Range(Tail(writeChan)) \cup {Head(writeChan)}
        BY <1>2, <1>5, <2>1, OrderMoves, Zenon
      <3> QED
        BY <2>1, <3>1, Zenon
    <2>3. CASE full' = full \cup {h} /\ UNCHANGED writeQueue
      <3>1. h \notin P /\ h \notin Q /\ h \notin D
        <4>1. P \cap C = {} /\ C \cap Q = {} /\ C \cap D = {}
          BY <1>2, <1>3, <1>5, BehindApart, Zenon
        <4> QED
          BY <2>2, <4>1, Zenon
      <3>2. h \notin Range(writeChan')
        <4>1. Range(writeChan') \subseteq Posted
          BY <1>3, <2>2, Zenon
        <4>2. Range(writeChan') \cap {h} = {}
          BY <1>2, <2>2, <4>1, BehindApart, Zenon
        <4> QED
          BY <4>2, Zenon
      <3>3. full' \cap (P \cup Range(writeChan') \cup Q \cup D) = {}
        BY <1>5, <2>2, <2>3, <3>1, <3>2, Zenon
      <3> QED
        BY <1>5, <2>1, <2>2, <2>3, <3>3, Zenon DEF OrderInv, Behind
    <2>4. CASE writeQueue' = Append(writeQueue, h) /\ UNCHANGED full
      <3>1. Behind(P, {h})
        BY <1>5, <2>2, Zenon DEF Behind
      <3>2. full' \cap (P \cup Range(writeChan') \cup Range(writeQueue') \cup D) = {}
        BY <1>5, <2>2, <2>4, Zenon
      <3> QED
        BY <1>5, <2>1, <2>2, <2>4, <3>1, <3>2 DEF OrderInv, Behind
    <2> QED
      BY <1>12, <2>3, <2>4, Zenon DEF procLoop
  <1>13. CASE Poll
    <2> DEFINE h == Head(writeQueue)
    <2>1. UNCHANGED <<posting, full, writeChan>> /\ writeQueue' = Tail(writeQueue)
      BY <1>13, Zenon DEF Poll
    <2>2. Done' = Append(Done, h) /\ writeQueue # <<>>
      BY <1>13, PollAppends, Zenon DEF Types
    <2>3. writeQueue \in Seq(W)
      BY <1>2, <1>4, SeqWider, Zenon
    <2>4. /\ InOrder(Done') /\ InOrder(writeQueue') /\ Behind(Range(writeQueue'), {h})
          /\ Range(Done') = D \cup {h} /\ Q = Range(writeQueue') \cup {h}
      <3>1. /\ InOrder(Append(Done, Head(writeQueue))) /\ InOrder(Tail(writeQueue)) /\ Behind(Range(Tail(writeQueue)), {Head(writeQueue)})
            /\ Range(Append(Done, Head(writeQueue))) = Range(Done) \cup {Head(writeQueue)}
            /\ Range(writeQueue) = Range(Tail(writeQueue)) \cup {Head(writeQueue)}
        BY <1>4, <1>5, <2>2, <2>3, OrderMoves, Zenon
      <3> QED
        BY <2>1, <2>2, <3>1, Zenon
    <2>5. Behind(P, {h}) /\ Behind(C, {h})
      BY <1>5, <2>4, Zenon DEF Behind
    <2>6. full' \cap (P \cup C \cup Range(writeQueue') \cup Range(Done')) = {}
      BY <1>5, <2>1, <2>4, Zenon
    <2> QED
      BY <1>5, <2>1, <2>4, <2>5, <2>6, Zenon DEF OrderInv, Behind
  <1>14. CASE UNCHANGED vars
    BY <1>6, <1>14, Zenon DEF vars, aggVars
  <1> QED
    BY <1>7, <1>8, <1>9, <1>10, <1>11, <1>12, <1>13, <1>14, Zenon DEF Next, AggNext, WriterStep

\* Types and order together.
LEMMA PostedInOrder == Spec => [](Types /\ OrderInv)
  <1>1. Init => Types /\ OrderInv
    <2> SUFFICES ASSUME Init PROVE OrderInv
      BY TypesInit, Zenon
    <2>1. posting = <<>> /\ writeChan = <<>> /\ writeQueue = <<>> /\ written = <<>> /\ full = {}
      BY Zenon DEF Init, AggInit
    <2>2. Done = <<>> /\ Range(<<>>) = {} /\ InOrder(<<>>)
      BY <2>1 DEF Done, Range, InOrder
    <2> QED
      BY <2>1, <2>2, Zenon DEF OrderInv, Behind
  <1>2. (Types /\ OrderInv) /\ [Next]_vars => (Types /\ OrderInv)'
    BY TypesStep, OrderStep, Zenon
  <1> QED
    BY <1>1, <1>2, PTL DEF Spec

\* metrics.Write is given the items of one tick after those of the tick before,
\* and the items of a tick by time bucket, each of them once, whatever Push and
\* post drop in between.
THEOREM WriterGetsThemInOrder == Spec => []WrittenInOrder
  <1>1. Types /\ OrderInv => WrittenInOrder
    <2> SUFFICES ASSUME Types, OrderInv, NEW i \in DOMAIN written, NEW j \in DOMAIN written, i < j
                 PROVE  \/ written[i].n < written[j].n
                        \/ /\ written[i].n = written[j].n /\ written[i].mk # written[j].mk
                           /\ written[i].mk[2] <= written[j].mk[2]
      BY Zenon DEF WrittenInOrder
    <2>1. /\ DOMAIN Done = DOMAIN written
          /\ Done[i] = <<written[i].n, written[i].mk>> /\ Done[j] = <<written[j].n, written[j].mk>>
      BY DoneType, Zenon DEF Types
    <2>2. Follows(Done[j], Done[i])
      BY <2>1, Zenon DEF OrderInv, InOrder
    <2> QED
      BY <2>1, <2>2 DEF Follows
  <1> QED
    BY <1>1, PostedInOrder, PTL

-----------------------------------------------------------------------------
(* Copies of a line that a step moves.                                     *)

\* A place that loses the copies X of a line keeps T of A; one that has T and
\* gains X then has A.  Only none, one and more copies are told apart.
Loses(A, T, X) ==
    /\ A = {} <=> T = {} /\ X = {}
    /\ Single(A) => Single(T) /\ Single(X) /\ (T = {} \/ X = {})
Gains(A, T, X) ==
    /\ A = {} <=> T = {} /\ X = {}
    /\ Single(T) /\ Single(X) /\ (T = {} \/ X = {}) => Single(A)

Moved(R, V, a, b, X) ==
    /\ a \in Places /\ b \in Places /\ a # b
    /\ \A p \in Places \ {a, b} : V[p] = R[p]
    /\ Loses(R[a], V[a], X) /\ Gains(V[b], R[b], X)

\* Copies that move from one place to another are neither lost nor doubled.
LEMMA CopiesMove ==
    ASSUME NEW R, NEW V, NEW a, NEW b, NEW X, Moved(R, V, a, b, X)
    PROVE  (OneSpot(R) => OneSpot(V)) /\ (None(V) <=> None(R))
  <1>0. /\ a \in Places /\ b \in Places /\ a # b
        /\ \A p \in Places \ {a, b} : V[p] = R[p]
        /\ Loses(R[a], V[a], X) /\ Gains(V[b], R[b], X)
    BY Zenon DEF Moved
  <1>1. ASSUME OneSpot(R) PROVE OneSpot(V)
    <2>1. /\ \A p \in Places : Single(R[p])
          /\ \A p, q \in Places : p # q => R[p] = {} \/ R[q] = {}
      BY <1>1, Zenon DEF OneSpot
    <2>2. Single(V[a]) /\ Single(X) /\ (V[a] = {} \/ X = {}) /\ (R[a] = {} <=> V[a] = {} /\ X = {})
      BY <1>0, <2>1, Zenon DEF Loses
    <2>3. R[b] = {} \/ X = {}
      BY <1>0, <2>1, <2>2, Zenon
    <2>4. Single(V[b]) /\ (V[b] = {} <=> R[b] = {} /\ X = {})
      BY <1>0, <2>1, <2>2, <2>3, Zenon DEF Gains
    <2>5. \A p \in Places : Single(V[p])
      BY <1>0, <2>1, <2>2, <2>4, Zenon
    <2>6. ASSUME NEW p \in Places, NEW q \in Places, p # q PROVE V[p] = {} \/ V[q] = {}
      BY <1>0, <2>1, <2>2, <2>4, <2>6, Zenon
    <2> QED
      BY <2>5, <2>6, Zenon DEF OneSpot
  <1>2. None(V) <=> None(R)
    BY <1>0, Zenon DEF None, Loses, Gains
  <1> QED
    BY <1>1, <1>2, Zenon

\* An added stat adds its copies to a channel or to the jobs.
LEMMA SeqGains ==
    ASSUME NEW S, NEW q \in Seq(S), NEW s \in S, NEW l
    PROVE  Gains(InSeq(l, Append(q, s)), InSeq(l, q), By(l, s.c))
  <1> DEFINE w == Append(q, s)
             n == Len(q) + 1
  <1>1. /\ DOMAIN w = 1..n /\ w[n] = s /\ Len(q) \in Nat /\ DOMAIN q = 1..Len(q)
        /\ \A i \in DOMAIN q : w[i] = q[i]
    BY Enters
  <1>2. n \in DOMAIN w /\ n \notin DOMAIN q /\ DOMAIN w = DOMAIN q \cup {n}
    BY <1>1
  <1> HIDE DEF w, n
  <1>3. By(l, s.c) \subseteq EveryFlusher
    BY Zenon DEF By
  <1>4. /\ \A x \in InSeq(l, w) : \/ x \in InSeq(l, q)
                                  \/ x = <<n, x[2]>> /\ x[2] \in By(l, s.c)
        /\ InSeq(l, q) \subseteq InSeq(l, w)
        /\ \A g \in By(l, s.c) : <<n, g>> \in InSeq(l, w)
    <2>1. ASSUME NEW x \in InSeq(l, w)
          PROVE  x \in InSeq(l, q) \/ (x = <<n, x[2]>> /\ x[2] \in By(l, s.c))
      <3>1. x \in (DOMAIN w) \X EveryFlusher /\ x[2] \in By(l, w[x[1]].c)
        BY Zenon DEF InSeq
      <3>2. x[1] = n \/ x[1] \in DOMAIN q
        BY <1>2, <3>1, Zenon
      <3> QED
        BY <1>1, <3>1, <3>2 DEF InSeq
    <2>2. InSeq(l, q) \subseteq InSeq(l, w)
      BY <1>1, <1>2, Zenon DEF InSeq
    <2>3. \A g \in By(l, s.c) : <<n, g>> \in InSeq(l, w)
      BY <1>1, <1>2, <1>3, Zenon DEF InSeq
    <2> QED
      BY <2>1, <2>2, <2>3, Zenon
  <1>5. InSeq(l, w) = {} <=> InSeq(l, q) = {} /\ By(l, s.c) = {}
    BY <1>4, Zenon
  <1>6. Single(InSeq(l, q)) /\ Single(By(l, s.c)) /\ (InSeq(l, q) = {} \/ By(l, s.c) = {}) => Single(InSeq(l, w))
    BY <1>4, Zenon DEF Single
  <1> QED
    BY <1>5, <1>6, Zenon DEF Gains, w

\* The head of a channel takes its copies along.
LEMMA HeadLoses ==
    ASSUME NEW S, NEW q \in Seq(S), q # <<>>, NEW l
    PROVE  Loses(InSeq(l, q), InSeq(l, Tail(q)), By(l, Head(q).c))
  <1> DEFINE w == Tail(q)
             s == Head(q)
  <1>1. /\ s = q[1] /\ DOMAIN w = 1..(Len(q) - 1)
        /\ \A i \in DOMAIN w : w[i] = q[i + 1] /\ i + 1 \in DOMAIN q
        /\ DOMAIN q = 1..Len(q) /\ Len(q) \in Nat /\ Len(q) >= 1
    BY Leaves
  <1> HIDE DEF w, s
  <1>2. By(l, s.c) \subseteq EveryFlusher
    BY Zenon DEF By
  <1>3. \A g \in By(l, s.c) : <<1, g>> \in InSeq(l, q)
    BY <1>1, <1>2 DEF InSeq
  <1>4. \A x \in InSeq(l, w) : <<x[1] + 1, x[2]>> \in InSeq(l, q) /\ x = <<x[1], x[2]>> /\ x[1] \in Nat /\ x[1] >= 1
    BY <1>1 DEF InSeq
  <1>5. \A x \in InSeq(l, q) : \/ x = <<1, x[2]>> /\ x[2] \in By(l, s.c)
                               \/ <<x[1] - 1, x[2]>> \in InSeq(l, w)
    BY <1>1 DEF InSeq
  <1>6. InSeq(l, q) = {} <=> InSeq(l, w) = {} /\ By(l, s.c) = {}
    BY <1>3, <1>4, <1>5, Zenon
  <1>7. ASSUME Single(InSeq(l, q))
        PROVE  Single(InSeq(l, w)) /\ Single(By(l, s.c)) /\ (InSeq(l, w) = {} \/ By(l, s.c) = {})
    <2>1. Single(InSeq(l, w))
      <3> SUFFICES ASSUME NEW x \in InSeq(l, w), NEW y \in InSeq(l, w) PROVE x = y
        BY Zenon DEF Single
      <3>1. <<x[1] + 1, x[2]>> = <<y[1] + 1, y[2]>>
        BY <1>4, <1>7, Zenon DEF Single
      <3>2. x[1] \in Nat /\ y[1] \in Nat /\ x = <<x[1], x[2]>> /\ y = <<y[1], y[2]>>
        BY <1>4, Zenon
      <3>3. x[1] + 1 = y[1] + 1 /\ x[2] = y[2]
        BY <3>1, Zenon
      <3>4. x[1] = y[1]
        BY <3>2, <3>3
      <3> QED
        BY <3>2, <3>3, <3>4, Zenon
    <2>2. Single(By(l, s.c))
      BY <1>3, <1>7, Zenon DEF Single
    <2>3. ASSUME NEW x \in InSeq(l, w), NEW g \in By(l, s.c) PROVE FALSE
      <3>1. <<x[1] + 1, x[2]>> = <<1, g>>
        BY <1>3, <1>4, <1>7, Zenon DEF Single
      <3>2. x[1] \in Nat /\ x[1] >= 1
        BY <1>4, Zenon
      <3>3. x[1] + 1 = 1
        BY <3>1, Zenon
      <3> QED
        BY <3>2, <3>3
    <2> QED
      BY <2>1, <2>2, <2>3, Zenon
  <1> QED
    BY <1>6, <1>7, Zenon DEF Loses, w, s

\* A job that a worker takes takes its copies along.
LEMMA RemoveLoses ==
    ASSUME NEW S, NEW q \in Seq(S), NEW i \in 1..Len(q), NEW l
    PROVE  Loses(InSeq(l, q), InSeq(l, Remove(q, i)), By(l, q[i].c))
  <1> DEFINE w == Remove(q, i)
             s == q[i]
             up(j) == IF j < i THEN j ELSE j + 1
             down(j) == IF j < i THEN j ELSE j - 1
  <1>1. /\ DOMAIN w = 1..(Len(q) - 1) /\ DOMAIN q = 1..Len(q) /\ Len(q) \in Nat
        /\ \A j \in DOMAIN w : IF j < i THEN w[j] = q[j] /\ j \in DOMAIN q
                               ELSE w[j] = q[j + 1] /\ j + 1 \in DOMAIN q
    BY Removes
  <1> HIDE DEF w
  <1>2. \A j \in DOMAIN w : up(j) \in DOMAIN q /\ up(j) # i /\ w[j] = q[up(j)]
    BY <1>1
  <1>3. \A j \in DOMAIN q : j = i \/ (down(j) \in DOMAIN w /\ w[down(j)] = q[j])
    BY <1>1
  <1>4. \A j, k \in DOMAIN w : up(j) = up(k) => j = k
    BY <1>1
  <1>5. By(l, s.c) \subseteq EveryFlusher /\ i \in DOMAIN q
    BY <1>1, Zenon DEF By
  <1> HIDE DEF up, down
  <1>6. \A g \in By(l, s.c) : <<i, g>> \in InSeq(l, q)
    BY <1>5, Zenon DEF InSeq
  <1>7. \A x \in InSeq(l, w) : <<up(x[1]), x[2]>> \in InSeq(l, q) /\ x = <<x[1], x[2]>> /\ x[1] \in DOMAIN w
    BY <1>2 DEF InSeq
  <1>8. \A x \in InSeq(l, q) : \/ x = <<i, x[2]>> /\ x[2] \in By(l, s.c)
                               \/ <<down(x[1]), x[2]>> \in InSeq(l, w)
    BY <1>3 DEF InSeq
  <1> HIDE DEF s
  <1>9. InSeq(l, q) = {} <=> InSeq(l, w) = {} /\ By(l, s.c) = {}
    BY <1>6, <1>7, <1>8, Zenon
  <1>10. ASSUME Single(InSeq(l, q))
         PROVE  Single(InSeq(l, w)) /\ Single(By(l, s.c)) /\ (InSeq(l, w) = {} \/ By(l, s.c) = {})
    <2>1. Single(InSeq(l, w))
      BY <1>4, <1>7, <1>10, Zenon DEF Single
    <2>2. Single(By(l, s.c))
      BY <1>6, <1>10, Zenon DEF Single
    <2>3. ASSUME NEW x \in InSeq(l, w), NEW g \in By(l, s.c) PROVE FALSE
      BY <1>2, <1>6, <1>7, <1>10, Zenon DEF Single
    <2> QED
      BY <2>1, <2>2, <2>3, Zenon
  <1> QED
    BY <1>9, <1>10, Zenon DEF Loses, w, s

\* A stat that is stored in a map, or merged into an item of it, adds its copies.
LEMMA MapGains ==
    ASSUME NEW m \in ItemMap, NEW mk \in AggKeys, NEW x, NEW c, NEW l,
           x.c = m[mk].c \cup c
    PROVE  Gains(InMap(l, [m EXCEPT ![mk] = x]), InMap(l, m), By(l, c))
  <1> DEFINE w == [m EXCEPT ![mk] = x]
  <1>1. /\ w[mk] = x
        /\ \A a \in AggKeys : a # mk => w[a] = m[a]
    BY Zenon DEF ItemMap
  <1> HIDE DEF w
  <1>2. By(l, x.c) = By(l, m[mk].c) \cup By(l, c) /\ By(l, c) \subseteq EveryFlusher
    BY Zenon DEF By
  <1>3. ASSUME NEW y \in InMap(l, w)
        PROVE  y \in InMap(l, m) \/ (y = <<mk, y[2]>> /\ y[2] \in By(l, c))
    <2>1. y \in AggKeys \X EveryFlusher /\ y[2] \in By(l, w[y[1]].c)
      BY Zenon DEF InMap
    <2>2. CASE y[1] = mk
      <3>1. y[2] \in By(l, m[mk].c) \cup By(l, c) /\ y = <<mk, y[2]>>
        <4>1. y[2] \in By(l, x.c)
          BY <1>1, <2>1, <2>2, Zenon
        <4>2. y = <<y[1], y[2]>>
          BY <2>1
        <4> QED
          BY <1>2, <2>2, <4>1, <4>2, Zenon
      <3> QED
        BY <2>1, <2>2, <3>1, Zenon DEF InMap
    <2>3. CASE y[1] # mk
      BY <1>1, <2>1, <2>3, Zenon DEF InMap
    <2> QED
      BY <2>2, <2>3, Zenon
  <1>4. InMap(l, m) \subseteq InMap(l, w)
    BY <1>1, <1>2, Zenon DEF InMap
  <1>5. \A g \in By(l, c) : <<mk, g>> \in InMap(l, w)
    BY <1>1, <1>2, Zenon DEF InMap
  <1>6. InMap(l, w) = {} <=> InMap(l, m) = {} /\ By(l, c) = {}
    BY <1>3, <1>4, <1>5, Zenon
  <1>7. Single(InMap(l, m)) /\ Single(By(l, c)) /\ (InMap(l, m) = {} \/ By(l, c) = {}) => Single(InMap(l, w))
    BY <1>3, Zenon DEF Single
  <1> QED
    BY <1>6, <1>7, Zenon DEF Gains, w

\* A change of one map among those of the ticks changes the copies in it alone.
LEMMA TickGains ==
    ASSUME NEW h \in Seq(ItemMap), NEW n \in DOMAIN h, NEW m \in ItemMap, NEW X, NEW l,
           Gains(InMap(l, m), InMap(l, h[n]), X)
    PROVE  Gains(InTicks(l, [h EXCEPT ![n] = m]), InTicks(l, h), X)
  <1> DEFINE w == [h EXCEPT ![n] = m]
  <1>1. /\ DOMAIN w = DOMAIN h /\ w[n] = m
        /\ \A i \in DOMAIN h : i # n => w[i] = h[i]
    OBVIOUS
  <1> HIDE DEF w
  <1>2. /\ \A y \in InTicks(l, w) : y[1] # n => y \in InTicks(l, h)
        /\ \A y \in InTicks(l, w) : y[1] = n => y = <<n, y[2], y[3]>> /\ <<y[2], y[3]>> \in InMap(l, m)
    BY <1>1 DEF InTicks, InMap
  <1>3. /\ \A y \in InTicks(l, h) : y[1] # n => y \in InTicks(l, w)
        /\ \A y \in InTicks(l, h) : y[1] = n => y = <<n, y[2], y[3]>> /\ <<y[2], y[3]>> \in InMap(l, h[n])
    BY <1>1 DEF InTicks, InMap
  <1>4. \A z \in InMap(l, m) : <<n, z[1], z[2]>> \in InTicks(l, w) /\ z = <<z[1], z[2]>>
    BY <1>1 DEF InTicks, InMap
  <1>5. \A z \in InMap(l, h[n]) : <<n, z[1], z[2]>> \in InTicks(l, h) /\ z = <<z[1], z[2]>>
    BY DEF InTicks, InMap
  <1>6. InTicks(l, w) = {} <=> InTicks(l, h) = {} /\ X = {}
    BY <1>2, <1>3, <1>4, <1>5, Zenon DEF Gains
  <1>7. ASSUME Single(InTicks(l, h)), Single(X), InTicks(l, h) = {} \/ X = {}
        PROVE  Single(InTicks(l, w))
    <2>1. Single(InMap(l, h[n]))
      <3> SUFFICES ASSUME NEW y \in InMap(l, h[n]), NEW z \in InMap(l, h[n]) PROVE y = z
        BY Zenon DEF Single
      <3>1. <<n, y[1], y[2]>> = <<n, z[1], z[2]>>
        BY <1>5, <1>7, Zenon DEF Single
      <3> QED
        BY <1>5, <3>1, Zenon
    <2>2. InMap(l, h[n]) = {} \/ X = {}
      BY <1>5, <1>7, Zenon
    <2>3. Single(InMap(l, m)) /\ (InMap(l, m) # {} => InMap(l, h[n]) # {} \/ X # {})
      BY <1>7, <2>1, <2>2, Zenon DEF Gains
    <2> SUFFICES ASSUME NEW y \in InTicks(l, w), NEW z \in InTicks(l, w) PROVE y = z
      BY Zenon DEF Single
    <2>4. CASE y[1] = n /\ z[1] = n
      <3>1. <<y[2], y[3]>> = <<z[2], z[3]>> /\ y = <<n, y[2], y[3]>> /\ z = <<n, z[2], z[3]>>
        BY <1>2, <2>3, <2>4, Zenon DEF Single
      <3> QED
        BY <3>1, Zenon
    <2>5. CASE y[1] # n /\ z[1] # n
      <3>1. y \in InTicks(l, h) /\ z \in InTicks(l, h)
        BY <1>2, <2>5, Zenon
      <3> QED
        BY <1>7, <3>1, Zenon DEF Single
    <2>6. ASSUME NEW a \in InTicks(l, w), NEW b \in InTicks(l, w), a[1] = n, b[1] # n PROVE FALSE
      <3>1. b \in InTicks(l, h) /\ <<a[2], a[3]>> \in InMap(l, m)
        BY <1>2, <2>6, Zenon
      <3>2. X = {}
        BY <1>7, <3>1, Zenon
      <3>3. PICK e \in InMap(l, h[n]) : TRUE
        BY <2>3, <3>1, <3>2, Zenon
      <3>4. <<n, e[1], e[2]>> = b
        BY <1>5, <1>7, <3>1, <3>3, Zenon DEF Single
      <3> QED
        BY <2>6, <3>4, Zenon
    <2> QED
      BY <2>4, <2>5, <2>6, Zenon
  <1> QED
    BY <1>6, <1>7, Zenon DEF Gains, w

\* A tick appends its map.
LEMMA NewTickGains ==
    ASSUME NEW h \in Seq(ItemMap), NEW m \in ItemMap, NEW l
    PROVE  Gains(InTicks(l, Append(h, m)), InTicks(l, h), InMap(l, m))
  <1> DEFINE w == Append(h, m)
             n == Len(h) + 1
  <1>1. /\ DOMAIN w = 1..n /\ w[n] = m /\ Len(h) \in Nat /\ DOMAIN h = 1..Len(h)
        /\ \A i \in DOMAIN h : w[i] = h[i]
    BY Enters
  <1>2. n \in DOMAIN w /\ n \notin DOMAIN h /\ DOMAIN w = DOMAIN h \cup {n}
    BY <1>1
  <1> HIDE DEF w, n
  <1>3. ASSUME NEW y \in InTicks(l, w)
        PROVE  y \in InTicks(l, h) \/ (y = <<n, y[2], y[3]>> /\ <<y[2], y[3]>> \in InMap(l, m))
    <2>1. y \in (DOMAIN w) \X AggKeys \X EveryFlusher /\ y[3] \in By(l, w[y[1]][y[2]].c)
      BY Zenon DEF InTicks
    <2>2. CASE y[1] = n
      BY <1>1, <2>1, <2>2 DEF InMap
    <2>3. CASE y[1] \in DOMAIN h
      BY <1>1, <2>1, <2>3, Zenon DEF InTicks
    <2> QED
      BY <1>2, <2>1, <2>2, <2>3, Zenon
  <1>4. InTicks(l, h) \subseteq InTicks(l, w)
    BY <1>1, <1>2, Zenon DEF InTicks
  <1>5. \A z \in InMap(l, m) : <<n, z[1], z[2]>> \in InTicks(l, w)
    BY <1>1, <1>2, Zenon DEF InTicks, InMap
  <1>6. InTicks(l, w) = {} <=> InTicks(l, h) = {} /\ InMap(l, m) = {}
    BY <1>3, <1>4, <1>5, Zenon
  <1>7. ASSUME Single(InTicks(l, h)), Single(InMap(l, m)), InTicks(l, h) = {} \/ InMap(l, m) = {}
        PROVE  Single(InTicks(l, w))
    <2> SUFFICES ASSUME NEW y \in InTicks(l, w), NEW z \in InTicks(l, w) PROVE y = z
      BY Zenon DEF Single
    <2>1. CASE InMap(l, m) = {}
      BY <1>3, <1>7, <2>1, Zenon DEF Single
    <2>2. CASE InTicks(l, h) = {}
      <3>1. /\ <<y[2], y[3]>> = <<z[2], z[3]>>
            /\ y = <<n, y[2], y[3]>> /\ z = <<n, z[2], z[3]>>
        BY <1>3, <1>7, <2>2, Zenon DEF Single
      <3> QED
        BY <3>1, Zenon
    <2> QED
      BY <1>7, <2>1, <2>2, Zenon
  <1> QED
    BY <1>6, <1>7, Zenon DEF Gains, w

\* PushStat takes the copies of its stat from the list of the flusher.
LEMMA PushLoses ==
    ASSUME FlushTypes, NEW f \in EveryFlusher, NEW s \in flush[f].list, NEW l,
           flush' = [flush EXCEPT ![f].list = @ \ {s}]
    PROVE  /\ Loses(InLists(l, flush), InLists(l, flush'), By(l, s.c))
           /\ InLists(l, flush') \subseteq InLists(l, flush)
           /\ \A g \in By(l, s.c) : <<f, s, g>> \in InLists(l, flush)
           /\ \A h \in EveryFlusher : flush'[h].at = flush[h].at
  <1> DEFINE A == InLists(l, flush)
             T == InLists(l, flush')
             X == By(l, s.c)
  <1>1. /\ \A h \in EveryFlusher : flush'[h].list = IF h = f THEN flush[f].list \ {s} ELSE flush[h].list
        /\ \A h \in EveryFlusher : flush'[h].at = flush[h].at
    BY Zenon DEF FlushTypes
  <1>2. X \subseteq EveryFlusher
    BY Zenon DEF By
  <1>3. \A g \in X : <<f, s, g>> \in A
    BY <1>2, Zenon DEF InLists
  <1>4. ASSUME NEW y \in T PROVE y \in A /\ ~(y[1] = f /\ y[2] = s)
    <2>1. /\ y \in EveryFlusher \X (UNION {flush'[h].list : h \in EveryFlusher}) \X EveryFlusher
          /\ y[2] \in flush'[y[1]].list /\ y[3] \in By(l, y[2].c)
      BY Zenon DEF InLists
    <2>2. /\ y[1] \in EveryFlusher /\ y[3] \in EveryFlusher /\ y = <<y[1], y[2], y[3]>>
      BY <2>1
    <2>3. y[2] \in flush[y[1]].list /\ ~(y[1] = f /\ y[2] = s)
      BY <1>1, <2>1, <2>2
    <2> QED
      BY <2>1, <2>2, <2>3, Zenon DEF InLists
  <1>5. ASSUME NEW y \in A, ~(y[1] = f /\ y[2] = s) PROVE y \in T
    <2>1. /\ y \in EveryFlusher \X (UNION {flush[h].list : h \in EveryFlusher}) \X EveryFlusher
          /\ y[2] \in flush[y[1]].list /\ y[3] \in By(l, y[2].c)
      BY Zenon DEF InLists
    <2>2. y[1] \in EveryFlusher /\ y[3] \in EveryFlusher /\ y = <<y[1], y[2], y[3]>>
      BY <2>1
    <2>3. y[2] \in flush'[y[1]].list
      BY <1>1, <1>5, <2>1, <2>2
    <2> QED
      BY <2>1, <2>2, <2>3, Zenon DEF InLists
  <1>6. \A y \in A : y[1] = f /\ y[2] = s => y[3] \in X
    BY Zenon DEF InLists
  <1> HIDE DEF A, T, X
  <1>7. A = {} <=> T = {} /\ X = {}
    BY <1>3, <1>4, <1>5, <1>6, Zenon
  <1>8. ASSUME Single(A) PROVE Single(T) /\ Single(X) /\ (T = {} \/ X = {})
    <2>1. Single(T)
      BY <1>4, <1>8, Zenon DEF Single
    <2>2. Single(X)
      <3> SUFFICES ASSUME NEW g \in X, NEW h \in X PROVE g = h
        BY Zenon DEF Single
      <3>1. <<f, s, g>> = <<f, s, h>>
        BY <1>3, <1>8, Zenon DEF Single
      <3> QED
        BY <3>1, Zenon
    <2>3. ASSUME NEW y \in T, NEW g \in X PROVE FALSE
      <3>1. y = <<f, s, g>>
        BY <1>3, <1>4, <1>8, Zenon DEF Single
      <3> QED
        BY <1>4, <3>1, Zenon
    <2> QED
      BY <2>1, <2>2, <2>3, Zenon
  <1>9. Loses(A, T, X)
    BY <1>7, <1>8, Zenon DEF Loses
  <1> QED
    BY <1>1, <1>3, <1>4, <1>9, Zenon DEF A, T, X

\* FlushList adds one copy of each line in the map.
LEMMA CopyGains ==
    ASSUME AccTypes, NEW f \in EveryFlusher, FlushList(f), NEW l,
           \A mk \in AccKeys : l \in accStats[mk] => lineKey[l] = mk
    PROVE  /\ Gains(InLists(l, flush'), InLists(l, flush), IF l \in Held THEN {f} ELSE {})
           /\ \A y \in InLists(l, flush') : y \in InLists(l, flush) \/ (y[1] = f /\ l \in Held)
           /\ flush'[f].at = "copied"
           /\ \A h \in EveryFlusher : h # f => flush'[h] = flush[h]
           /\ InLists(l, flush) \subseteq InLists(l, flush')
           /\ \A y \in InLists(l, flush) : y[1] # f
  <1> DEFINE K == {x \in AccKeys : accStats[x] # {}}
             L == {Stat(mk, accStats[mk], f) : mk \in K}
             A == InLists(l, flush')
             T == InLists(l, flush)
             X == IF l \in Held THEN {f} ELSE {}
  <1>1. /\ flush' = [flush EXCEPT ![f] = [at |-> "copied", list |-> L]]
        /\ flush[f].at = "start"
    BY Zenon DEF FlushList
  <1>2. FlushTypes /\ accStats \in [AccKeys -> SUBSET Lines]
    BY Zenon DEF AccTypes
  <1>3. flush[f].list = {}
    BY <1>1, <1>2, Zenon DEF FlushTypes
  <1> HIDE DEF L
  <1>4. /\ flush'[f].list = L /\ flush'[f].at = "copied"
        /\ \A h \in EveryFlusher : h # f => flush'[h] = flush[h]
    BY <1>1, <1>2, Zenon DEF FlushTypes
  <1>5. \A s \in L : \A g : <<l, g>> \in s.c <=> g = f /\ \E mk \in K : s = Stat(mk, accStats[mk], f) /\ l \in accStats[mk]
    BY DEF L, Stat
  <1>6. \A s \in L : By(l, s.c) # {} => l \in Held /\ s = Stat(lineKey[l], accStats[lineKey[l]], f) /\ By(l, s.c) = {f}
    <2> SUFFICES ASSUME NEW s \in L, By(l, s.c) # {}
                 PROVE  l \in Held /\ s = Stat(lineKey[l], accStats[lineKey[l]], f) /\ By(l, s.c) = {f}
      BY Zenon
    <2>1. PICK g \in EveryFlusher : <<l, g>> \in s.c
      BY Zenon DEF By
    <2>2. PICK mk \in K : s = Stat(mk, accStats[mk], f) /\ l \in accStats[mk]
      BY <1>5, <2>1, Zenon
    <2>3. lineKey[l] = mk /\ l \in Held
      BY <2>2, Zenon DEF Held
    <2>4. By(l, s.c) = {f}
      BY <1>5, <2>2, Zenon DEF By
    <2> QED
      BY <2>2, <2>3, <2>4, Zenon
  <1>7. ASSUME l \in Held PROVE \E s \in L : By(l, s.c) # {}
    <2>1. PICK mk \in AccKeys : l \in accStats[mk]
      BY <1>7, Zenon DEF Held
    <2>2. mk \in K /\ Stat(mk, accStats[mk], f) \in L
      BY <2>1, Zenon DEF L
    <2>3. <<l, f>> \in Stat(mk, accStats[mk], f).c
      BY <2>1, Zenon DEF Stat
    <2> QED
      BY <2>2, <2>3, Zenon DEF By
  <1>8. ASSUME NEW y \in A
        PROVE  \/ y \in T
               \/ /\ l \in Held /\ y[1] = f
                  /\ y = <<f, Stat(lineKey[l], accStats[lineKey[l]], f), f>>
    <2>1. /\ y \in EveryFlusher \X (UNION {flush'[h].list : h \in EveryFlusher}) \X EveryFlusher
          /\ y[2] \in flush'[y[1]].list /\ y[3] \in By(l, y[2].c)
      BY Zenon DEF InLists
    <2>2. y[1] \in EveryFlusher /\ y[3] \in EveryFlusher /\ y = <<y[1], y[2], y[3]>>
      BY <2>1
    <2>3. CASE y[1] = f
      <3>1. y[2] \in L /\ By(l, y[2].c) # {}
        BY <1>4, <2>1, <2>3, Zenon
      <3>2. l \in Held /\ y[2] = Stat(lineKey[l], accStats[lineKey[l]], f) /\ y[3] = f
        BY <1>6, <2>1, <3>1, Zenon
      <3> QED
        BY <2>2, <2>3, <3>2, Zenon
    <2>4. CASE y[1] # f
      <3>1. y[2] \in flush[y[1]].list
        BY <1>4, <2>1, <2>2, <2>4, Zenon
      <3> QED
        BY <2>1, <2>2, <3>1, Zenon DEF InLists
    <2> QED
      BY <2>3, <2>4, Zenon
  <1>9. ASSUME NEW y \in T PROVE y \in A /\ y[1] # f
    <2>1. /\ y \in EveryFlusher \X (UNION {flush[h].list : h \in EveryFlusher}) \X EveryFlusher
          /\ y[2] \in flush[y[1]].list /\ y[3] \in By(l, y[2].c)
      BY Zenon DEF InLists
    <2>2. y[1] \in EveryFlusher /\ y[3] \in EveryFlusher /\ y = <<y[1], y[2], y[3]>>
      BY <2>1
    <2>3. y[1] # f
      BY <1>3, <2>1, Zenon
    <2>4. y[2] \in flush'[y[1]].list
      BY <1>4, <2>1, <2>2, <2>3, Zenon
    <2> QED
      BY <2>1, <2>2, <2>3, <2>4, Zenon DEF InLists
  <1>10. ASSUME l \in Held PROVE A # {}
    <2>1. PICK s \in L : By(l, s.c) # {}
      BY <1>7, <1>10, Zenon
    <2>2. By(l, s.c) = {f}
      BY <1>6, <2>1, Zenon
    <2>3. <<f, s, f>> \in A
      BY <1>4, <2>1, <2>2, Zenon DEF InLists
    <2> QED
      BY <2>3, Zenon
  <1> HIDE DEF A, T
  <1>11. A = {} <=> T = {} /\ X = {}
    BY <1>8, <1>9, <1>10, Zenon
  <1>12. Single(T) /\ Single(X) /\ (T = {} \/ X = {}) => Single(A)
    BY <1>8, Zenon DEF Single
  <1>13. Gains(A, T, X)
    BY <1>11, <1>12, Zenon DEF Gains
  <1> QED
    BY <1>4, <1>8, <1>9, <1>13, Zenon DEF A, T

-----------------------------------------------------------------------------
(* The aggregation loop moves the copies of a line on.                     *)

\* What a step that only moves copies on does with those of a line: none is
\* lost or doubled; and what is still in the accumulator stays there.
OnlyMoved(R, V) == (OneSpot(R) => OneSpot(V)) /\ (None(V) <=> None(R))
Beyond(R) == \E p \in Places \ {1} : R[p] # {}
Shift(R, V) == OnlyMoved(R, V) /\ V[1] = R[1] /\ (Beyond(V) => Beyond(R))

\* The places of the copies of a line, one by one.
LEMMA SpotsNow ==
    ASSUME NEW l
    PROVE  /\ Spots(l)[1] = InLists(l, flush) /\ Spots(l)[2] = InSeq(l, inputChan)
           /\ Spots(l)[3] = InSeq(l, jobs) /\ Spots(l)[4] = InAdd(l)
           /\ Spots(l)[5] = InMap(l, items) /\ Spots(l)[6] = InTicks(l, flushed)
  <1> DEFINE a == InLists(l, flush)
             b == InSeq(l, inputChan)
             c == InSeq(l, jobs)
             d == InAdd(l)
             e == InMap(l, items)
             g == InTicks(l, flushed)
             R == Spots(l)
  <1>1. R = [p \in Places |-> CASE p = 1 -> a [] p = 2 -> b [] p = 3 -> c
                               [] p = 4 -> d [] p = 5 -> e [] p = 6 -> g]
    BY Zenon DEF Spots
  <1> HIDE DEF a, b, c, d, e, g, R
  <1>2. R[1] = a /\ R[2] = b /\ R[3] = c /\ R[4] = d /\ R[5] = e /\ R[6] = g
    BY <1>1 DEF Places
  <1> QED
    BY <1>2, Zenon DEF a, b, c, d, e, g, R

\* The same, before and after a step.
LEMMA SpotsAre ==
    ASSUME NEW l, lineKey' = lineKey
    PROVE  /\ Spots(l)[1] = InLists(l, flush) /\ Spots(l)'[1] = InLists(l, flush')
           /\ Spots(l)[2] = InSeq(l, inputChan) /\ Spots(l)'[2] = InSeq(l, inputChan')
           /\ Spots(l)[3] = InSeq(l, jobs) /\ Spots(l)'[3] = InSeq(l, jobs')
           /\ Spots(l)[4] = InAdd(l) /\ Spots(l)'[4] = InAdd(l)'
           /\ Spots(l)[5] = InMap(l, items) /\ Spots(l)'[5] = InMap(l, items')
           /\ Spots(l)[6] = InTicks(l, flushed) /\ Spots(l)'[6] = InTicks(l, flushed')
  <1>1. AggKeys' = AggKeys
    BY KeysStay, Zenon
  <1>2. /\ InLists(l, flush)' = InLists(l, flush')
        /\ InSeq(l, inputChan)' = InSeq(l, inputChan')
        /\ InSeq(l, jobs)' = InSeq(l, jobs')
        /\ InMap(l, items)' = InMap(l, items')
        /\ InTicks(l, flushed)' = InTicks(l, flushed')
    BY <1>1, Zenon DEF InLists, InSeq, InMap, InTicks, By
  <1> DEFINE a == InLists(l, flush)'
             b == InSeq(l, inputChan)'
             c == InSeq(l, jobs)'
             d == InAdd(l)'
             e == InMap(l, items)'
             g == InTicks(l, flushed)'
             V == Spots(l)'
  <1>3. V = [p \in Places |-> CASE p = 1 -> a [] p = 2 -> b [] p = 3 -> c
                               [] p = 4 -> d [] p = 5 -> e [] p = 6 -> g]
    BY Zenon DEF Spots
  <1> HIDE DEF a, b, c, d, e, g, V
  <1>4. V[1] = a /\ V[2] = b /\ V[3] = c /\ V[4] = d /\ V[5] = e /\ V[6] = g
    BY <1>3 DEF Places
  <1>5. /\ Spots(l)'[1] = InLists(l, flush') /\ Spots(l)'[2] = InSeq(l, inputChan')
        /\ Spots(l)'[3] = InSeq(l, jobs') /\ Spots(l)'[4] = InAdd(l)'
        /\ Spots(l)'[5] = InMap(l, items') /\ Spots(l)'[6] = InTicks(l, flushed')
    BY <1>2, <1>4, Zenon DEF a, b, c, d, e, g, V
  <1> QED
    BY <1>5, SpotsNow, Zenon

\* There are six places.
LEMMA SixPlaces ==
    /\ \A p \in Places : p = 1 \/ p = 2 \/ p = 3 \/ p = 4 \/ p = 5 \/ p = 6
    /\ 1 \in Places /\ 2 \in Places /\ 3 \in Places /\ 4 \in Places /\ 5 \in Places /\ 6 \in Places
    /\ 2 # 1 /\ 3 # 1 /\ 4 # 1 /\ 5 # 1 /\ 6 # 1 /\ 1 # 2
    /\ 2 # 3 /\ 3 # 4 /\ 4 # 5 /\ 4 # 6 /\ 5 # 6
  BY DEF Places

\* The copies in a place stay when the step leaves the place alone.
LEMMA SpotStays ==
    ASSUME NEW l, lineKey' = lineKey
    PROVE  /\ inputChan' = inputChan => Spots(l)'[2] = Spots(l)[2]
           /\ jobs' = jobs => Spots(l)'[3] = Spots(l)[3]
           /\ adding' = adding => Spots(l)'[4] = Spots(l)[4]
           /\ items' = items => Spots(l)'[5] = Spots(l)[5]
           /\ flushed' = flushed => Spots(l)'[6] = Spots(l)[6]
  <1> DEFINE R == Spots(l)
             V == Spots(l)'
  <1>1. adding' = adding => InAdd(l)' = InAdd(l)
    BY Zenon DEF InAdd, By
  <1>2. /\ R[2] = InSeq(l, inputChan) /\ V[2] = InSeq(l, inputChan')
        /\ R[3] = InSeq(l, jobs) /\ V[3] = InSeq(l, jobs')
        /\ R[4] = InAdd(l) /\ V[4] = InAdd(l)'
        /\ R[5] = InMap(l, items) /\ V[5] = InMap(l, items')
        /\ R[6] = InTicks(l, flushed) /\ V[6] = InTicks(l, flushed')
    BY SpotsAre, Zenon
  <1> HIDE DEF R, V
  <1>3. (inputChan' = inputChan => V[2] = R[2]) /\ (jobs' = jobs => V[3] = R[3])
    BY <1>2
  <1>4. adding' = adding => V[4] = R[4]
    BY <1>1, <1>2
  <1>5. (items' = items => V[5] = R[5]) /\ (flushed' = flushed => V[6] = R[6])
    BY <1>2
  <1> QED
    BY <1>3, <1>4, <1>5, Zenon DEF R, V

\* A step that changes none of the places moves no copy.
LEMMA SpotsStay ==
    ASSUME NEW l, lineKey' = lineKey, InLists(l, flush') = InLists(l, flush),
           UNCHANGED <<inputChan, jobs, adding, items, flushed>>
    PROVE  \A p \in Places : Spots(l)'[p] = Spots(l)[p]
  <1> DEFINE R == Spots(l)
             V == Spots(l)'
  <1>0. inputChan' = inputChan /\ jobs' = jobs /\ adding' = adding /\ items' = items /\ flushed' = flushed
    OBVIOUS
  <1>1. V[1] = R[1]
    <2>1. R[1] = InLists(l, flush) /\ V[1] = InLists(l, flush')
      BY SpotsAre, Zenon
    <2> QED
      BY <2>1, Zenon
  <1>2. V[2] = R[2] /\ V[3] = R[3] /\ V[4] = R[4] /\ V[5] = R[5] /\ V[6] = R[6]
    BY <1>0, SpotStays, Zenon
  <1> HIDE DEF R, V
  <1>3. \A p \in Places : V[p] = R[p]
    BY <1>1, <1>2, SixPlaces, Zenon
  <1> QED
    BY <1>3, Zenon DEF R, V

\* A step that leaves every place as it is, such as those of the writer loop,
\* moves copies on in the weakest sense.
LEMMA SameIsShift ==
    ASSUME NEW R, NEW V, \A p \in Places : V[p] = R[p]
    PROVE  Shift(R, V)
  <1>1. 1 \in Places
    BY DEF Places
  <1>2. OneSpot(R) => OneSpot(V)
    BY Zenon DEF OneSpot
  <1>3. None(V) <=> None(R)
    BY Zenon DEF None
  <1>4. Beyond(V) => Beyond(R)
    BY Zenon DEF Beyond
  <1> QED
    BY <1>1, <1>2, <1>3, <1>4, Zenon DEF Shift, OnlyMoved

\* So does one that moves copies between two places behind the accumulator.
LEMMA MoveIsShift ==
    ASSUME NEW R, NEW V, NEW a, NEW b, NEW X, Moved(R, V, a, b, X), a # 1, b # 1
    PROVE  Shift(R, V)
  <1>0. /\ a \in Places /\ b \in Places
        /\ \A p \in Places \ {a, b} : V[p] = R[p]
        /\ Loses(R[a], V[a], X) /\ Gains(V[b], R[b], X)
    BY Zenon DEF Moved
  <1>1. 1 \in Places /\ V[1] = R[1]
    BY <1>0 DEF Places
  <1>2. OnlyMoved(R, V)
    BY CopiesMove, Zenon DEF OnlyMoved
  <1>3. ASSUME ~Beyond(R) PROVE ~Beyond(V)
    <2>1. R[a] = {} /\ R[b] = {}
      BY <1>0, <1>3, Zenon DEF Beyond
    <2>2. V[a] = {} /\ V[b] = {}
      BY <1>0, <2>1, Zenon DEF Loses, Gains
    <2> QED
      BY <1>0, <1>3, <2>2, Zenon DEF Beyond
  <1> QED
    BY <1>1, <1>2, <1>3, Zenon DEF Shift

\* What leaves a place for good leaves nothing; what enters an empty one is all.
LEMMA AllLeaves ==
    ASSUME NEW X
    PROVE  Loses(X, {}, X) /\ Gains(X, {}, X)
  <1>1. Single({})
    BY Zenon DEF Single
  <1> QED
    BY <1>1, Zenon DEF Loses, Gains

\* The aggregation loop only moves copies on: from InputChan to the jobs, to the
\* stat that Add works on, to the item in the map, or in the tick that took it,
\* and with a tick from the map to the items of the tick.
LEMMA AggMoves ==
    ASSUME AddTypes, lineKey' = lineKey, UNCHANGED flush, AggNext, NEW l
    PROVE  Shift(Spots(l), Spots(l)')
  <1> DEFINE R == Spots(l)
             V == Spots(l)'
  <1>1. /\ R[1] = InLists(l, flush) /\ V[1] = InLists(l, flush')
        /\ R[2] = InSeq(l, inputChan) /\ V[2] = InSeq(l, inputChan')
        /\ R[3] = InSeq(l, jobs) /\ V[3] = InSeq(l, jobs')
        /\ R[4] = InAdd(l) /\ V[4] = InAdd(l)'
        /\ R[5] = InMap(l, items) /\ V[5] = InMap(l, items')
        /\ R[6] = InTicks(l, flushed) /\ V[6] = InTicks(l, flushed')
    BY SpotsAre, Zenon
  <1>2. /\ jobs \in Seq(StatSet) /\ inputChan \in Seq(StatSet)
        /\ items \in ItemMap /\ flushed \in Seq(ItemMap)
    BY Zenon DEF AddTypes
  <1>3. ASSUME UNCHANGED <<inputChan, jobs, adding, items, flushed>> PROVE Shift(R, V)
    BY <1>3, SpotsStay, SameIsShift, Zenon
  <1>4. ASSUME UNCHANGED adding PROVE InAdd(l)' = InAdd(l)
    BY <1>4, Zenon DEF InAdd, By
  <1>5. ASSUME NEW a, NEW b, NEW X, Moved(R, V, a, b, X), a # 1, b # 1 PROVE Shift(R, V)
    BY <1>5, MoveIsShift, Zenon
  <1>6. CASE startInputLooper
    <2>1. /\ inputChan # <<>> /\ jobs' = Append(jobs, Head(inputChan)) /\ inputChan' = Tail(inputChan)
          /\ adding' = adding /\ items' = items /\ flushed' = flushed
      BY <1>6, Zenon DEF startInputLooper
    <2>2. Loses(R[2], V[2], By(l, Head(inputChan).c))
      BY <1>1, <1>2, <2>1, HeadLoses, Zenon
    <2>3. Gains(V[3], R[3], By(l, Head(inputChan).c))
      <3>1. Head(inputChan) \in StatSet
        BY <1>2, <2>1
      <3> QED
        BY <1>1, <1>2, <2>1, <3>1, SeqGains, Zenon
    <2>4. V[1] = R[1] /\ V[4] = R[4] /\ V[5] = R[5] /\ V[6] = R[6]
      BY <1>1, <1>4, <2>1, Zenon
    <2> HIDE DEF R, V
    <2>5. 2 \in Places /\ 3 \in Places /\ 2 # 1 /\ 3 # 1 /\ 2 # 3 /\ \A p \in Places \ {2, 3} : V[p] = R[p]
      BY <2>4, SixPlaces, Zenon
    <2>6. Moved(R, V, 2, 3, By(l, Head(inputChan).c))
      BY <2>2, <2>3, <2>5, Zenon DEF Moved
    <2> QED
      BY <1>5, <2>5, <2>6, Zenon DEF R, V
  <1>7. ASSUME NEW i \in 1..Workers, AddLookup(i) PROVE Shift(R, V)
    <2>1. /\ adding = NoAdd /\ i \in 1..Len(jobs) /\ jobs' = Remove(jobs, i)
          /\ adding' = [at |-> IF items[MapKey(jobs[i])] = NoItem THEN "new" ELSE "found", s |-> jobs[i]]
          /\ inputChan' = inputChan /\ items' = items /\ flushed' = flushed
      BY <1>7, Zenon DEF AddLookup
    <2>2. adding' # NoAdd /\ adding'.s = jobs[i]
      BY <2>1, Zenon DEF NoAdd
    <2>3. V[4] = By(l, jobs[i].c) /\ R[4] = {}
      BY <1>1, <2>1, <2>2, Zenon DEF InAdd, By
    <2>4. Loses(R[3], V[3], By(l, jobs[i].c))
      BY <1>1, <1>2, <2>1, RemoveLoses, Zenon
    <2>5. Gains(V[4], R[4], By(l, jobs[i].c))
      BY <2>3, AllLeaves, Zenon
    <2>6. V[1] = R[1] /\ V[2] = R[2] /\ V[5] = R[5] /\ V[6] = R[6]
      BY <1>1, <2>1, Zenon
    <2> HIDE DEF R, V
    <2>7. 3 \in Places /\ 4 \in Places /\ 3 # 1 /\ 4 # 1 /\ 3 # 4 /\ \A p \in Places \ {3, 4} : V[p] = R[p]
      BY <2>6, SixPlaces, Zenon
    <2>8. Moved(R, V, 3, 4, By(l, jobs[i].c))
      BY <2>4, <2>5, <2>7, Zenon DEF Moved
    <2> QED
      BY <1>5, <2>7, <2>8, Zenon
  <1>8. CASE Add
    <2> DEFINE s == adding.s
               mk == MapKey(s)
    <2>1. adding' = NoAdd /\ inputChan' = inputChan /\ jobs' = jobs /\ adding # NoAdd
      BY <1>8, Zenon DEF Add
    <2>2. s \in StatSet /\ mk \in AggKeys
      BY <2>1, StatFacts, Zenon DEF AddTypes
    <2>3. V[4] = {} /\ R[4] = By(l, s.c)
      BY <1>1, <2>1, Zenon DEF InAdd
    <2>4. Loses(R[4], V[4], By(l, s.c))
      BY <2>3, AllLeaves, Zenon
    <2>5. V[1] = R[1] /\ V[2] = R[2] /\ V[3] = R[3]
      BY <1>1, <2>1, Zenon
    <2>6. ASSUME NEW x, items' = [items EXCEPT ![mk] = x], flushed' = flushed, x.c = items[mk].c \cup s.c
          PROVE  Shift(R, V)
      <3>1. Gains(V[5], R[5], By(l, s.c))
        <4>1. Gains(InMap(l, [items EXCEPT ![mk] = x]), InMap(l, items), By(l, s.c))
          BY <1>2, <2>2, <2>6, MapGains, Zenon
        <4> QED
          BY <1>1, <2>6, <4>1, Zenon
      <3>2. V[6] = R[6]
        BY <1>1, <2>6, Zenon
      <3> HIDE DEF R, V
      <3>3. 4 \in Places /\ 5 \in Places /\ 4 # 1 /\ 5 # 1 /\ 4 # 5 /\ \A p \in Places \ {4, 5} : V[p] = R[p]
        BY <2>5, <3>2, SixPlaces, Zenon
      <3>4. Moved(R, V, 4, 5, By(l, s.c))
        BY <2>4, <3>1, <3>3, Zenon DEF Moved
      <3> QED
        BY <1>5, <3>3, <3>4, Zenon
    <2>7. CASE adding.at = "new"
      <3>1. items' = [items EXCEPT ![mk] = s] /\ flushed' = flushed
        BY <1>8, <2>7, Zenon DEF Add
      <3>2. items[mk] = NoItem
        BY <2>1, <2>7, Zenon DEF AddTypes
      <3>3. s.c = items[mk].c \cup s.c
        BY <3>2 DEF NoItem
      <3> QED
        BY <2>6, <3>1, <3>3, Zenon
    <2>8. CASE adding.at = "found"
      <3>1. items' = [items EXCEPT ![mk] = Merged(items[mk], s)] /\ flushed' = flushed
        BY <1>8, <2>8, Zenon DEF Add
      <3>2. items[mk] # NoItem
        BY <2>1, <2>8, Zenon DEF AddTypes
      <3>3. Merged(items[mk], s).c = items[mk].c \cup s.c
        BY <1>2, <2>2, <3>2, StoreType, MergedType, Zenon
      <3> QED
        BY <2>6, <3>1, <3>3, Zenon
    <2>9. CASE adding.at = "taken"
      <3> DEFINE n == adding.n
                 m == flushed[n]
                 x == Merged(m[mk], s)
      <3>1. flushed' = [flushed EXCEPT ![n] = [m EXCEPT ![mk] = x]] /\ items' = items
        BY <1>8, <2>9, Zenon DEF Add
      <3>2. n \in DOMAIN flushed /\ m[mk] # NoItem /\ m \in ItemMap
        BY <1>2, <2>1, <2>9 DEF AddTypes
      <3>3. [m EXCEPT ![mk] = x] \in ItemMap /\ x.c = m[mk].c \cup s.c
        BY <2>2, <3>2, StoreType, MergedType, Zenon
      <3> HIDE DEF x, m, n
      <3>4. Gains(InMap(l, [m EXCEPT ![mk] = x]), InMap(l, m), By(l, s.c))
        BY <2>2, <3>2, <3>3, MapGains, Zenon
      <3>5. Gains(V[6], R[6], By(l, s.c))
        BY <1>1, <1>2, <3>1, <3>2, <3>3, <3>4, TickGains, Zenon DEF m
      <3>6. V[5] = R[5]
        BY <1>1, <3>1, Zenon
      <3> HIDE DEF R, V
      <3>7. 4 \in Places /\ 6 \in Places /\ 4 # 1 /\ 6 # 1 /\ 4 # 6 /\ \A p \in Places \ {4, 6} : V[p] = R[p]
        BY <2>5, <3>6, SixPlaces, Zenon
      <3>8. Moved(R, V, 4, 6, By(l, s.c))
        BY <2>4, <3>5, <3>7, Zenon DEF Moved
      <3> QED
        BY <1>5, <3>7, <3>8, Zenon DEF R, V
    <2>10. adding.at \in {"new", "found", "taken"}
      BY <2>1, Zenon DEF AddTypes
    <2> QED
      BY <2>7, <2>8, <2>9, <2>10, Zenon
  <1>9. CASE WriteTick
    <2>1. /\ flushed' = Append(flushed, items) /\ items' = [mk \in AggKeys |-> NoItem]
          /\ adding' = IF adding.at = "found" THEN [at |-> "taken", s |-> adding.s, n |-> Len(flushed')] ELSE adding
          /\ jobs' = jobs /\ inputChan' = inputChan
      BY <1>9, Zenon DEF WriteTick
    <2>2. V[4] = R[4]
      <3>1. \/ adding' = adding
            \/ adding # NoAdd /\ adding' # NoAdd /\ adding'.s = adding.s
        BY <2>1 DEF NoAdd
      <3>2. ASSUME adding # NoAdd, adding' # NoAdd, adding'.s = adding.s PROVE InAdd(l)' = InAdd(l)
        BY <3>2, Zenon DEF InAdd, By
      <3> QED
        BY <1>1, <1>4, <3>1, <3>2, Zenon
    <2>3. V[5] = {}
      <3>1. \A mk \in AggKeys : items'[mk].c = {}
        BY <2>1, Zenon DEF NoItem
      <3>2. InMap(l, items') = {}
        BY <3>1, Zenon DEF InMap, By
      <3> QED
        BY <1>1, <3>2, Zenon
    <2>4. Loses(R[5], V[5], R[5])
      BY <2>3, AllLeaves, Zenon
    <2>5. Gains(V[6], R[6], R[5])
      BY <1>1, <1>2, <2>1, NewTickGains, Zenon
    <2>6. V[1] = R[1] /\ V[2] = R[2] /\ V[3] = R[3]
      BY <1>1, <2>1, Zenon
    <2> HIDE DEF R, V
    <2>7. 5 \in Places /\ 6 \in Places /\ 5 # 1 /\ 6 # 1 /\ 5 # 6 /\ \A p \in Places \ {5, 6} : V[p] = R[p]
      BY <2>2, <2>6, SixPlaces, Zenon
    <2>8. Moved(R, V, 5, 6, R[5])
      BY <2>4, <2>5, <2>7, Zenon DEF Moved
    <2> QED
      BY <1>5, <2>7, <2>8, Zenon DEF R, V
  <1>10. CASE postBails \/ post \/ postPanics \/ WriterStep \/ StopWriter
    <2>1. UNCHANGED <<inputChan, jobs, adding, items, flushed>>
      BY <1>10, Zenon DEF postBails, post, postPanics, WriterStep, procLoop, processQueue, Poll, StopWriter, aggVars
    <2> QED
      BY <1>3, <2>1, Zenon
  <1> QED
    BY <1>6, <1>7, <1>8, <1>9, <1>10, Zenon DEF AggNext, AddStep

-----------------------------------------------------------------------------
(* What a step of the accumulator does with the copies of a line.          *)

\* Only FlushList and PushStat change what the flushers hold.
LEMMA ListsStay ==
    ASSUME NEW l, \A f \in EveryFlusher : flush'[f].list = flush[f].list
    PROVE  InLists(l, flush') = InLists(l, flush)
  <1> DEFINE L == UNION {flush[f].list : f \in EveryFlusher}
             M == UNION {flush'[f].list : f \in EveryFlusher}
  <1>1. L = M
    OBVIOUS
  <1>2. \A x \in EveryFlusher \X L \X EveryFlusher : x[1] \in EveryFlusher
    OBVIOUS
  <1> QED
    BY <1>1, <1>2, Zenon DEF InLists

\* A copy in a list is one that its flush counted: the line is in the list.
LEMMA ListedLines ==
    ASSUME NEW l \in Lines
    PROVE  /\ \A x \in InLists(l, flush) : l \in LinesIn(flush[x[1]].list) /\ x[1] \in EveryFlusher
           /\ \A x \in InLists(l, flush) : flush[x[1]].at = "copied" => l \in LinesIn(Copied)
  <1> SUFFICES ASSUME NEW x \in InLists(l, flush)
               PROVE  /\ l \in LinesIn(flush[x[1]].list) /\ x[1] \in EveryFlusher
                      /\ flush[x[1]].at = "copied" => l \in LinesIn(Copied)
    BY Zenon
  <1>1. /\ x \in EveryFlusher \X (UNION {flush[h].list : h \in EveryFlusher}) \X EveryFlusher
        /\ x[2] \in flush[x[1]].list /\ x[3] \in By(l, x[2].c)
    BY Zenon DEF InLists
  <1>2. x[1] \in EveryFlusher
    BY <1>1, Zenon
  <1>3. <<l, x[3]>> \in x[2].c /\ <<l, x[3]>>[1] = l
    BY <1>1, Zenon DEF By
  <1>4. \A S : x[2] \in S => l \in LinesIn(S)
    BY <1>3, Zenon DEF LinesIn
  <1>5. flush[x[1]].at = "copied" => x[2] \in Copied
    BY <1>1, <1>2, Zenon DEF Copied
  <1> QED
    BY <1>1, <1>2, <1>4, <1>5, Zenon

\* And a line of a list has a copy there.
LEMMA LinesListed ==
    ASSUME FlushTypes, NEW f \in EveryFlusher, NEW l \in LinesIn(flush[f].list)
    PROVE  InLists(l, flush) # {}
  <1>1. PICK s \in flush[f].list : \E p \in s.c : l = p[1]
    BY Zenon DEF LinesIn
  <1>2. PICK p \in s.c : l = p[1]
    BY <1>1, Zenon
  <1>3. s.c \subseteq Pairs
    <2>1. s \in StatSet
      BY Zenon DEF FlushTypes
    <2> QED
      BY <2>1, StatFacts, Zenon
  <1>4. p[2] \in EveryFlusher /\ p = <<l, p[2]>>
    BY <1>2, <1>3 DEF Pairs
  <1>5. p[2] \in By(l, s.c)
    BY <1>2, <1>4, Zenon DEF By
  <1>6. <<f, s, p[2]>> \in InLists(l, flush)
    BY <1>4, <1>5, Zenon DEF InLists
  <1> QED
    BY <1>6, Zenon

\* The lines of the copies that are still in the map have copies.
LEMMA CopiedHasSpot ==
    ASSUME FlushTypes, NEW l \in LinesIn(Copied)
    PROVE  ~None(Spots(l))
  <1>1. PICK p \in UNION {s.c : s \in Copied} : l = p[1]
    BY Zenon DEF LinesIn
  <1>2. PICK s \in Copied : p \in s.c
    BY <1>1, Zenon
  <1>3. PICK f \in EveryFlusher : s \in flush[f].list
    BY <1>2, Zenon DEF Copied
  <1>4. l \in LinesIn(flush[f].list)
    BY <1>1, <1>2, <1>3, Zenon DEF LinesIn
  <1>5. InLists(l, flush) # {}
    BY <1>3, <1>4, LinesListed, Zenon
  <1>6. 1 \in Places
    BY DEF Places
  <1> QED
    BY <1>5, <1>6, SpotsNow, Zenon DEF None

\* What a step of a flush, or of the aggregator, must do to keep the line invariants.
LEMMA WaitSame ==
    ASSUME AccTypes, WaitInv, UNCHANGED <<lineKey, sent, lineQueue, cur, accStats>>,
           \A l \in Lines : l \notin Held /\ None(Spots(l)) => None(Spots(l)'),
           \A l \in Held : ~Beyond(Spots(l)') /\ \A x \in InLists(l, flush') : flush'[x[1]].at = "copied"
    PROVE  WaitInv'
  <1>0. /\ lineKey' = lineKey /\ sent' = sent /\ lineQueue' = lineQueue /\ cur' = cur /\ accStats' = accStats
    OBVIOUS
  <1>1. AccKeys' = AccKeys /\ Held' = Held
    BY <1>0, Zenon DEF AccKeys, Held
  <1>2. \A l : Waits(l)' <=> Waits(l)
    BY <1>0, Zenon DEF Waits
  <1>3. /\ \A i, j \in DOMAIN lineQueue' : lineQueue'[i] = lineQueue'[j] => i = j
        /\ cur' # NoLine => cur'.l \notin Range(lineQueue')
    BY <1>0, Zenon DEF WaitInv
  <1>4. \A l \in Lines : Waits(l)' => l \in sent'
    BY <1>0, <1>2, Zenon DEF WaitInv
  <1>5. \A l \in Lines : l \notin sent' \/ Waits(l)' => l \notin Held' /\ None(Spots(l)')
    BY <1>0, <1>1, <1>2, Zenon DEF WaitInv
  <1>6. \A mk \in AccKeys' : \A l \in accStats'[mk] : lineKey'[l] = mk
    BY <1>0, <1>1, Zenon DEF WaitInv
  <1>7. \A l \in Held' : \A p \in Places \ {1} : Spots(l)'[p] = {}
    BY <1>1, Zenon DEF Beyond
  <1>8. \A l \in Held' : \A x \in InLists(l, flush)' : flush'[x[1]].at = "copied"
    BY <1>1, Zenon DEF InLists, By
  <1> QED
    BY <1>3, <1>4, <1>5, <1>6, <1>7, <1>8, Zenon DEF WaitInv, None

\* No line is lost in a step that leaves the queue, the map and what was wiped
\* as they are, if every line that had copies still has one.
LEMMA KeptSame ==
    ASSUME AccTypes, KeptInv, UNCHANGED <<lineKey, sent, lineQueue, cur, accStats, wiped>>,
           \A l \in Lines : None(Spots(l)') => None(Spots(l))
    PROVE  KeptInv'
  <1>0. /\ lineKey' = lineKey /\ sent' = sent /\ lineQueue' = lineQueue /\ cur' = cur
        /\ accStats' = accStats /\ wiped' = wiped
    OBVIOUS
  <1>1. AccKeys' = AccKeys /\ Held' = Held
    BY <1>0, Zenon DEF AccKeys, Held
  <1>2. \A l : Waits(l)' <=> Waits(l)
    BY <1>0, Zenon DEF Waits
  <1>3. \A l \in sent : l \in Lines
    BY Zenon DEF AccTypes
  <1>4. \A l \in sent' : Waits(l)' \/ l \in Held' \cup wiped' \/ ~None(Spots(l)')
    BY <1>0, <1>1, <1>2, <1>3, Zenon DEF KeptInv
  <1> QED
    BY <1>4, Zenon DEF KeptInv, None

\* No line is doubled in a step that leaves every line in one spot at most.
LEMMA CountSame ==
    ASSUME CountInv, UNCHANGED overlapped, \A l \in Lines : OneSpot(Spots(l)) => OneSpot(Spots(l)')
    PROVE  CountInv'
  <1>1. ~overlapped' => \A l \in Lines : OneSpot(Spots(l)')
    BY Zenon DEF CountInv
  <1> QED
    BY <1>1, Zenon DEF CountInv, OneSpot

\* A step that takes no line and copies none, but may move copies on, keeps the
\* line invariants: those of the aggregator, and the ends of the accumulator's.
LEMMA QuietStep ==
    ASSUME AccTypes, LineInv,
           UNCHANGED <<lineKey, sent, lineQueue, cur, accStats, wiped, overlapped>>,
           \A f \in EveryFlusher : flush[f].at = "copied" => flush'[f].at = "copied",
           \A l \in Lines : Shift(Spots(l), Spots(l)')
    PROVE  LineInv'
  <1>1. lineKey' = lineKey
    OBVIOUS
  <1>2. \A l \in Lines : None(Spots(l)') <=> None(Spots(l))
    BY Zenon DEF Shift, OnlyMoved
  <1>3. ASSUME NEW l \in Held
        PROVE  ~Beyond(Spots(l)') /\ \A x \in InLists(l, flush') : flush'[x[1]].at = "copied"
    <2>1. l \in Lines
      BY DEF Held, AccTypes
    <2>2. ~Beyond(Spots(l)) /\ \A x \in InLists(l, flush) : flush[x[1]].at = "copied"
      BY Zenon DEF LineInv, WaitInv, Beyond
    <2>3. Shift(Spots(l), Spots(l)')
      BY <2>1, Zenon
    <2>4. ~Beyond(Spots(l)') /\ Spots(l)'[1] = Spots(l)[1]
      BY <2>2, <2>3, Zenon DEF Shift
    <2>5. InLists(l, flush') = InLists(l, flush)
      BY <1>1, <2>4, SpotsAre, Zenon
    <2> QED
      BY <2>1, <2>2, <2>4, <2>5, ListedLines, Zenon
  <1>4. WaitInv'
    BY <1>2, <1>3, WaitSame, Zenon DEF LineInv
  <1>5. KeptInv'
    BY <1>2, KeptSame, Zenon DEF LineInv
  <1>6. CountInv'
    BY CountSame, Zenon DEF LineInv, Shift, OnlyMoved
  <1> QED
    BY <1>4, <1>5, <1>6, Zenon DEF LineInv

\* PushStat hands copies of lines that are out of the map to InputChan.
LEMMA PushKeeps ==
    ASSUME AccTypes, AddTypes, LineInv, NEW f \in EveryFlusher, PushStat(f), UNCHANGED aggVars
    PROVE  LineInv'
  <1>1. PICK s \in flush[f].list : /\ inputChan' = Append(inputChan, s)
                                   /\ flush' = [flush EXCEPT ![f].list = @ \ {s}]
    BY Zenon DEF PushStat
  <1>2. /\ flush[f].at = "push" /\ FlushTypes /\ inputChan \in Seq(StatSet)
        /\ UNCHANGED <<lineKey, sent, lineQueue, cur, accStats, wiped, overlapped>>
        /\ lineKey' = lineKey /\ jobs' = jobs /\ adding' = adding /\ items' = items /\ flushed' = flushed
    BY Zenon DEF PushStat, AccTypes, AddTypes, aggVars
  <1>3. s \in StatSet
    BY <1>2, Zenon DEF FlushTypes
  <1>4. ASSUME NEW l \in Lines
        PROVE  Moved(Spots(l), Spots(l)', 1, 2, By(l, s.c))
    <2> DEFINE R == Spots(l)
               V == Spots(l)'
    <2>1. /\ R[1] = InLists(l, flush) /\ V[1] = InLists(l, flush')
          /\ R[2] = InSeq(l, inputChan) /\ V[2] = InSeq(l, inputChan')
          /\ V[3] = R[3] /\ V[4] = R[4] /\ V[5] = R[5] /\ V[6] = R[6]
      <3>1. /\ R[1] = InLists(l, flush) /\ V[1] = InLists(l, flush')
            /\ R[2] = InSeq(l, inputChan) /\ V[2] = InSeq(l, inputChan')
        BY <1>2, SpotsAre, Zenon
      <3> QED
        BY <1>2, <3>1, SpotStays, Zenon
    <2>2. Loses(R[1], V[1], By(l, s.c))
      <3>1. Loses(InLists(l, flush), InLists(l, flush'), By(l, s.c))
        BY <1>1, <1>2, PushLoses, Zenon
      <3> QED
        BY <2>1, <3>1, Zenon
    <2>3. Gains(V[2], R[2], By(l, s.c))
      <3>1. Gains(InSeq(l, Append(inputChan, s)), InSeq(l, inputChan), By(l, s.c))
        BY <1>2, <1>3, SeqGains, Zenon
      <3> QED
        BY <1>1, <2>1, <3>1, Zenon
    <2> HIDE DEF R, V
    <2>4. 1 \in Places /\ 2 \in Places /\ 1 # 2 /\ \A p \in Places \ {1, 2} : V[p] = R[p]
      BY <2>1, SixPlaces, Zenon
    <2>5. Moved(R, V, 1, 2, By(l, s.c))
      BY <2>2, <2>3, <2>4, Zenon DEF Moved
    <2> QED
      BY <2>5, Zenon DEF R, V
  <1>5. \A l \in Lines : /\ OneSpot(Spots(l)) => OneSpot(Spots(l)')
                         /\ None(Spots(l)') <=> None(Spots(l))
    BY <1>4, CopiesMove, Zenon
  <1>6. ASSUME NEW l \in Held
        PROVE  ~Beyond(Spots(l)') /\ \A x \in InLists(l, flush') : flush'[x[1]].at = "copied"
    <2>1. l \in Lines
      BY Zenon DEF Held, AccTypes
    <2>2. ~Beyond(Spots(l)) /\ \A x \in InLists(l, flush) : flush[x[1]].at = "copied"
      BY Zenon DEF LineInv, WaitInv, Beyond
    <2>3. /\ InLists(l, flush') \subseteq InLists(l, flush)
          /\ \A g \in By(l, s.c) : <<f, s, g>> \in InLists(l, flush)
          /\ \A h \in EveryFlusher : flush'[h].at = flush[h].at
      BY <1>1, <1>2, PushLoses, Zenon
    <2>4. By(l, s.c) = {}
      <3>1. \A g : <<f, s, g>>[1] = f
        OBVIOUS
      <3> QED
        BY <1>2, <2>2, <2>3, <3>1, Zenon
    <2>5. ~Beyond(Spots(l)')
      <3> DEFINE R == Spots(l)
                 V == Spots(l)'
      <3>1. Moved(R, V, 1, 2, {})
        BY <1>4, <2>1, <2>4, Zenon
      <3>2. 2 \in Places \ {1} /\ Places \ {1, 2} = (Places \ {1}) \ {2}
        BY DEF Places
      <3>3. R[2] = {}
        BY <2>2, <3>2, Zenon DEF Beyond
      <3>4. V[2] = {}
        BY <3>1, <3>3, Zenon DEF Moved, Gains
      <3>5. \A p \in Places \ {1, 2} : V[p] = R[p]
        BY <3>1, Zenon DEF Moved
      <3> HIDE DEF R, V
      <3>6. ~Beyond(V)
        BY <2>2, <3>2, <3>4, <3>5, Zenon DEF Beyond, R
      <3> QED
        BY <3>6, Zenon DEF V
    <2> QED
      BY <2>1, <2>2, <2>3, <2>5, ListedLines, Zenon
  <1>7. WaitInv'
    BY <1>2, <1>5, <1>6, WaitSame, Zenon DEF LineInv
  <1>8. KeptInv'
    <2>1. UNCHANGED <<lineKey, sent, lineQueue, cur, accStats, wiped>>
      BY <1>2, Zenon
    <2>2. \A l \in Lines : None(Spots(l)') => None(Spots(l))
      BY <1>5, Zenon
    <2> QED
      BY <2>1, <2>2, KeptSame, Zenon DEF LineInv
  <1>9. CountInv'
    <2>1. UNCHANGED overlapped
      BY <1>2, Zenon
    <2>2. \A l \in Lines : OneSpot(Spots(l)) => OneSpot(Spots(l)')
      BY <1>5, Zenon
    <2> QED
      BY <2>1, <2>2, CountSame, Zenon DEF LineInv
  <1> QED
    BY <1>7, <1>8, <1>9, Zenon DEF LineInv

\* FlushList copies the lines that are in the map; no flush has another copy of
\* one of them, or overlapped says so.
LEMMA CopyKeeps ==
    ASSUME AccTypes, LineInv, NEW f \in EveryFlusher, FlushList(f), UNCHANGED aggVars
    PROVE  LineInv'
  <1>1. /\ UNCHANGED <<lineKey, sent, lineQueue, cur, accStats, wiped>>
        /\ UNCHANGED <<inputChan, jobs, adding, items, flushed>>
        /\ lineKey' = lineKey
    BY Zenon DEF FlushList, aggVars
  <1>2. ASSUME NEW l \in Lines
        PROVE  /\ \A p \in Places \ {1} : Spots(l)'[p] = Spots(l)[p]
               /\ Gains(Spots(l)'[1], Spots(l)[1], IF l \in Held THEN {f} ELSE {})
               /\ \A y \in InLists(l, flush') : y \in InLists(l, flush) \/ y[1] = f
               /\ flush'[f].at = "copied"
               /\ \A h \in EveryFlusher : h # f => flush'[h] = flush[h]
               /\ \A y \in InLists(l, flush) : y[1] # f
    <2> DEFINE R == Spots(l)
               V == Spots(l)'
    <2>1. \A mk \in AccKeys : l \in accStats[mk] => lineKey[l] = mk
      BY Zenon DEF LineInv, WaitInv
    <2>2. /\ Gains(InLists(l, flush'), InLists(l, flush), IF l \in Held THEN {f} ELSE {})
          /\ \A y \in InLists(l, flush') : y \in InLists(l, flush) \/ (y[1] = f /\ l \in Held)
          /\ flush'[f].at = "copied"
          /\ \A h \in EveryFlusher : h # f => flush'[h] = flush[h]
          /\ \A y \in InLists(l, flush) : y[1] # f
      BY <2>1, CopyGains, Zenon
    <2>3. /\ R[1] = InLists(l, flush) /\ V[1] = InLists(l, flush')
          /\ V[2] = R[2] /\ V[3] = R[3] /\ V[4] = R[4] /\ V[5] = R[5] /\ V[6] = R[6]
      <3>1. R[1] = InLists(l, flush) /\ V[1] = InLists(l, flush')
        BY <1>1, SpotsAre, Zenon
      <3> QED
        BY <1>1, <3>1, SpotStays, Zenon
    <2>4. Gains(V[1], R[1], IF l \in Held THEN {f} ELSE {})
      BY <2>2, <2>3, Zenon
    <2> HIDE DEF R, V
    <2>5. \A p \in Places \ {1} : V[p] = R[p]
      BY <2>3, SixPlaces, Zenon
    <2> QED
      BY <2>2, <2>4, <2>5, Zenon DEF R, V
  <1>3. 1 \in Places
    BY DEF Places
  <1>4. \A l \in Lines : None(Spots(l)') => None(Spots(l))
    BY <1>2, <1>3, Zenon DEF None, Gains
  <1>5. \A l \in Lines : l \notin Held /\ None(Spots(l)) => None(Spots(l)')
    <2> SUFFICES ASSUME NEW l \in Lines, l \notin Held, None(Spots(l)) PROVE None(Spots(l)')
      BY Zenon
    <2>1. Gains(Spots(l)'[1], Spots(l)[1], {})
      BY <1>2, Zenon
    <2>2. Spots(l)'[1] = {}
      BY <1>3, <2>1, Zenon DEF Gains, None
    <2> QED
      BY <1>2, <2>2, Zenon DEF None
  <1>6. ASSUME NEW l \in Held
        PROVE  /\ l \in Lines /\ ~Beyond(Spots(l))
               /\ \A x \in InLists(l, flush) : flush[x[1]].at = "copied"
    <2>1. l \in Lines
      BY DEF Held, AccTypes
    <2> QED
      BY <2>1, Zenon DEF LineInv, WaitInv, Beyond
  <1>7. ASSUME NEW l \in Held
        PROVE  ~Beyond(Spots(l)') /\ \A x \in InLists(l, flush') : flush'[x[1]].at = "copied"
    <2>1. ~Beyond(Spots(l)')
      BY <1>2, <1>6, Zenon DEF Beyond
    <2>2. ASSUME NEW x \in InLists(l, flush') PROVE flush'[x[1]].at = "copied"
      <3>1. CASE x[1] = f
        BY <1>2, <1>6, <3>1, Zenon
      <3>2. CASE x[1] # f
        <4>1. x \in InLists(l, flush)
          BY <1>2, <1>6, <3>2, Zenon
        <4>2. x[1] \in EveryFlusher
          BY <1>6, <4>1, ListedLines, Zenon
        <4>3. flush'[x[1]] = flush[x[1]]
          BY <1>2, <1>6, <3>2, <4>2, Zenon
        <4> QED
          BY <1>6, <4>1, <4>3, Zenon
      <3> QED
        BY <3>1, <3>2, Zenon
    <2> QED
      BY <2>1, <2>2, Zenon
  <1>8. WaitInv'
    BY <1>1, <1>5, <1>7, WaitSame, Zenon DEF LineInv
  <1>9. KeptInv'
    BY <1>1, <1>4, KeptSame, Zenon DEF LineInv
  <1>10. ASSUME ~overlapped', NEW l \in Lines PROVE OneSpot(Spots(l)')
    <2>1. ~overlapped /\ \A k \in Held : k \notin LinesIn(Copied)
      BY <1>10, Zenon DEF FlushList
    <2>2. OneSpot(Spots(l))
      BY <2>1, Zenon DEF LineInv, CountInv
    <2> DEFINE R == Spots(l)
               V == Spots(l)'
               X == IF l \in Held THEN {f} ELSE {}
    <2>3. Single(X)
      BY Zenon DEF Single
    <2>4. R[1] = {} \/ X = {}
      <3>1. CASE l \in Held
        <4>1. InLists(l, flush) = {}
          BY <1>6, <2>1, <3>1, ListedLines, Zenon
        <4> QED
          BY <1>1, <4>1, SpotsAre, Zenon
      <3> QED
        BY <3>1, Zenon
    <2>5. /\ \A p \in Places : Single(R[p])
          /\ \A p, q \in Places : p # q => R[p] = {} \/ R[q] = {}
      BY <2>2, Zenon DEF OneSpot
    <2>6. Single(V[1]) /\ (V[1] = {} <=> R[1] = {} /\ X = {})
      <3>1. Gains(V[1], R[1], X)
        BY <1>2, Zenon
      <3> QED
        BY <1>3, <2>3, <2>4, <2>5, <3>1, Zenon DEF Gains
    <2>7. X # {} => ~Beyond(R)
      BY <1>6, Zenon
    <2>8. \A p \in Places \ {1} : V[p] = R[p]
      BY <1>2, Zenon
    <2> HIDE DEF R, V, X
    <2>9. \A p \in Places : Single(V[p])
      BY <2>5, <2>6, <2>8, Zenon
    <2>10. \A p, q \in Places : p # q => V[p] = {} \/ V[q] = {}
      <3>1. \A p \in Places \ {1} : V[1] = {} \/ V[p] = {}
        BY <1>3, <2>5, <2>6, <2>7, <2>8, Zenon DEF Beyond
      <3> QED
        BY <1>3, <2>5, <2>8, <3>1, Zenon
    <2>11. OneSpot(V)
      BY <2>9, <2>10, Zenon DEF OneSpot
    <2> QED
      BY <2>11, Zenon DEF V
  <1>11. CountInv'
    BY <1>10, Zenon DEF CountInv, OneSpot
  <1> QED
    BY <1>8, <1>9, <1>11, Zenon DEF LineInv

-----------------------------------------------------------------------------
(* The steps of a line on its way into the map, and out of it.             *)

\* Steps that leave every place as it is: the line invariants depend on them as before.
LEMMA SpotsKept ==
    ASSUME lineKey' = lineKey, \A f \in EveryFlusher : flush'[f].list = flush[f].list,
           UNCHANGED <<inputChan, jobs, adding, items, flushed>>
    PROVE  /\ \A l : \A p \in Places : Spots(l)'[p] = Spots(l)[p]
           /\ \A l : Shift(Spots(l), Spots(l)')
           /\ \A l : None(Spots(l)') <=> None(Spots(l))
           /\ \A l : OneSpot(Spots(l)) => OneSpot(Spots(l)')
           /\ \A l : InLists(l, flush') = InLists(l, flush)
  <1>1. \A l : InLists(l, flush') = InLists(l, flush)
    BY ListsStay, Zenon
  <1>2. \A l : \A p \in Places : Spots(l)'[p] = Spots(l)[p]
    BY <1>1, SpotsStay, Zenon
  <1>3. \A l : Shift(Spots(l), Spots(l)')
    BY <1>2, SameIsShift, Zenon
  <1> QED
    BY <1>1, <1>2, <1>3, Zenon DEF Shift, OnlyMoved

\* ProcessLine: a line that was never sent has no copies, and now waits.
LEMMA SendKeeps ==
    ASSUME AccTypes, LineInv, NEW k \in Lines, ProcessLine(k), UNCHANGED aggVars
    PROVE  LineInv'
  <1>1. /\ k \notin sent /\ sent' = sent \cup {k} /\ lineQueue' = Append(lineQueue, k)
        /\ lineKey' = lineKey /\ cur' = cur /\ accStats' = accStats /\ flush' = flush
        /\ wiped' = wiped /\ overlapped' = overlapped
        /\ UNCHANGED <<inputChan, jobs, adding, items, flushed>>
    BY Zenon DEF ProcessLine, aggVars
  <1>2. /\ \A l : \A p \in Places : Spots(l)'[p] = Spots(l)[p]
        /\ \A l : None(Spots(l)') <=> None(Spots(l))
        /\ \A l : OneSpot(Spots(l)) => OneSpot(Spots(l)')
    BY <1>1, SpotsKept, Zenon
  <1>3. AccKeys' = AccKeys /\ Held' = Held
    BY <1>1, Zenon DEF AccKeys, Held
  <1>4. lineQueue \in Seq(Lines) /\ sent \subseteq Lines
    BY Zenon DEF AccTypes
  <1>5. /\ Range(lineQueue') = Range(lineQueue) \cup {k}
        /\ DOMAIN lineQueue' = 1..(Len(lineQueue) + 1) /\ DOMAIN lineQueue = 1..Len(lineQueue)
        /\ Len(lineQueue) \in Nat /\ lineQueue'[Len(lineQueue) + 1] = k
        /\ \A i \in DOMAIN lineQueue : lineQueue'[i] = lineQueue[i]
    <2>1. DOMAIN lineQueue = 1..Len(lineQueue) /\ Len(lineQueue) \in Nat
      BY <1>4
    <2>2. /\ Range(Append(lineQueue, k)) = Range(lineQueue) \cup {k}
          /\ DOMAIN Append(lineQueue, k) = 1..(Len(lineQueue) + 1)
          /\ Append(lineQueue, k)[Len(lineQueue) + 1] = k
          /\ \A i \in DOMAIN lineQueue : Append(lineQueue, k)[i] = lineQueue[i]
      BY <1>4, Enters
    <2> QED
      BY <1>1, <2>1, <2>2, Zenon
  <1>6. \A l : Waits(l)' <=> Waits(l) \/ l = k
    BY <1>1, <1>5, Zenon DEF Waits
  <1>7. ~Waits(k) /\ k \notin Held /\ None(Spots(k))
    BY <1>1, Zenon DEF LineInv, WaitInv
  <1>8. /\ \A i, j \in DOMAIN lineQueue' : lineQueue'[i] = lineQueue'[j] => i = j
        /\ cur' # NoLine => cur'.l \notin Range(lineQueue')
    <2>1. \A i \in DOMAIN lineQueue : lineQueue[i] # k
      BY <1>7, Zenon DEF Waits, Range
    <2>2. \A i, j \in DOMAIN lineQueue : lineQueue[i] = lineQueue[j] => i = j
      BY Zenon DEF LineInv, WaitInv
    <2>3. \A i, j \in DOMAIN lineQueue' : lineQueue'[i] = lineQueue'[j] => i = j
      BY <1>5, <2>1, <2>2
    <2>4. cur # NoLine => cur.l \notin Range(lineQueue) /\ cur.l # k
      BY <1>7, Zenon DEF LineInv, WaitInv, Waits
    <2> QED
      BY <1>1, <1>5, <2>3, <2>4, Zenon
  <1>9. \A l \in Lines : Waits(l)' => l \in sent'
    BY <1>1, <1>6, Zenon DEF LineInv, WaitInv
  <1>10. \A l \in Lines : l \notin sent' \/ Waits(l)' => l \notin Held' /\ None(Spots(l)')
    BY <1>1, <1>2, <1>3, <1>6, <1>7, Zenon DEF LineInv, WaitInv
  <1>11. \A mk \in AccKeys' : \A l \in accStats'[mk] : lineKey'[l] = mk
    BY <1>1, <1>3, Zenon DEF LineInv, WaitInv
  <1>12. \A l \in Held' : \A p \in Places \ {1} : Spots(l)'[p] = {}
    BY <1>2, <1>3, Zenon DEF LineInv, WaitInv
  <1>13. \A l \in Held' : \A x \in InLists(l, flush)' : flush'[x[1]].at = "copied"
    <2>1. \A l \in Held' : \A x \in InLists(l, flush') : flush'[x[1]].at = "copied"
      BY <1>1, <1>3, Zenon DEF LineInv, WaitInv
    <2> QED
      BY <2>1, Zenon DEF InLists, By
  <1>14. WaitInv'
    BY <1>8, <1>9, <1>10, <1>11, <1>12, <1>13, Zenon DEF WaitInv, None
  <1>15. \A l \in sent' : Waits(l)' \/ l \in Held' \cup wiped' \/ ~None(Spots(l)')
    BY <1>1, <1>2, <1>3, <1>6, Zenon DEF LineInv, KeptInv
  <1>16. KeptInv'
    BY <1>15, Zenon DEF KeptInv, None
  <1>17. CountInv'
    BY <1>1, <1>2, CountSame, Zenon DEF LineInv
  <1> QED
    BY <1>14, <1>16, <1>17, Zenon DEF LineInv

\* The loop of Start takes the head of the queue: the line still waits.
LEMMA TakeKeeps ==
    ASSUME AccTypes, LineInv, TakeLine, UNCHANGED aggVars
    PROVE  LineInv'
  <1> DEFINE k == Head(lineQueue)
  <1>1. /\ lineQueue # <<>> /\ lineQueue' = Tail(lineQueue) /\ cur = NoLine
        /\ cur' = [at |-> IF accStats[lineKey[k]] = {} THEN "new" ELSE "found", l |-> k]
        /\ lineKey' = lineKey /\ sent' = sent /\ accStats' = accStats /\ flush' = flush
        /\ wiped' = wiped /\ overlapped' = overlapped
        /\ UNCHANGED <<inputChan, jobs, adding, items, flushed>>
    BY Zenon DEF TakeLine, aggVars
  <1>2. /\ \A l : \A p \in Places : Spots(l)'[p] = Spots(l)[p]
        /\ \A l : None(Spots(l)') <=> None(Spots(l))
        /\ \A l : OneSpot(Spots(l)) => OneSpot(Spots(l)')
    BY <1>1, SpotsKept, Zenon
  <1>3. AccKeys' = AccKeys /\ Held' = Held
    BY <1>1, Zenon DEF AccKeys, Held
  <1>4. cur' # NoLine /\ cur'.l = k
    BY <1>1, Zenon DEF NoLine
  <1>5. lineQueue \in Seq(Lines) /\ sent \subseteq Lines
    BY Zenon DEF AccTypes
  <1> HIDE DEF k
  <1>6. /\ Range(lineQueue) = Range(lineQueue') \cup {k} /\ k = lineQueue[1]
        /\ DOMAIN lineQueue' = 1..(Len(lineQueue) - 1) /\ DOMAIN lineQueue = 1..Len(lineQueue)
        /\ Len(lineQueue) \in Nat /\ Len(lineQueue) >= 1
        /\ \A i \in DOMAIN lineQueue' : lineQueue'[i] = lineQueue[i + 1] /\ i + 1 \in DOMAIN lineQueue
    <2>1. DOMAIN lineQueue = 1..Len(lineQueue) /\ Len(lineQueue) \in Nat
      BY <1>5
    <2>2. /\ Range(lineQueue) = Range(Tail(lineQueue)) \cup {Head(lineQueue)}
          /\ Head(lineQueue) = lineQueue[1] /\ Len(lineQueue) >= 1
          /\ DOMAIN Tail(lineQueue) = 1..(Len(lineQueue) - 1)
          /\ \A i \in DOMAIN Tail(lineQueue) :
               Tail(lineQueue)[i] = lineQueue[i + 1] /\ i + 1 \in DOMAIN lineQueue
      BY <1>1, <1>5, Leaves, Zenon
    <2> QED
      BY <1>1, <2>1, <2>2, Zenon DEF k
  <1>7. \A l : Waits(l)' <=> Waits(l)
    BY <1>1, <1>4, <1>6, Zenon DEF Waits
  <1>8. /\ \A i, j \in DOMAIN lineQueue' : lineQueue'[i] = lineQueue'[j] => i = j
        /\ cur' # NoLine => cur'.l \notin Range(lineQueue')
    <2>1. \A i, j \in DOMAIN lineQueue : lineQueue[i] = lineQueue[j] => i = j
      BY Zenon DEF LineInv, WaitInv
    <2>2. \A i, j \in DOMAIN lineQueue' : lineQueue'[i] = lineQueue'[j] => i = j
      BY <1>6, <2>1
    <2>3. \A i \in DOMAIN lineQueue' : lineQueue'[i] # k
      BY <1>6, <2>1
    <2> QED
      BY <1>4, <2>2, <2>3, Zenon DEF Range
  <1>9. \A l \in Lines : Waits(l)' => l \in sent'
    BY <1>1, <1>7, Zenon DEF LineInv, WaitInv
  <1>10. \A l \in Lines : l \notin sent' \/ Waits(l)' => l \notin Held' /\ None(Spots(l)')
    BY <1>1, <1>2, <1>3, <1>7, Zenon DEF LineInv, WaitInv
  <1>11. \A mk \in AccKeys' : \A l \in accStats'[mk] : lineKey'[l] = mk
    BY <1>1, <1>3, Zenon DEF LineInv, WaitInv
  <1>12. \A l \in Held' : \A p \in Places \ {1} : Spots(l)'[p] = {}
    BY <1>2, <1>3, Zenon DEF LineInv, WaitInv
  <1>13. \A l \in Held' : \A x \in InLists(l, flush)' : flush'[x[1]].at = "copied"
    <2>1. \A l \in Held' : \A x \in InLists(l, flush') : flush'[x[1]].at = "copied"
      BY <1>1, <1>3, Zenon DEF LineInv, WaitInv
    <2> QED
      BY <2>1, Zenon DEF InLists, By
  <1>14. WaitInv'
    BY <1>8, <1>9, <1>10, <1>11, <1>12, <1>13, Zenon DEF WaitInv, None
  <1>15. \A l \in sent' : Waits(l)' \/ l \in Held' \cup wiped' \/ ~None(Spots(l)')
    BY <1>1, <1>2, <1>3, <1>7, Zenon DEF LineInv, KeptInv
  <1>16. KeptInv'
    BY <1>15, Zenon DEF KeptInv, None
  <1>17. CountInv'
    BY <1>1, <1>2, CountSame, Zenon DEF LineInv
  <1> QED
    BY <1>14, <1>16, <1>17, Zenon DEF LineInv

\* Accumulate: the line enters the map, or an item that is out of it.
LEMMA AccumulateKeeps ==
    ASSUME AccTypes, LineInv, Accumulate, UNCHANGED aggVars
    PROVE  LineInv'
  <1> DEFINE k == cur.l
             a == lineKey[k]
  <1>1. /\ cur # NoLine /\ cur' = NoLine
        /\ lineQueue' = lineQueue /\ lineKey' = lineKey /\ sent' = sent /\ flush' = flush
        /\ overlapped' = overlapped
        /\ UNCHANGED <<inputChan, jobs, adding, items, flushed>>
        /\ \/ wiped' = wiped \cup {k} /\ accStats' = accStats
           \/ accStats' = [accStats EXCEPT ![a] = @ \cup {k}] /\ wiped' = wiped
    BY Zenon DEF Accumulate, aggVars
  <1>2. /\ \A l : \A p \in Places : Spots(l)'[p] = Spots(l)[p]
        /\ \A l : None(Spots(l)') <=> None(Spots(l))
        /\ \A l : OneSpot(Spots(l)) => OneSpot(Spots(l)')
    BY <1>1, SpotsKept, Zenon
  <1>3. AccKeys' = AccKeys
    BY <1>1, Zenon DEF AccKeys
  <1>4. /\ k \in Lines /\ a \in AccKeys /\ accStats \in [AccKeys -> SUBSET Lines]
        /\ sent \subseteq Lines /\ Held \subseteq Lines
    <2>1. k \in Lines
      BY <1>1, Zenon DEF AccTypes
    <2> QED
      BY <2>1, KeyFacts DEF AccTypes, Held
  <1> HIDE DEF k, a
  <1>5. Waits(k) /\ k \in sent /\ k \notin Held /\ None(Spots(k)) /\ k \notin Range(lineQueue)
    <2>1. Waits(k)
      BY <1>1, Zenon DEF Waits, k
    <2>2. k \notin Range(lineQueue)
      BY <1>1, Zenon DEF LineInv, WaitInv, k
    <2> QED
      BY <1>4, <2>1, <2>2, Zenon DEF LineInv, WaitInv
  <1>6. \A l : Waits(l)' <=> Waits(l) /\ l # k
    BY <1>1, <1>5, Zenon DEF Waits, k
  <1>7. /\ Held \subseteq Held' /\ Held' \subseteq Held \cup {k}
        /\ k \in Held' \/ k \in wiped'
        /\ \A mk \in AccKeys : \A l \in accStats'[mk] : l \in accStats[mk] \/ (l = k /\ mk = a)
    <2>1. CASE wiped' = wiped \cup {k} /\ accStats' = accStats
      BY <1>3, <2>1, Zenon DEF Held
    <2>2. CASE accStats' = [accStats EXCEPT ![a] = @ \cup {k}]
      <3>1. \A mk \in AccKeys : accStats'[mk] = IF mk = a THEN accStats[mk] \cup {k} ELSE accStats[mk]
        BY <1>4, <2>2, Zenon
      <3>2. \A l : l \in Held' <=> \E mk \in AccKeys : l \in accStats'[mk]
        BY <1>3, Zenon DEF Held
      <3>3. \A l : l \in Held <=> \E mk \in AccKeys : l \in accStats[mk]
        BY Zenon DEF Held
      <3>4. /\ \A mk \in AccKeys : \A l \in accStats'[mk] : l \in accStats[mk] \/ (l = k /\ mk = a)
            /\ \A mk \in AccKeys : \A l \in accStats[mk] : l \in accStats'[mk]
            /\ k \in accStats'[a]
        BY <1>4, <3>1, Zenon
      <3>5. Held \subseteq Held' /\ Held' \subseteq Held \cup {k}
        BY <3>2, <3>3, <3>4, Zenon
      <3>6. k \in Held'
        BY <1>4, <3>2, <3>4, Zenon
      <3> QED
        BY <3>4, <3>5, <3>6, Zenon
    <2> QED
      BY <1>1, <2>1, <2>2, Zenon
  <1>8. /\ \A i, j \in DOMAIN lineQueue' : lineQueue'[i] = lineQueue'[j] => i = j
        /\ cur' # NoLine => cur'.l \notin Range(lineQueue')
    BY <1>1, Zenon DEF LineInv, WaitInv
  <1>9. \A l \in Lines : Waits(l)' => l \in sent'
    BY <1>1, <1>6, Zenon DEF LineInv, WaitInv
  <1>10. \A l \in Lines : l \notin sent' \/ Waits(l)' => l \notin Held' /\ None(Spots(l)')
    <2> SUFFICES ASSUME NEW l \in Lines, l \notin sent' \/ Waits(l)' PROVE l \notin Held' /\ None(Spots(l)')
      BY Zenon
    <2>1. l # k /\ (l \notin sent \/ Waits(l))
      BY <1>1, <1>5, <1>6, Zenon
    <2>2. l \notin Held /\ None(Spots(l))
      BY <2>1, Zenon DEF LineInv, WaitInv
    <2> QED
      BY <1>2, <1>7, <2>1, <2>2, Zenon
  <1>11. \A mk \in AccKeys' : \A l \in accStats'[mk] : lineKey'[l] = mk
    <2>1. \A mk \in AccKeys : \A l \in accStats[mk] : lineKey[l] = mk
      BY Zenon DEF LineInv, WaitInv
    <2> QED
      BY <1>1, <1>3, <1>7, <2>1, Zenon DEF a
  <1>12. \A l \in Held' : \A p \in Places \ {1} : Spots(l)'[p] = {}
    <2>1. \A l \in Held : \A p \in Places \ {1} : Spots(l)[p] = {}
      BY Zenon DEF LineInv, WaitInv
    <2>2. \A p \in Places : Spots(k)[p] = {}
      BY <1>5, Zenon DEF None
    <2> QED
      BY <1>2, <1>7, <2>1, <2>2
  <1>13. \A l \in Held' : \A x \in InLists(l, flush)' : flush'[x[1]].at = "copied"
    <2>1. \A l \in Held : \A x \in InLists(l, flush) : flush[x[1]].at = "copied"
      BY Zenon DEF LineInv, WaitInv
    <2>2. InLists(k, flush) = {}
      <3>1. 1 \in Places
        BY DEF Places
      <3> QED
        BY <1>1, <1>5, <3>1, SpotsAre, Zenon DEF None
    <2>3. \A l \in Held' : \A x \in InLists(l, flush') : flush'[x[1]].at = "copied"
      BY <1>1, <1>7, <2>1, <2>2, Zenon
    <2> QED
      BY <2>3, Zenon DEF InLists, By
  <1>14. WaitInv'
    BY <1>8, <1>9, <1>10, <1>11, <1>12, <1>13, Zenon DEF WaitInv, None
  <1>15. \A l \in sent' : Waits(l)' \/ l \in Held' \cup wiped' \/ ~None(Spots(l)')
    <2> SUFFICES ASSUME NEW l \in sent PROVE Waits(l)' \/ l \in Held' \cup wiped' \/ ~None(Spots(l)')
      BY <1>1, Zenon
    <2>1. Waits(l) \/ l \in Held \cup wiped \/ ~None(Spots(l))
      BY Zenon DEF LineInv, KeptInv
    <2>2. wiped \subseteq wiped'
      BY <1>1, Zenon
    <2> QED
      BY <1>2, <1>6, <1>7, <2>1, <2>2, Zenon
  <1>16. KeptInv'
    BY <1>15, Zenon DEF KeptInv, None
  <1>17. CountInv'
    BY <1>1, <1>2, CountSame, Zenon DEF LineInv
  <1> QED
    BY <1>14, <1>16, <1>17, Zenon DEF LineInv

\* Reset empties the map; what no flush has copied is wiped out.
LEMMA ResetKeeps ==
    ASSUME AccTypes, LineInv, NEW f \in EveryFlusher, Reset(f), UNCHANGED aggVars
    PROVE  LineInv'
  <1>1. /\ flush' = [flush EXCEPT ![f].at = "push"] /\ accStats' = [mk \in AccKeys |-> {}]
        /\ wiped' = wiped \cup (Held \ LinesIn(Copied))
        /\ cur' = IF cur.at = "found" THEN [cur EXCEPT !.at = "forgotten"] ELSE cur
        /\ lineQueue' = lineQueue /\ lineKey' = lineKey /\ sent' = sent
        /\ overlapped' = overlapped
        /\ UNCHANGED <<inputChan, jobs, adding, items, flushed>>
    BY Zenon DEF Reset, aggVars
  <1>2. FlushTypes
    BY Zenon DEF AccTypes
  <1>3. \A g \in EveryFlusher : flush'[g].list = flush[g].list
    BY <1>1, <1>2, Zenon DEF FlushTypes
  <1>4. /\ \A l : \A p \in Places : Spots(l)'[p] = Spots(l)[p]
        /\ \A l : None(Spots(l)') <=> None(Spots(l))
        /\ \A l : OneSpot(Spots(l)) => OneSpot(Spots(l)')
    BY <1>1, <1>3, SpotsKept, Zenon
  <1>5. AccKeys' = AccKeys /\ Held' = {} /\ \A mk \in AccKeys' : accStats'[mk] = {}
    <2>1. AccKeys' = AccKeys
      BY <1>1, Zenon DEF AccKeys
    <2> QED
      BY <1>1, <2>1, Zenon DEF Held
  <1>6. (cur' = NoLine <=> cur = NoLine) /\ (cur # NoLine => cur'.l = cur.l)
    BY <1>1 DEF AccTypes, NoLine
  <1>7. \A l : Waits(l)' <=> Waits(l)
    BY <1>1, <1>6, Zenon DEF Waits
  <1>8. /\ \A i, j \in DOMAIN lineQueue' : lineQueue'[i] = lineQueue'[j] => i = j
        /\ cur' # NoLine => cur'.l \notin Range(lineQueue')
    BY <1>1, <1>6, Zenon DEF LineInv, WaitInv
  <1>9. \A l \in Lines : Waits(l)' => l \in sent'
    BY <1>1, <1>7, Zenon DEF LineInv, WaitInv
  <1>10. \A l \in Lines : l \notin sent' \/ Waits(l)' => l \notin Held' /\ None(Spots(l)')
    <2>1. \A l \in Lines : l \notin sent \/ Waits(l) => None(Spots(l))
      BY Zenon DEF LineInv, WaitInv
    <2> QED
      BY <1>1, <1>4, <1>5, <1>7, <2>1, Zenon
  <1>11. \A mk \in AccKeys' : \A l \in accStats'[mk] : lineKey'[l] = mk
    BY <1>5, Zenon
  <1>12. WaitInv'
    <2>1. /\ \A l \in Held' : \A p \in Places \ {1} : Spots(l)'[p] = {}
          /\ \A l \in Held' : \A x \in InLists(l, flush)' : flush'[x[1]].at = "copied"
      BY <1>5, Zenon
    <2> QED
      BY <1>8, <1>9, <1>10, <1>11, <2>1, Zenon DEF WaitInv, None
  <1>13. \A l \in sent' : Waits(l)' \/ l \in Held' \cup wiped' \/ ~None(Spots(l)')
    <2> SUFFICES ASSUME NEW l \in sent PROVE Waits(l)' \/ l \in Held' \cup wiped' \/ ~None(Spots(l)')
      BY <1>1, Zenon
    <2>1. Waits(l) \/ l \in Held \cup wiped \/ ~None(Spots(l))
      BY Zenon DEF LineInv, KeptInv
    <2>2. l \in LinesIn(Copied) => ~None(Spots(l))
      BY <1>2, CopiedHasSpot, Zenon
    <2> QED
      BY <1>1, <1>4, <1>7, <2>1, <2>2, Zenon
  <1>14. KeptInv'
    BY <1>13, Zenon DEF KeptInv, None
  <1>15. CountInv'
    BY <1>1, <1>4, CountSame, Zenon DEF LineInv
  <1> QED
    BY <1>12, <1>14, <1>15, Zenon DEF LineInv

-----------------------------------------------------------------------------
(* No line vanishes, and none is counted twice.                            *)

\* At the start no line was sent, and there is no copy of any.
LEMMA LineInit == Init => LineInv
  <1> SUFFICES ASSUME Init PROVE LineInv
    OBVIOUS
  <1>1. /\ sent = {} /\ lineQueue = <<>> /\ cur = NoLine /\ accStats = [mk \in AccKeys |-> {}]
        /\ \A f \in EveryFlusher : flush[f].list = {}
        /\ inputChan = <<>> /\ jobs = <<>> /\ adding = NoAdd
        /\ \A mk \in AggKeys : items[mk].c = {}
        /\ flushed = <<>>
    BY Zenon DEF Init, AccInit, AggInit, NoItem
  <1>2. Held = {}
    BY <1>1, Zenon DEF Held
  <1>3. \A l : ~Waits(l)
    BY <1>1 DEF Waits, Range
  <1>4. ASSUME NEW l PROVE None(Spots(l)) /\ OneSpot(Spots(l))
    <2>1. InLists(l, flush) = {}
      BY <1>1, Zenon DEF InLists
    <2>2. InSeq(l, inputChan) = {} /\ InSeq(l, jobs) = {}
      BY <1>1 DEF InSeq
    <2>3. InAdd(l) = {}
      BY <1>1, Zenon DEF InAdd
    <2>4. InMap(l, items) = {}
      BY <1>1, Zenon DEF InMap, By
    <2>5. InTicks(l, flushed) = {}
      BY <1>1 DEF InTicks
    <2> DEFINE R == Spots(l)
    <2>6. R[1] = {} /\ R[2] = {} /\ R[3] = {} /\ R[4] = {} /\ R[5] = {} /\ R[6] = {}
      BY <2>1, <2>2, <2>3, <2>4, <2>5, SpotsNow, Zenon
    <2> HIDE DEF R
    <2>7. \A p \in Places : R[p] = {}
      BY <2>6, SixPlaces, Zenon
    <2>8. None(R) /\ OneSpot(R)
      BY <2>7, Zenon DEF None, OneSpot, Single
    <2> QED
      BY <2>8, Zenon DEF R
  <1>5. WaitInv
    BY <1>1, <1>2, <1>3, <1>4 DEF WaitInv
  <1>6. KeptInv
    BY <1>1, Zenon DEF KeptInv
  <1>7. CountInv
    BY <1>4, Zenon DEF CountInv
  <1> QED
    BY <1>5, <1>6, <1>7, Zenon DEF LineInv

\* Every step keeps the line invariants.
LEMMA LineStep == Types /\ LineInv /\ [Next]_vars => LineInv'
  <1> SUFFICES ASSUME Types, LineInv, [Next]_vars PROVE LineInv'
    OBVIOUS
  <1>1. lineKey' = lineKey
    BY KeysFixed, Zenon
  <1>2. AccTypes /\ AddTypes /\ FlushTypes
    BY Zenon DEF Types, AccTypes
  <1>3. CASE AccNext /\ UNCHANGED aggVars
    <2>1. ASSUME UNCHANGED <<lineKey, sent, lineQueue, cur, accStats, wiped, overlapped>>, UNCHANGED inputChan,
                 \A f \in EveryFlusher : flush'[f].list = flush[f].list,
                 \A f \in EveryFlusher : flush[f].at = "copied" => flush'[f].at = "copied"
          PROVE  LineInv'
      <3>1. UNCHANGED <<inputChan, jobs, adding, items, flushed>>
        BY <1>3, <2>1, Zenon DEF aggVars
      <3>2. \A l : Shift(Spots(l), Spots(l)')
        BY <1>1, <2>1, <3>1, SpotsKept, Zenon
      <3>3. \A l \in Lines : Shift(Spots(l), Spots(l)')
        BY <3>2, Zenon
      <3> QED
        BY <1>2, <2>1, <3>3, QuietStep, Zenon
    <2>2. ASSUME NEW l \in Lines, ProcessLine(l) PROVE LineInv'
      BY <1>2, <1>3, <2>2, SendKeeps, Zenon
    <2>3. ASSUME NEW l \in Lines, ProcessLinePanics(l) PROVE LineInv'
      <3>1. UNCHANGED <<accVars, inputChan>>
        BY <2>3, Zenon DEF ProcessLinePanics
      <3> QED
        BY <2>1, <3>1, Zenon DEF accVars
    <2>4. CASE TakeLine
      BY <1>2, <1>3, <2>4, TakeKeeps, Zenon
    <2>5. CASE Accumulate
      BY <1>2, <1>3, <2>5, AccumulateKeeps, Zenon
    <2>6. CASE LoopEnds
      <3>1. UNCHANGED <<lineKey, sent, lineQueue, cur, accStats, wiped, overlapped>> /\ UNCHANGED <<inputChan, flush>>
        BY <2>6, Zenon DEF LoopEnds
      <3> QED
        BY <2>1, <3>1, Zenon
    <2>7. ASSUME NEW f \in Flushers, FlushTick(f) PROVE LineInv'
      <3>1. /\ UNCHANGED <<lineKey, sent, lineQueue, cur, accStats, wiped, overlapped>> /\ UNCHANGED inputChan
            /\ flush' = [flush EXCEPT ![f].at = "start"] /\ flush[f].at = "idle"
        BY <2>7, Zenon DEF FlushTick
      <3>2. \A g \in EveryFlusher : flush'[g].list = flush[g].list /\ (flush[g].at = "copied" => flush'[g].at = "copied")
        BY <1>2, <3>1, Zenon DEF FlushTypes
      <3> QED
        BY <2>1, <3>1, <3>2, Zenon
    <2>8. ASSUME NEW f \in EveryFlusher, FlushList(f) PROVE LineInv'
      BY <1>2, <1>3, <2>8, CopyKeeps, Zenon
    <2>9. ASSUME NEW f \in EveryFlusher, Reset(f) PROVE LineInv'
      BY <1>2, <1>3, <2>9, ResetKeeps, Zenon
    <2>10. ASSUME NEW f \in EveryFlusher, PushStat(f) PROVE LineInv'
      BY <1>2, <1>3, <2>10, PushKeeps, Zenon
    <2>11. ASSUME NEW f \in EveryFlusher, FlushEnds(f) PROVE LineInv'
      <3> DEFINE to == IF f = Stopper THEN "done" ELSE "idle"
      <3>1. /\ UNCHANGED <<lineKey, sent, lineQueue, cur, accStats, wiped, overlapped>> /\ UNCHANGED inputChan
            /\ flush[f].at = "push" /\ flush' = [flush EXCEPT ![f] = [flush[f] EXCEPT !.at = to]]
        BY <2>11 DEF FlushEnds
      <3> HIDE DEF to
      <3>2. \A g \in EveryFlusher : flush'[g].list = flush[g].list /\ (flush[g].at = "copied" => flush'[g].at = "copied")
        BY <1>2, <3>1, Zenon DEF FlushTypes
      <3> QED
        BY <2>1, <3>1, <3>2, Zenon
    <2>12. CASE Stop
      <3>1. /\ UNCHANGED <<lineKey, sent, lineQueue, cur, accStats, wiped, overlapped>> /\ UNCHANGED inputChan
            /\ flush' = [flush EXCEPT ![Stopper].at = "start"] /\ stop = "no"
        BY <2>12, Zenon DEF Stop
      <3>2. Stopper \in EveryFlusher /\ flush[Stopper].at = "idle"
        BY <1>2, <3>1, Zenon DEF FlushTypes, EveryFlusher
      <3>3. \A g \in EveryFlusher : flush'[g].list = flush[g].list /\ (flush[g].at = "copied" => flush'[g].at = "copied")
        BY <1>2, <3>1, <3>2, Zenon DEF FlushTypes
      <3> QED
        BY <2>1, <3>1, <3>3, Zenon
    <2>13. CASE StopAggregators
      <3>1. UNCHANGED <<accVars, inputChan>>
        BY <2>13, Zenon DEF StopAggregators
      <3> QED
        BY <2>1, <3>1, Zenon DEF accVars
    <2> QED
      BY <1>3, <2>2, <2>3, <2>4, <2>5, <2>6, <2>7, <2>8, <2>9, <2>10, <2>11, <2>12, <2>13, Zenon
      DEF AccNext, LoopStep, FlushStep
  <1>4. ASSUME UNCHANGED accVars, \A l : Shift(Spots(l), Spots(l)') PROVE LineInv'
    <2>1. UNCHANGED <<lineKey, sent, lineQueue, cur, accStats, wiped, overlapped>> /\ flush' = flush
      BY <1>4, Zenon DEF accVars
    <2>2. /\ \A f \in EveryFlusher : flush[f].at = "copied" => flush'[f].at = "copied"
          /\ \A l \in Lines : Shift(Spots(l), Spots(l)')
      BY <1>4, <2>1, Zenon
    <2> QED
      BY <1>2, <2>1, <2>2, QuietStep, Zenon
  <1>5. CASE AggNext
    <2>1. UNCHANGED accVars
      BY <1>5, Zenon DEF AggNext, startInputLooper, AddStep, AddLookup, Add, WriteTick, postBails, post, postPanics,
         WriterStep, procLoop, processQueue, Poll, StopWriter
    <2>2. UNCHANGED flush
      BY <2>1, Zenon DEF accVars
    <2>3. \A l : Shift(Spots(l), Spots(l)')
      BY <1>1, <1>2, <1>5, <2>2, AggMoves, Zenon
    <2> QED
      BY <1>4, <2>1, <2>3, Zenon
  <1>6. CASE UNCHANGED vars
    <2>1. UNCHANGED accVars /\ flush' = flush /\ UNCHANGED <<inputChan, jobs, adding, items, flushed>>
      BY <1>6, Zenon DEF vars, accVars, aggVars
    <2>2. \A f \in EveryFlusher : flush'[f].list = flush[f].list
      BY <2>1, Zenon
    <2>3. \A l : Shift(Spots(l), Spots(l)')
      BY <1>1, <2>1, <2>2, SpotsKept, Zenon
    <2> QED
      BY <1>4, <2>1, <2>3, Zenon
  <1> QED
    BY <1>3, <1>5, <1>6, Zenon DEF Next

\* What the pipeline keeps of every line, whatever the interleaving.
LEMMA LinesKept == Spec => [](Types /\ LineInv)
  <1>1. Init => Types /\ LineInv
    BY TypesInit, LineInit, Zenon
  <1>2. Types /\ LineInv /\ [Next]_vars => (Types /\ LineInv)'
    BY TypesStep, LineStep, Zenon
  <1> QED
    BY <1>1, <1>2, PTL DEF Spec

\* No line that ProcessLine took vanishes before a tick takes it: unless a flush of
\* the accumulator wiped it out, it is in the line queue, in the loop of Start, in
\* the map, in the copies of a flush, in InputChan, in a job, in Add or in an item,
\* or was in the items of a tick.
THEOREM LinesReachTheWriterLoop == Spec => []NoLineVanishes
  <1>1. Types /\ LineInv => NoLineVanishes
    <2> SUFFICES ASSUME Types, LineInv, NEW l \in sent
                 PROVE  l \in InAccumulator \cup wiped \cup LinesOf(Underway \cup Flushed)
      BY Zenon DEF NoLineVanishes
    <2>1. Waits(l) \/ l \in Held \cup wiped \/ ~None(Spots(l))
      BY Zenon DEF LineInv, KeptInv
    <2>2. CASE Waits(l)
      BY <2>2, Zenon DEF Waits, InAccumulator
    <2>3. CASE l \in Held \cup wiped
      BY <2>3, Zenon DEF InAccumulator
    <2>4. CASE ~None(Spots(l))
      <3>1. ASSUME NEW g, <<l, g>> \in Underway \cup Flushed PROVE l \in LinesOf(Underway \cup Flushed)
        <4>1. <<l, g>>[1] = l
          OBVIOUS
        <4> QED
          BY <3>1, <4>1, Zenon DEF LinesOf
      <3>2. CASE InLists(l, flush) # {}
        <4>1. PICK x : x \in InLists(l, flush)
          BY <3>2, Zenon
        <4>2. l \in Lines
          BY Zenon DEF Types, AccTypes
        <4>3. l \in LinesIn(flush[x[1]].list) /\ x[1] \in EveryFlusher
          BY <4>1, <4>2, ListedLines, Zenon
        <4> QED
          BY <4>3, Zenon DEF InAccumulator
      <3>3. CASE InSeq(l, inputChan) # {}
        <4>1. PICK x \in (DOMAIN inputChan) \X EveryFlusher : x[2] \in By(l, inputChan[x[1]].c)
          BY <3>3, Zenon DEF InSeq
        <4>2. <<l, x[2]>> \in inputChan[x[1]].c /\ inputChan[x[1]] \in Range(inputChan)
          BY <4>1, Zenon DEF By, Range
        <4> QED
          BY <3>1, <4>2, Zenon DEF Underway
      <3>4. CASE InSeq(l, jobs) # {}
        <4>1. PICK x \in (DOMAIN jobs) \X EveryFlusher : x[2] \in By(l, jobs[x[1]].c)
          BY <3>4, Zenon DEF InSeq
        <4>2. <<l, x[2]>> \in jobs[x[1]].c /\ jobs[x[1]] \in Range(jobs)
          BY <4>1, Zenon DEF By, Range
        <4> QED
          BY <3>1, <4>2, Zenon DEF Underway
      <3>5. CASE InAdd(l) # {}
        <4>1. adding # NoAdd /\ By(l, adding.s.c) # {}
          BY <3>5, Zenon DEF InAdd
        <4>2. PICK g : <<l, g>> \in adding.s.c
          BY <4>1, Zenon DEF By
        <4> QED
          BY <3>1, <4>1, <4>2, Zenon DEF Underway
      <3>6. CASE InMap(l, items) # {}
        <4>1. PICK x \in AggKeys \X EveryFlusher : x[2] \in By(l, items[x[1]].c)
          BY <3>6, Zenon DEF InMap
        <4>2. x[1] \in AggKeys /\ <<l, x[2]>> \in items[x[1]].c
          BY <4>1, Zenon DEF By
        <4>3. <<l, x[2]>> \in Contents(items)
          BY <4>2, Zenon DEF Contents
        <4> QED
          BY <3>1, <4>3, Zenon DEF Underway
      <3>7. CASE InTicks(l, flushed) # {}
        <4>1. PICK x \in (DOMAIN flushed) \X AggKeys \X EveryFlusher : x[3] \in By(l, flushed[x[1]][x[2]].c)
          BY <3>7, Zenon DEF InTicks
        <4>2. x[1] \in DOMAIN flushed /\ x[2] \in AggKeys /\ <<l, x[3]>> \in flushed[x[1]][x[2]].c
          BY <4>1, Zenon DEF By
        <4>3. <<l, x[3]>> \in Contents(flushed[x[1]])
          BY <4>2, Zenon DEF Contents
        <4> QED
          BY <3>1, <4>2, <4>3, Zenon DEF Flushed
      <3>8. \/ InLists(l, flush) # {} \/ InSeq(l, inputChan) # {} \/ InSeq(l, jobs) # {}
            \/ InAdd(l) # {} \/ InMap(l, items) # {} \/ InTicks(l, flushed) # {}
        <4> DEFINE R == Spots(l)
        <4>1. /\ R[1] = InLists(l, flush) /\ R[2] = InSeq(l, inputChan) /\ R[3] = InSeq(l, jobs)
              /\ R[4] = InAdd(l) /\ R[5] = InMap(l, items) /\ R[6] = InTicks(l, flushed)
          BY SpotsNow, Zenon
        <4>2. ~None(R)
          BY <2>4, Zenon
        <4> HIDE DEF R
        <4> QED
          BY <4>1, <4>2 DEF None, Places
      <3> QED
        BY <3>2, <3>3, <3>4, <3>5, <3>6, <3>7, <3>8, Zenon
    <2> QED
      BY <2>1, <2>2, <2>3, <2>4, Zenon
  <1> QED
    BY <1>1, LinesKept, PTL

\* A line is counted once in all that the ticks took, unless two flushes of the
\* accumulator overlapped, and nothing that was dropped is written.
THEOREM LinesCountOnce == Spec => []NoLineTwice
  <1>1. LineInv /\ OrderInv => NoLineTwice
    <2> SUFFICES ASSUME LineInv, OrderInv PROVE NoLineTwice
      OBVIOUS
    <2>1. ASSUME ~overlapped, NEW l \in Lines PROVE Cardinality(Copies(l)) <= 1
      <3>1. OneSpot(Spots(l)) /\ 6 \in Places
        BY <2>1 DEF LineInv, CountInv, Places
      <3>2. Single(InTicks(l, flushed))
        BY <3>1, SpotsNow, Zenon DEF OneSpot
      <3>3. Copies(l) \subseteq InTicks(l, flushed)
        BY Zenon DEF Copies, InTicks, By
      <3>4. CASE Copies(l) = {}
        BY <3>4, FS_EmptySet
      <3>5. CASE Copies(l) # {}
        <4>1. PICK x : x \in Copies(l)
          BY <3>5, Zenon
        <4>2. Copies(l) = {x}
          BY <3>2, <3>3, <4>1, Zenon DEF Single
        <4>3. Cardinality({x}) = 1
          BY FS_Singleton, Zenon
        <4> QED
          BY <4>2, <4>3
      <3> QED
        BY <3>4, <3>5, Zenon
    <2>2. ASSUME NEW i \in DOMAIN written PROVE <<written[i].n, written[i].mk>> \notin full
      <3>1. <<written[i].n, written[i].mk>> \in Range(Done)
        BY Zenon DEF Range, Done
      <3> QED
        BY <3>1, Zenon DEF OrderInv
    <2> QED
      BY <2>1, <2>2, Zenon DEF NoLineTwice
  <1> QED
    BY <1>1, LinesKept, PostedInOrder, PTL
=============================================================================
