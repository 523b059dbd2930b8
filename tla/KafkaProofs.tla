----------------------------- MODULE KafkaProofs ----------------------------
(***************************************************************************)
(* For any number of series, any topic, setting and cache size, and any    *)
(* number of stops, crashes and lost commit messages: no mark overtakes a  *)
(* point, and a running process has forgotten no point it is past.         *)
(***************************************************************************)
EXTENDS KafkaInjector, FiniteSetTheorems, WellFoundedInduction, TLAPS

\* A set of natural numbers has a smallest one, so Min returns a member.
LEMMA MinOfNaturals ==
  ASSUME NEW T, T # {}, \A y \in T : y \in Nat
  PROVE  Min(T) \in T /\ \A y \in T : Min(T) <= y
<1> DEFINE R == OpToRel(<, Nat)
<1>1. R = {ss \in Nat \X Nat : ss[1] < ss[2]}
  BY Zenon DEF OpToRel
<1>2. IsWellFoundedOn(R, Nat)
  BY NatLessThanWellFounded, Zenon
<1> HIDE DEF R
<1>3. PICK x \in T : \A y \in T : ~(<<y, x>> \in R)
  BY <1>2, WFMin, T \subseteq Nat, Zenon
<1>4. ASSUME NEW y \in T PROVE x <= y
  <2>1. x \in Nat /\ y \in Nat /\ ~(<<y, x>> \in R)
    BY <1>3, Zenon
  <2>2. ~(y < x)
    BY <1>1, <2>1, Zenon
  <2> QED
    BY <2>1, <2>2
<1> QED
  BY <1>4, Zenon DEF Min

\* A nonempty set of numbers up to n has a largest one.
LEMMA MaxOfBounded ==
  ASSUME NEW n \in Nat, NEW I, I # {}, \A k \in I : k \in 1..n
  PROVE  Max(I) \in I
<1> DEFINE T == {n - k : k \in I}
<1>1. T # {} /\ \A y \in T : y \in Nat
  OBVIOUS
<1>2. Min(T) \in T /\ \A y \in T : Min(T) <= y
  <2> HIDE DEF T
  <2> QED
    BY <1>1, MinOfNaturals, Zenon
<1>3. PICK k \in I : Min(T) = n - k
  BY <1>2, Zenon
<1>4. ASSUME NEW j \in I PROVE k >= j
  <2>1. n - j \in T /\ j \in 1..n /\ k \in 1..n
    OBVIOUS
  <2>2. n - k <= n - j
    BY <1>2, <1>3, <2>1, Zenon
  <2> QED
    BY <2>1, <2>2
<1> QED
  BY <1>4, Zenon DEF Max

-----------------------------------------------------------------------------
\* Every message of the topic is of one of the series.
LEMMA TopicType ==
  ASSUME TypeOK, NEW o \in Offsets
  PROVE  SeriesOf(o) \in Series /\ o \in Int /\ FirstOffset <= o
<1>1. topic \in Seq(Series) /\ FirstOffset \in Nat
  BY KafkaAssumption, Zenon DEF TypeOK
<1>2. Len(topic) \in Nat /\ \A i \in 1..Len(topic) : topic[i] \in Series
  BY <1>1
<1>3. o \in Int /\ FirstOffset <= o /\ o - FirstOffset + 1 \in 1..Len(topic)
  BY <1>1, <1>2 DEF Offsets, Newest
<1> QED
  BY <1>2, <1>3, Zenon DEF SeriesOf

-----------------------------------------------------------------------------
(* What every step keeps.                                                   *)

\* No step changes the topic or takes a point back that is stored or lost.
Settled == stored \cup Lost
Grows == topic' = topic /\ Settled \subseteq Settled'

\* No step takes a stored or a recorded point back.
LEMMA NextGrows == [Next]_vars => Grows
<1> SUFFICES ASSUME [Next]_vars PROVE Grows
  OBVIOUS
<1> USE DEF Grows, Settled, Lost, kafka, disk, memory, history
<1>1. CASE Starts
  BY <1>1 DEF Starts, Start
<1>2. CASE Consumes
  BY <1>2, Zenon DEF Consumes, Skip, Refuse, Consume, OutOfRange
<1>3. CASE Writes
  BY <1>3, Zenon DEF Writes, InsertSeries, InsertGivesUp
<1>4. CASE Stops
  BY <1>4, Zenon DEF Stops, LateAdd, BeginPurge, Purge, PurgeGivesUp, Exit
<1>5. CASE \E s \in Series : pushExpired(s)
  BY <1>5, Zenon DEF pushExpired
<1>6. CASE \E n \in notify : onMessageWritten(n)
  BY <1>6, Zenon DEF onMessageWritten
<1>7. CASE Retention \/ processMarkWrote \/ Stop \/ Crash \/ ExpirePanics
  BY <1>7, Zenon DEF Retention, processMarkWrote, Stop, Crash, ExpirePanics
<1>8. CASE UNCHANGED vars
  BY <1>8, Zenon DEF vars
<1> QED
  BY <1>1, <1>2, <1>3, <1>4, <1>5, <1>6, <1>7, <1>8, Zenon DEF Next

\* So a safe mark stays safe, wherever it is copied to.
LEMMA MarkStaysSafe ==
  ASSUME Grows, NEW m, MarkIsSafe(m)
  PROVE  MarkIsSafe(m)'
  BY Zenon DEF Grows, Settled, MarkIsSafe, Offsets, Newest, SeriesOf, Lost

-----------------------------------------------------------------------------
(* Types.                                                                   *)

\* Nothing is marked, cached or under way at first.
LEMMA KafkaInvInit == Init => KafkaInv
<1> SUFFICES ASSUME Init PROVE KafkaInv
  OBVIOUS
<1>1. /\ NoMarks \in [Series -> Nat] /\ \A s \in Series : NoMarks[s] = 0
      /\ NoCache \in [Series -> Items]
      /\ \A s \in Series : NoCache[s].s = s /\ NoCache[s].off = 0
  BY Zenon DEF NoMarks, NoCache, Empty, Item, Items
<1>2. TypeOK
  BY <1>1, KafkaAssumption DEF Init, TypeOK
<1>3. KnownMarksAreSafe
  BY <1>1 DEF Init, KnownMarksAreSafe, MarksAreSafe, MarkIsSafe
<1> QED
  BY <1>2, <1>3 DEF Init, KafkaInv, OverflowInOrder, CacheIsBehind, DownIsEmpty

\* The marks a start reads.
LEMMA CommittedMarks ==
  ASSUME TypeOK, NEW i \in 1..(Len(commits) + 1), NEW s \in Series
  PROVE  \/ getLatestOffsetsCommitted(i)[s] = 0
         \/ \E k \in 1..Len(commits) :
              commits[k].s = s /\ commits[k].off > 0 /\ getLatestOffsetsCommitted(i)[s] = commits[k].off
<1> DEFINE I == {k \in i..Len(commits) : commits[k].s = s /\ commits[k].off > 0}
<1>1. getLatestOffsetsCommitted(i)[s] = AddIfBigger(I)
  BY Zenon DEF getLatestOffsetsCommitted
<1>2. Len(commits) \in Nat /\ \A k \in I : k \in 1..Len(commits)
  BY DEF TypeOK
<1>3. I # {} => Max(I) \in I
  <2> HIDE DEF I
  <2> QED
    BY <1>2, MaxOfBounded, Zenon
<1> QED
  BY <1>1, <1>2, <1>3, Zenon DEF AddIfBigger

\* Whatever the start mode, the marks a start works with are safe.
LEMMA StartMarks ==
  ASSUME KafkaInv, NEW i \in 1..(Len(commits) + 1),
         NEW map, map \in {NoMarks, local, getLatestOffsetsCommitted(i)}
  PROVE  map \in [Series -> Nat] /\ \A s \in Series : MarkIsSafe([s |-> s, off |-> map[s]])
<1>1. TypeOK /\ KnownMarksAreSafe /\ MarksAreSafe
  BY Zenon DEF KafkaInv, KnownMarksAreSafe
<1>2. CASE map = NoMarks
  BY <1>2 DEF NoMarks, MarkIsSafe
<1>3. CASE map = local
  BY <1>1, <1>3, Zenon DEF TypeOK, MarksAreSafe
<1>4. CASE map = getLatestOffsetsCommitted(i)
  <2>1. ASSUME NEW s \in Series PROVE map[s] \in Nat /\ MarkIsSafe([s |-> s, off |-> map[s]])
    <3>1. CASE map[s] = 0
      BY <3>1 DEF MarkIsSafe
    <3>2. CASE \E k \in 1..Len(commits) : commits[k].s = s /\ commits[k].off > 0 /\ map[s] = commits[k].off
      <4>1. PICK k \in 1..Len(commits) : commits[k].s = s /\ map[s] = commits[k].off
        BY <3>2, Zenon
      <4>2. commits[k] \in Mark /\ MarkIsSafe(commits[k])
        BY <1>1 DEF TypeOK, MarksAreSafe
      <4> QED
        BY <4>1, <4>2, Zenon DEF MarkIsSafe, Mark
    <3> QED
      BY <1>1, <1>4, <3>1, <3>2, CommittedMarks, Zenon
  <2>2. map = [s \in Series |-> map[s]]
    BY <1>4, Zenon DEF getLatestOffsetsCommitted
  <2> QED
    BY <2>1, <2>2, Zenon
<1> QED
  BY <1>2, <1>3, <1>4, Zenon

\* Forgetting everything keeps the invariant: what is on disk is safe.
LEMMA ForgetKeepsInv == KafkaInv /\ Forget /\ UNCHANGED <<kafka, disk, orphans, dropped>> => KafkaInv'
<1> SUFFICES ASSUME KafkaInv, Forget, UNCHANGED <<topic, oldest, stored, commits, local, orphans, dropped>>
             PROVE  KafkaInv'
  BY Zenon DEF kafka, disk
<1>0. TypeOK /\ KnownMarksAreSafe /\ MarksAreSafe
  BY Zenon DEF KafkaInv, KnownMarksAreSafe
<1>1. /\ NoMarks \in [Series -> Nat] /\ \A s \in Series : NoMarks[s] = 0
      /\ NoCache \in [Series -> Items]
      /\ \A s \in Series : NoCache[s].s = s /\ NoCache[s].off = 0
  BY Zenon DEF NoMarks, NoCache, Empty, Item, Items
<1>2. TypeOK'
  BY <1>0, <1>1 DEF TypeOK, Forget
<1>3. Grows
  BY Zenon DEF Grows, Settled, Lost
<1>4. /\ \A k \in 1..Len(commits) : MarkIsSafe(commits[k])'
      /\ \A s \in Series : MarkIsSafe([s |-> s, off |-> local[s]])'
  BY <1>0, <1>3, Zenon DEF MarksAreSafe, MarkIsSafe, Grows, Settled, Offsets, Newest, SeriesOf, Lost
<1>5. KnownMarksAreSafe'
  BY <1>1, <1>4 DEF KnownMarksAreSafe, MarksAreSafe, MarkIsSafe, Forget
<1> QED
  BY <1>2, <1>5 DEF KafkaInv, OverflowInOrder, CacheIsBehind, DownIsEmpty, Forget

-----------------------------------------------------------------------------
(* The parts of the invariant a step leaves alone, and the overflow channel. *)

\* Marks that are left alone stay safe.
LEMMA MarksKept ==
  ASSUME KafkaInv, Grows, UNCHANGED <<commits, local, markChan, marks, notify>>
  PROVE  KnownMarksAreSafe'
<1>1. KnownMarksAreSafe
  BY Zenon DEF KafkaInv
<1>2. \A m : MarkIsSafe(m) => MarkIsSafe(m)'
  BY MarkStaysSafe, Zenon
<1> QED
  BY <1>1, <1>2, Zenon DEF KnownMarksAreSafe, MarksAreSafe

\* A channel that is left alone stays in order.
LEMMA OverflowKept ==
  ASSUME KafkaInv, Grows, UNCHANGED overflow
  PROVE  OverflowInOrder'
<1>1. OverflowInOrder
  BY Zenon DEF KafkaInv
<1> QED
  BY <1>1, Zenon DEF OverflowInOrder, Grows, Settled, Offsets, Newest, SeriesOf, Lost

\* A point is in one of the series of q.
Holds(q, o) == \E j \in 1..Len(q) : o \in q[j].pts

\* A series leaves the cache for the channel: all its earlier points are before
\* it in the channel, or stored.
LEMMA OverflowAppend ==
  ASSUME KafkaInv, Grows, run = "up", NEW s \in Keys, overflow' = Append(overflow, cache[s])
  PROVE  /\ OverflowInOrder'
         /\ overflow' \in Seq(Items)
         /\ \A o : Holds(overflow', o) <=> Holds(overflow, o) \/ o \in cache[s].pts
<1>1. TypeOK /\ OverflowInOrder /\ CacheIsBehind
  BY Zenon DEF KafkaInv
<1>2. s \in Series /\ cache[s] \in Items /\ cache[s].s = s /\ overflow \in Seq(Items)
  BY <1>1, Zenon DEF Keys, TypeOK
<1>3. /\ Len(overflow) \in Nat /\ Len(overflow') = Len(overflow) + 1 /\ overflow' \in Seq(Items)
      /\ \A j \in 1..Len(overflow) : overflow'[j] = overflow[j]
      /\ overflow'[Len(overflow) + 1] = cache[s]
  BY <1>2
<1>4. \A o : Holds(overflow', o) <=> Holds(overflow, o) \/ o \in cache[s].pts
  BY <1>3 DEF Holds
<1>5. cache[s].off < pos /\ cache[s].off \in Nat /\ pos \in Nat
  BY <1>1, <1>2, Zenon DEF CacheIsBehind, TypeOK, Items
<1>6. ASSUME NEW k \in 1..Len(overflow'), NEW o \in Offsets',
             o <= overflow'[k].off, SeriesOf(o)' = overflow'[k].s,
             o \notin Settled'
      PROVE  \E j \in 1..k : o \in overflow'[j].pts
  <2>1. o \in Offsets /\ SeriesOf(o)' = SeriesOf(o) /\ o \notin Settled /\ o \in Int
    BY <1>6, <1>1, KafkaAssumption DEF Grows, Offsets, Newest, SeriesOf, TypeOK
  <2>2. CASE k \in 1..Len(overflow)
    <3>1. \E j \in 1..k : o \in overflow[j].pts
      BY <1>1, <1>3, <1>6, <2>1, <2>2, Zenon DEF OverflowInOrder, Settled
    <3> QED
      BY <1>3, <2>2, <3>1
  <2>3. CASE k = Len(overflow) + 1
    <3>0. o <= cache[s].off /\ SeriesOf(o)' = cache[s].s
      BY <1>3, <1>6, <2>3, Zenon
    <3>1. o < pos /\ SeriesOf(o) = s
      <4>1. SeriesOf(o) = s
        BY <1>2, <2>1, <3>0, Zenon
      <4>2. o \in Int /\ o <= cache[s].off
        BY <2>1, <3>0, Zenon
      <4>3. o < pos
        BY <1>5, <4>2
      <4> QED
        BY <4>1, <4>3, Zenon
    <3>2. o \in cache[s].pts \/ \E j \in 1..Len(overflow) : o \in overflow[j].pts
      BY <1>1, <2>1, <3>1, Zenon DEF CacheIsBehind, Settled
    <3> QED
      BY <1>3, <2>3, <3>2
  <2> QED
    BY <1>3, <2>2, <2>3
<1> QED
  BY <1>3, <1>4, <1>6, Zenon DEF OverflowInOrder, Settled

\* The writer is done with the first series of the channel.
LEMMA OverflowTail ==
  ASSUME KafkaInv, Grows, overflow # <<>>, overflow' = Tail(overflow), Head(overflow).pts \subseteq Settled'
  PROVE  /\ OverflowInOrder'
         /\ overflow' \in Seq(Items)
         /\ \A o : Holds(overflow, o) => o \in Settled' \/ Holds(overflow', o)
<1>1. TypeOK /\ OverflowInOrder
  BY Zenon DEF KafkaInv
<1>2. /\ Len(overflow) \in Nat \ {0} /\ Len(overflow') = Len(overflow) - 1 /\ overflow' \in Seq(Items)
      /\ \A j \in 1..(Len(overflow) - 1) : overflow'[j] = overflow[j + 1]
      /\ Head(overflow) = overflow[1]
  BY <1>1 DEF TypeOK
<1>3. ASSUME NEW n \in 1..Len(overflow), NEW j \in 1..n, NEW o, o \in overflow[j].pts, o \notin Settled'
      PROVE  \E l \in 1..(n - 1) : o \in overflow'[l].pts
  <2>1. j # 1
    BY <1>2, <1>3, Zenon
  <2>2. j - 1 \in 1..(n - 1) /\ j - 1 \in 1..(Len(overflow) - 1) /\ (j - 1) + 1 = j
    BY <1>2, <2>1
  <2> QED
    BY <1>2, <1>3, <2>2, Zenon
<1>4. \A o : Holds(overflow, o) => o \in Settled' \/ Holds(overflow', o)
  <2> SUFFICES ASSUME NEW o, Holds(overflow, o), o \notin Settled' PROVE Holds(overflow', o)
    OBVIOUS
  <2>1. PICK j \in 1..Len(overflow) : o \in overflow[j].pts
    BY Zenon DEF Holds
  <2>2. Len(overflow) \in 1..Len(overflow)
    BY <1>2
  <2> QED
    BY <1>2, <1>3, <2>1, <2>2, Zenon DEF Holds
<1>5. ASSUME NEW k \in 1..Len(overflow'), NEW o \in Offsets',
             o <= overflow'[k].off, SeriesOf(o)' = overflow'[k].s,
             o \notin Settled'
      PROVE  \E j \in 1..k : o \in overflow'[j].pts
  <2>1. o \in Offsets /\ SeriesOf(o)' = SeriesOf(o) /\ o \notin Settled
    BY <1>5, Zenon DEF Grows, Offsets, Newest, SeriesOf
  <2>2. k + 1 \in 1..Len(overflow) /\ overflow'[k] = overflow[k + 1] /\ (k + 1) - 1 = k
    BY <1>2
  <2>3. \E j \in 1..(k + 1) : o \in overflow[j].pts
    BY <1>1, <1>5, <2>1, <2>2, Zenon DEF OverflowInOrder, Settled
  <2> QED
    BY <1>3, <1>5, <2>2, <2>3, Zenon
<1> QED
  BY <1>2, <1>4, <1>5, Zenon DEF OverflowInOrder, Settled

-----------------------------------------------------------------------------
(* The steps.                                                               *)

\* A start resumes at the smallest mark: what it passes over of a marked series
\* is safe, the rest is recorded.
LEMMA StartKeepsInv == KafkaInv /\ Grows /\ Starts => KafkaInv'
<1> SUFFICES ASSUME KafkaInv, Grows,
                    NEW mode \in Modes, NEW begin \in oldest..Newest, NEW fresh \in BOOLEAN,
                    NEW i \in 1..(Len(commits) + 1), Start(mode, begin, fresh, i)
             PROVE  KafkaInv'
  BY Zenon DEF Starts
<1> DEFINE useLocal == LocalMark /\ fresh /\ Marked(local) # {}
           map == CASE mode \in {"newest", "reset"} -> NoMarks
                    [] useLocal -> local
                    [] OTHER -> getLatestOffsetsCommitted(i)
           minOffset == PartitionMinOffset(map)
           wanted == IF minOffset > 0 THEN minOffset ELSE begin
           useOffset == IF oldest > wanted THEN oldest ELSE wanted
           Passed == FirstOffset..(useOffset - 1) \ stored
<1>1. /\ run = "down" /\ run' = "up" /\ marks' = map /\ pos' = useOffset
      /\ orphans' = orphans \cup {o \in Passed : map[SeriesOf(o)] = 0}
      /\ dropped' = dropped \cup {o \in Passed : o < oldest}
      /\ UNCHANGED <<topic, oldest, stored, commits, local, cache, overflow, notify, markChan>>
  BY Zenon DEF Start, kafka, disk
<1>2. TypeOK /\ KnownMarksAreSafe /\ DownIsEmpty
  BY Zenon DEF KafkaInv
<1>3. map \in {NoMarks, local, getLatestOffsetsCommitted(i)}
  OBVIOUS
<1> HIDE DEF map
<1>4. map \in [Series -> Nat] /\ \A s \in Series : MarkIsSafe([s |-> s, off |-> map[s]])
  BY <1>3, StartMarks, Zenon
<1>5. begin \in Nat /\ oldest \in Nat
  BY <1>2, KafkaAssumption DEF TypeOK, Newest
<1>6. /\ minOffset \in Int
      /\ \A s \in Series : map[s] > 0 => minOffset > 0 /\ minOffset <= map[s]
  <2>1. CASE Marked(map) = {}
    BY <1>4, <2>1 DEF PartitionMinOffset, Marked
  <2>2. CASE Marked(map) # {}
    <3> DEFINE T == {map[s] : s \in Marked(map)}
    <3>1. T # {} /\ \A y \in T : y \in Nat /\ y > 0
      BY <1>4, <2>2, Zenon DEF Marked
    <3>2. Min(T) \in T /\ \A y \in T : Min(T) <= y
      <4> HIDE DEF T
      <4> QED
        BY <3>1, MinOfNaturals, Zenon
    <3>3. minOffset = Min(T)
      BY <2>2, Zenon DEF PartitionMinOffset
    <3>4. \A s \in Series : map[s] > 0 => map[s] \in T
      BY <1>4, Zenon DEF Marked
    <3> QED
      BY <3>1, <3>2, <3>3, <3>4
  <2> QED
    BY <2>1, <2>2, Zenon
<1> HIDE DEF minOffset
<1>7. useOffset \in Nat
  BY <1>5, <1>6
<1>8. TypeOK'
  BY <1>1, <1>2, <1>4, <1>7, Zenon DEF TypeOK
<1>9. KnownMarksAreSafe'
  <2>1. \A m : MarkIsSafe(m) => MarkIsSafe(m)'
    BY MarkStaysSafe, Zenon
  <2> QED
    BY <1>1, <1>2, <1>4, <2>1, Zenon DEF KnownMarksAreSafe, MarksAreSafe
<1>10. ASSUME NEW o \in Offsets, o < useOffset PROVE o \in Settled'
  <2>1. o \in Int /\ FirstOffset <= o /\ SeriesOf(o) \in Series
    BY <1>2, TopicType, Zenon
  <2>2. o \in FirstOffset..(useOffset - 1)
    BY <1>7, <1>10, <2>1, KafkaAssumption
  <2>3. CASE o \in stored \/ map[SeriesOf(o)] = 0 \/ o < oldest
    <3> HIDE DEF useOffset
    <3> QED
      BY <1>1, <2>2, <2>3, Zenon DEF Settled, Lost
  <2>4. CASE map[SeriesOf(o)] # 0 /\ ~(o < oldest)
    <3>1. map[SeriesOf(o)] \in Nat /\ map[SeriesOf(o)] > 0
      BY <1>4, <2>1, <2>4
    <3>2. o <= map[SeriesOf(o)]
      BY <1>5, <1>6, <1>10, <2>1, <2>4, <3>1
    <3>3. o \in Settled
      BY <1>4, <2>1, <3>1, <3>2, Zenon DEF MarkIsSafe, Settled
    <3> QED
      BY <3>3, Zenon DEF Grows
  <2> QED
    BY <2>3, <2>4, Zenon
<1>11. CacheIsBehind'
  <2>1. Keys' = {}
    BY <1>1, <1>2 DEF DownIsEmpty, Keys, NoCache, Empty, Item
  <2>2. \A o \in Offsets' : o < pos' => o \in Settled'
    <3> HIDE DEF useOffset
    <3> QED
      BY <1>1, <1>10, Zenon DEF Offsets, Newest
  <2> QED
    BY <2>1, <2>2, Zenon DEF CacheIsBehind, Settled
<1>12. OverflowInOrder'
  BY <1>1, OverflowKept, Zenon
<1> QED
  BY <1>1, <1>8, <1>9, <1>11, <1>12, Zenon DEF KafkaInv, DownIsEmpty

\* A step that moves no point out of the process's sight.
LEMMA CacheKept ==
  ASSUME KafkaInv, Grows, UNCHANGED <<pos, cache>>, run' = "up" => run = "up",
         \A o : Holds(overflow, o) => o \in Settled' \/ Holds(overflow', o)
  PROVE  CacheIsBehind'
<1> SUFFICES ASSUME run' = "up" PROVE CacheIsBehind'
  BY Zenon DEF CacheIsBehind
<1>1. CacheIsBehind /\ run = "up"
  BY Zenon DEF KafkaInv
<1>2. Keys' = Keys /\ Offsets' = Offsets /\ \A o : SeriesOf(o)' = SeriesOf(o)
  BY Zenon DEF Grows, Keys, Offsets, Newest, SeriesOf
<1>3. ASSUME NEW o \in Offsets, o < pos
      PROVE  o \in Settled' \cup cache[SeriesOf(o)].pts \/ Holds(overflow', o)
  BY <1>1, <1>3, Zenon DEF CacheIsBehind, Grows, Settled, Holds
<1> QED
  BY <1>1, <1>2, <1>3, Zenon DEF CacheIsBehind, Settled, Holds

\* The consumer moves over one point that is settled, or over expired ones.
LEMMA PassingKeepsInv ==
  KafkaInv /\ Grows /\ (Skip \/ Refuse \/ OutOfRange) => KafkaInv'
<1> SUFFICES ASSUME KafkaInv, Grows, Skip \/ Refuse \/ OutOfRange PROVE KafkaInv'
  OBVIOUS
<1>1. TypeOK /\ KnownMarksAreSafe /\ CacheIsBehind
  BY Zenon DEF KafkaInv
<1>2. /\ run = "up" /\ run' = "up"
      /\ UNCHANGED <<topic, oldest, commits, local, marks, cache, overflow, notify, markChan>>
  BY Zenon DEF Skip, Refuse, OutOfRange, kafka, disk, history
<1>3. pos' \in Nat /\ pos <= pos' /\ \A o \in Offsets : pos <= o /\ o < pos' => o \in Settled'
  <2>0. pos \in Nat /\ oldest \in Nat /\ FirstOffset \in Nat /\ Len(topic) \in Nat
    BY <1>1, KafkaAssumption DEF TypeOK
  <2>1. CASE Skip
    <3>1. pos \in Offsets /\ pos' = pos + 1 /\ marks[SeriesOf(pos)] > pos
      BY <2>1, Zenon DEF Skip, IsLower
    <3>2. SeriesOf(pos) \in Series
      BY <1>1, <3>1, TopicType, Zenon
    <3>3. MarkIsSafe([s |-> SeriesOf(pos), off |-> marks[SeriesOf(pos)]]) /\ marks[SeriesOf(pos)] \in Nat
      BY <1>1, <3>2, Zenon DEF KnownMarksAreSafe, TypeOK
    <3>4. pos \in Settled
      <4>1. marks[SeriesOf(pos)] > 0 /\ pos <= marks[SeriesOf(pos)]
        BY <2>0, <3>1, <3>3
      <4> QED
        BY <3>1, <3>3, <4>1, Zenon DEF MarkIsSafe, Settled
    <3>5. pos \in Settled'
      BY <3>4, Zenon DEF Grows
    <3>6. \A o \in Offsets : pos <= o /\ o < pos' => o = pos
      BY <2>0, <3>1 DEF Offsets, Newest
    <3> QED
      BY <2>0, <3>1, <3>5, <3>6
  <2>2. CASE Refuse
    <3>1. pos' = pos + 1 /\ pos \in Settled'
      BY <2>2, Zenon DEF Refuse, Settled, Lost
    <3>2. \A o \in Offsets : pos <= o /\ o < pos' => o = pos
      BY <2>0, <3>1 DEF Offsets, Newest
    <3> QED
      BY <2>0, <3>1, <3>2
  <2>3. CASE OutOfRange
    <3>1. /\ pos < oldest /\ pos' = oldest /\ UNCHANGED stored
          /\ dropped' = dropped \cup {o \in pos..(oldest - 1) : o \notin stored}
      BY <2>3, Zenon DEF OutOfRange, disk
    <3>2. ASSUME NEW o \in Offsets, pos <= o, o < oldest PROVE o \in stored \cup dropped'
      <4>1. o \in pos..(oldest - 1)
        BY <2>0, <3>2 DEF Offsets, Newest
      <4> QED
        BY <3>1, <4>1, Zenon
    <3> QED
      BY <2>0, <3>1, <3>2 DEF Settled, Lost
  <2> QED
    BY <2>1, <2>2, <2>3, Zenon
<1>4. TypeOK'
  BY <1>1, <1>2, <1>3, Zenon DEF TypeOK
<1>5. KnownMarksAreSafe' /\ OverflowInOrder'
  BY <1>2, MarksKept, OverflowKept, Zenon
<1>6. CacheIsBehind'
  <2>1. Keys' = Keys /\ Offsets' = Offsets /\ \A o : SeriesOf(o)' = SeriesOf(o)
    BY <1>2, Zenon DEF Keys, Offsets, Newest, SeriesOf
  <2>2. ASSUME NEW o \in Offsets, o < pos', o \notin Settled'
        PROVE  o \in cache[SeriesOf(o)].pts \/ Holds(overflow, o)
    <3>1. o < pos
      <4>1. o \in Int /\ pos \in Int
        BY <1>1, KafkaAssumption DEF TypeOK, Offsets, Newest
      <4> QED
        BY <1>3, <2>2, <4>1
    <3> QED
      BY <1>1, <1>2, <2>2, <3>1, Zenon DEF CacheIsBehind, Grows, Settled, Holds
  <2>3. \A s \in Keys : cache[s].off < pos'
    <3> SUFFICES ASSUME NEW s \in Keys PROVE cache[s].off < pos'
      OBVIOUS
    <3>1. cache[s].off < pos /\ cache[s].off \in Nat /\ pos \in Nat
      BY <1>1, <1>2, Zenon DEF CacheIsBehind, TypeOK, Keys, Items
    <3> QED
      BY <1>3, <3>1
  <2> QED
    BY <1>2, <2>1, <2>2, <2>3, Zenon DEF CacheIsBehind, Settled, Holds
<1> QED
  BY <1>2, <1>4, <1>5, <1>6, Zenon DEF KafkaInv, DownIsEmpty

\* The point goes to its series in the cache, or begins a new one there when
\* the series leaves for the channel.
LEMMA ConsumeKeepsInv == KafkaInv /\ Grows /\ Consume => KafkaInv'
<1> SUFFICES ASSUME KafkaInv, Grows, Consume PROVE KafkaInv'
  OBVIOUS
<1> DEFINE s == SeriesOf(pos)
<1>1. TypeOK /\ CacheIsBehind /\ FirstOffset \in Nat
  BY KafkaAssumption, Zenon DEF KafkaInv
<1>2. /\ run = "up" /\ run' = "up" /\ pos \in Offsets /\ pos' = pos + 1 /\ AddWithOffset(s, pos)
      /\ UNCHANGED <<topic, oldest, stored, commits, local, marks, notify, markChan, orphans, dropped>>
  BY Zenon DEF Consume, kafka, disk, history
<1>3. s \in Series
  BY <1>1, <1>2, TopicType, Zenon
<1>4. /\ cache \in [Series -> Items] /\ cache[s] \in Items /\ cache[s].pts \subseteq Int
      /\ cache[s].off \in Nat /\ pos \in Nat /\ overflow \in Seq(Items)
  BY <1>1, <1>3, Zenon DEF TypeOK, Items
<1> HIDE DEF s
<1>5. PICK q \in SUBSET Int, f \in Nat :
        /\ cache' = [cache EXCEPT ![s] = Item(s, q, f)]
        /\ f < pos' /\ pos \in q
        /\ OverflowInOrder' /\ overflow' \in Seq(Items)
        /\ \A o : o \in cache[s].pts => o \in q \/ Holds(overflow', o)
        /\ \A o : Holds(overflow, o) => Holds(overflow', o)
  <2>1. CASE Cardinality(cache[s].pts) > MaxPoints
    <3>1. /\ overflow' = Append(overflow, cache[s])
          /\ cache' = [cache EXCEPT ![s] = Item(s, {pos}, pos)]
      BY <1>2, <2>1, Zenon DEF AddWithOffset
    <3>2. s \in Keys
      <4>1. ~(0 > MaxPoints)
        BY KafkaAssumption
      <4>2. cache[s].pts # {}
        BY <2>1, <4>1, FS_EmptySet, Zenon
      <4> QED
        BY <1>3, <4>2, Zenon DEF Keys
    <3>3. /\ OverflowInOrder' /\ overflow' \in Seq(Items)
          /\ \A o : Holds(overflow', o) <=> Holds(overflow, o) \/ o \in cache[s].pts
      BY <1>2, <3>1, <3>2, OverflowAppend, Zenon
    <3>4. {pos} \in SUBSET Int /\ pos < pos'
      BY <1>2, <1>4
    <3> QED
      BY <1>4, <3>1, <3>3, <3>4, Zenon
  <2>2. CASE ~(Cardinality(cache[s].pts) > MaxPoints)
    <3> DEFINE f == IF cache[s].off < pos THEN pos ELSE cache[s].off
               q == cache[s].pts \cup {pos}
    <3>1. cache' = [cache EXCEPT ![s] = Item(s, q, f)] /\ UNCHANGED overflow
      BY <1>2, <1>3, <1>4, <2>2, Zenon DEF AddWithOffset
    <3>2. f \in Nat /\ f < pos'
      <4>1. cache[s].pts # {} => cache[s].off < pos
        BY <1>1, <1>2, <1>3, Zenon DEF CacheIsBehind, Keys
      <4>2. cache[s].pts = {} => cache[s].off = 0
        BY <1>1, <1>3, Zenon DEF TypeOK
      <4>3. cache[s].off \in Nat /\ pos \in Nat
        BY <1>4, Zenon
      <4>4. pos' = pos + 1
        BY <1>2, Zenon
      <4>5. cache[s].off <= pos
        BY <4>1, <4>2, <4>3
      <4> QED
        BY <4>3, <4>4, <4>5
    <3>3. q \in SUBSET Int /\ pos \in q
      BY <1>4
    <3>4. OverflowInOrder'
      BY <3>1, OverflowKept, Zenon
    <3> HIDE DEF f
    <3>5. /\ \A o : o \in cache[s].pts => o \in q \/ Holds(overflow', o)
          /\ \A o : Holds(overflow, o) => Holds(overflow', o)
      BY <3>1, Zenon
    <3> HIDE DEF q
    <3> QED
      BY <1>4, <3>1, <3>2, <3>3, <3>4, <3>5, Zenon
  <2> QED
    BY <2>1, <2>2, Zenon
<1>6. Item(s, q, f) \in Items /\ Item(s, q, f).s = s /\ Item(s, q, f).pts = q /\ Item(s, q, f).off = f
  BY <1>3, Zenon DEF Item, Items
<1>7. /\ cache' \in [Series -> Items] /\ cache'[s].s = s /\ cache'[s].pts = q /\ cache'[s].off = f
      /\ \A t \in Series : t # s => cache'[t] = cache[t]
  BY <1>3, <1>4, <1>5, <1>6, Zenon
<1>8. TypeOK'
  <2>1. \A t \in Series : cache'[t].s = t /\ (cache'[t].pts = {} => cache'[t].off = 0)
    BY <1>1, <1>5, <1>7, Zenon DEF TypeOK
  <2>2. pos' \in Nat /\ overflow' \in Seq(Items) /\ cache' \in [Series -> Items]
    BY <1>2, <1>4, <1>5, <1>7
  <2> QED
    BY <1>1, <1>2, <2>1, <2>2, Zenon DEF TypeOK
<1>9. KnownMarksAreSafe'
  BY <1>2, MarksKept, Zenon
<1>10. CacheIsBehind'
  <2>1. Offsets' = Offsets /\ Settled' = Settled /\ \A o : SeriesOf(o)' = SeriesOf(o)
    BY <1>2, Zenon DEF Offsets, Newest, SeriesOf, Settled, Lost
  <2>2. ASSUME NEW o \in Offsets, o < pos', o \notin Settled
        PROVE  o \in cache'[SeriesOf(o)].pts \/ Holds(overflow', o)
    <3>1. CASE o = pos
      BY <1>5, <1>7, <3>1, Zenon DEF s
    <3>2. CASE o # pos
      <4>1. o \in Int /\ o < pos
        BY <1>1, <1>2, <1>4, <2>2, <3>2 DEF TypeOK, Offsets, Newest
      <4>2. o \in cache[SeriesOf(o)].pts \/ Holds(overflow, o)
        BY <1>1, <1>2, <2>2, <4>1, Zenon DEF CacheIsBehind, Settled, Holds
      <4>3. SeriesOf(o) \in Series
        BY <1>1, TopicType, Zenon
      <4>4. CASE SeriesOf(o) = s
        BY <1>5, <1>7, <4>2, <4>4, Zenon
      <4>5. CASE SeriesOf(o) # s
        <5>1. cache'[SeriesOf(o)] = cache[SeriesOf(o)]
          BY <1>7, <4>3, <4>5, Zenon
        <5> QED
          BY <1>5, <4>2, <5>1, Zenon
      <4> QED
        BY <4>4, <4>5, Zenon
    <3> QED
      BY <3>1, <3>2, Zenon
  <2>3. \A t \in Keys' : cache'[t].off < pos'
    <3> SUFFICES ASSUME NEW t \in Keys' PROVE cache'[t].off < pos'
      OBVIOUS
    <3>1. CASE t = s
      BY <1>5, <1>7, <3>1, Zenon
    <3>2. CASE t # s
      <4>1. t \in Keys /\ cache'[t].off = cache[t].off /\ cache[t].off \in Nat
        BY <1>4, <1>7, <3>2, Zenon DEF Keys, Items
      <4>2. cache[t].off < pos
        BY <1>1, <1>2, <4>1, Zenon DEF CacheIsBehind
      <4> QED
        BY <1>2, <1>4, <4>1, <4>2
    <3> QED
      BY <3>1, <3>2, Zenon
  <2> QED
    BY <1>2, <2>1, <2>2, <2>3, Zenon DEF CacheIsBehind, Settled, Holds
<1> QED
  BY <1>2, <1>5, <1>8, <1>9, <1>10, Zenon DEF KafkaInv, DownIsEmpty

\* An expired series leaves the cache for the channel.
LEMMA ExpiryKeepsInv == KafkaInv /\ Grows /\ (\E s \in Series : pushExpired(s)) => KafkaInv'
<1> SUFFICES ASSUME KafkaInv, Grows, NEW s \in Series, pushExpired(s) PROVE KafkaInv'
  OBVIOUS
<1>1. TypeOK /\ CacheIsBehind
  BY Zenon DEF KafkaInv
<1>2. /\ run = "up" /\ run' = "up" /\ s \in Keys
      /\ overflow' = Append(overflow, cache[s]) /\ cache' = [cache EXCEPT ![s] = Empty(s)]
      /\ UNCHANGED <<topic, oldest, stored, commits, local, pos, marks, notify, markChan, orphans, dropped>>
  BY Zenon DEF pushExpired, kafka, disk, history
<1>3. /\ OverflowInOrder' /\ overflow' \in Seq(Items)
      /\ \A o : Holds(overflow', o) <=> Holds(overflow, o) \/ o \in cache[s].pts
  BY <1>2, OverflowAppend, Zenon
<1>4. Empty(s) \in Items /\ Empty(s).s = s /\ Empty(s).pts = {} /\ Empty(s).off = 0
  BY Zenon DEF Empty, Item, Items
<1>5. /\ cache \in [Series -> Items] /\ cache' \in [Series -> Items] /\ cache'[s] = Empty(s)
      /\ \A t \in Series : t # s => cache'[t] = cache[t]
  BY <1>1, <1>2, <1>4, Zenon DEF TypeOK
<1>6. TypeOK'
  <2>1. \A t \in Series : cache'[t].s = t /\ (cache'[t].pts = {} => cache'[t].off = 0)
    BY <1>1, <1>4, <1>5, Zenon DEF TypeOK
  <2> QED
    BY <1>1, <1>2, <1>3, <1>5, <2>1, Zenon DEF TypeOK
<1>7. KnownMarksAreSafe'
  BY <1>2, MarksKept, Zenon
<1>8. CacheIsBehind'
  <2>1. Offsets' = Offsets /\ Settled' = Settled /\ \A o : SeriesOf(o)' = SeriesOf(o)
    BY <1>2, Zenon DEF Offsets, Newest, SeriesOf, Settled, Lost
  <2>2. ASSUME NEW o \in Offsets, o < pos, o \notin Settled
        PROVE  o \in cache'[SeriesOf(o)].pts \/ Holds(overflow', o)
    <3>1. o \in cache[SeriesOf(o)].pts \/ Holds(overflow, o)
      BY <1>1, <1>2, <2>2, Zenon DEF CacheIsBehind, Settled, Holds
    <3>2. SeriesOf(o) \in Series
      BY <1>1, TopicType, Zenon
    <3>3. CASE SeriesOf(o) = s
      BY <1>3, <3>1, <3>3, Zenon
    <3>4. CASE SeriesOf(o) # s
      <4>1. cache'[SeriesOf(o)] = cache[SeriesOf(o)]
        BY <1>5, <3>2, <3>4, Zenon
      <4> QED
        BY <1>3, <3>1, <4>1, Zenon
    <3> QED
      BY <3>3, <3>4, Zenon
  <2>3. \A t \in Keys' : cache'[t].off < pos'
    <3> SUFFICES ASSUME NEW t \in Keys' PROVE cache'[t].off < pos'
      OBVIOUS
    <3>1. t # s /\ t \in Series /\ cache'[t] = cache[t] /\ t \in Keys
      BY <1>4, <1>5, Zenon DEF Keys
    <3> QED
      BY <1>1, <1>2, <3>1, Zenon DEF CacheIsBehind
  <2> QED
    BY <1>2, <2>1, <2>2, <2>3, Zenon DEF CacheIsBehind, Settled, Holds
<1> QED
  BY <1>2, <1>3, <1>6, <1>7, <1>8, Zenon DEF KafkaInv, DownIsEmpty

\* The writer stores the first series of the channel, whose report is then safe,
\* or gives it up.
LEMMA WritesKeepInv == KafkaInv /\ Grows /\ Writes => KafkaInv'
<1> SUFFICES ASSUME KafkaInv, Grows, Writes PROVE KafkaInv'
  OBVIOUS
<1>h. PICK h : h = Head(overflow)
  OBVIOUS
<1>n. PICK n : n = [from |-> "overflow", s |-> h.s, off |-> h.off]
  OBVIOUS
<1>1. TypeOK /\ KnownMarksAreSafe /\ OverflowInOrder
  BY Zenon DEF KafkaInv
<1>2. /\ run # "down" /\ overflow # <<>> /\ overflow' = Tail(overflow) /\ h.pts \subseteq Settled'
      /\ UNCHANGED <<topic, oldest, commits, local, run, pos, marks, cache, markChan>>
      /\ UNCHANGED notify \/ (notify' = notify \cup {n} /\ InsertSeries)
  BY <1>h, <1>n, Zenon DEF Writes, InsertSeries, InsertGivesUp, kafka, disk, history, Settled, Lost
<1>3. /\ OverflowInOrder' /\ overflow' \in Seq(Items)
      /\ \A o : Holds(overflow, o) => o \in Settled' \/ Holds(overflow', o)
  BY <1>h, <1>2, OverflowTail, Zenon
<1>4. h \in Items /\ h = overflow[1] /\ 1 \in 1..Len(overflow)
  <2>1. overflow \in Seq(Items) /\ overflow # <<>>
    BY <1>1, <1>2, Zenon DEF TypeOK
  <2>2. Len(overflow) \in Nat \ {0}
    BY <2>1
  <2> QED
    BY <1>h, <2>1, <2>2
<1>5. n \in [from : {"overflow", "purge"}, s : Series, off : Nat]
  BY <1>n, <1>4, Zenon DEF Items
<1>6. MarkIsSafe(n)'
  <2>1. ASSUME NEW o \in Offsets', o <= h.off, SeriesOf(o)' = h.s PROVE o \in Settled'
    <3>1. o \in Offsets /\ SeriesOf(o) = h.s
      BY <1>2, <2>1, Zenon DEF Offsets, Newest, SeriesOf
    <3>2. o \in Settled \/ \E j \in 1..1 : o \in overflow[j].pts
      BY <1>1, <1>4, <2>1, <3>1, Zenon DEF OverflowInOrder, Settled
    <3>3. o \in Settled \/ o \in h.pts
      BY <1>4, <3>2
    <3> QED
      BY <1>2, <3>3, Zenon DEF Grows
  <2>2. n.off = h.off /\ n.s = h.s
    BY <1>n, Zenon
  <2> QED
    BY <2>1, <2>2, Zenon DEF MarkIsSafe, Settled
<1>7. TypeOK'
  BY <1>1, <1>2, <1>3, <1>5, Zenon DEF TypeOK
<1>8. KnownMarksAreSafe'
  <2>1. \A m : MarkIsSafe(m) => MarkIsSafe(m)'
    BY MarkStaysSafe, Zenon
  <2> QED
    BY <1>1, <1>2, <1>6, <2>1, Zenon DEF KnownMarksAreSafe, MarksAreSafe
<1>9. CacheIsBehind'
  BY <1>2, <1>3, CacheKept, Zenon
<1> QED
  BY <1>2, <1>3, <1>7, <1>8, <1>9, Zenon DEF KafkaInv, DownIsEmpty

\* Marks are copied: from a report to the commit topic and the channel of the
\* local database, and from there into it.
LEMMA MarkingKeepsInv ==
  KafkaInv /\ Grows /\ (processMarkWrote \/ \E n \in notify : onMessageWritten(n)) => KafkaInv'
<1> SUFFICES ASSUME KafkaInv, Grows PROVE (processMarkWrote \/ \E n \in notify : onMessageWritten(n)) => KafkaInv'
  OBVIOUS
<1>1. TypeOK /\ KnownMarksAreSafe /\ MarksAreSafe /\ DownIsEmpty
  BY Zenon DEF KafkaInv, KnownMarksAreSafe
<1>2. \A m : MarkIsSafe(m) => MarkIsSafe(m)'
  BY MarkStaysSafe, Zenon
<1>3. ASSUME NEW n \in notify, onMessageWritten(n) PROVE KafkaInv'
  <2>1. PICK mark : mark = [s |-> n.s, off |-> IF n.off = 0 THEN marks[n.s] ELSE n.off]
    OBVIOUS
  <2>2. /\ UNCHANGED <<topic, oldest, stored, local, run, pos, marks, cache, overflow>>
        /\ notify' = notify \ {n}
        /\ commits' = commits \/ commits' = Append(commits, mark)
        /\ markChan' = markChan \/ markChan' = Append(markChan, mark)
    BY <1>3, <2>1, Zenon DEF onMessageWritten, kafka
  <2>3. n.s \in Series /\ n.off \in Nat /\ marks[n.s] \in Nat
    BY <1>1, Zenon DEF TypeOK
  <2>4. mark \in Mark /\ MarkIsSafe(mark)
    <3>1. CASE n.off = 0
      <4>1. mark = [s |-> n.s, off |-> marks[n.s]]
        BY <2>1, <3>1, Zenon
      <4> QED
        BY <1>1, <2>3, <4>1, Zenon DEF KnownMarksAreSafe, Mark
    <3>2. CASE n.off # 0
      <4>1. mark.s = n.s /\ mark.off = n.off /\ MarkIsSafe(n)
        BY <1>1, <2>1, <3>2, Zenon DEF KnownMarksAreSafe
      <4>2. mark \in Mark
        BY <2>1, <2>3, <3>2, Zenon DEF Mark
      <4> QED
        BY <4>1, <4>2, Zenon DEF MarkIsSafe
    <3> QED
      BY <3>1, <3>2, Zenon
  <2>5. ASSUME NEW q \in Seq(Mark), \A i \in 1..Len(q) : MarkIsSafe(q[i]),
               NEW r, r = q \/ r = Append(q, mark)
        PROVE  r \in Seq(Mark) /\ \A i \in 1..Len(r) : MarkIsSafe(r[i])
    <3>1. CASE r = q
      BY <2>5, <3>1, Zenon
    <3>2. CASE r = Append(q, mark)
      <4>1. /\ r \in Seq(Mark) /\ Len(r) = Len(q) + 1 /\ Len(q) \in Nat
            /\ \A i \in 1..Len(q) : r[i] = q[i]
            /\ r[Len(q) + 1] = mark
        BY <2>4, <3>2
      <4>2. ASSUME NEW i \in 1..Len(r) PROVE MarkIsSafe(r[i])
        <5>1. CASE i \in 1..Len(q)
          BY <2>5, <4>1, <5>1, Zenon
        <5>2. CASE i = Len(q) + 1
          BY <2>4, <4>1, <5>2, Zenon
        <5> QED
          BY <4>1, <5>1, <5>2
      <4> QED
        BY <4>1, <4>2, Zenon
    <3> QED
      BY <2>5, <3>1, <3>2, Zenon
  <2>6. PICK c, d : c = commits' /\ d = markChan'
    OBVIOUS
  <2>7. /\ c \in Seq(Mark) /\ \A i \in 1..Len(c) : MarkIsSafe(c[i])
        /\ d \in Seq(Mark) /\ \A i \in 1..Len(d) : MarkIsSafe(d[i])
    BY <1>1, <2>2, <2>5, <2>6, Zenon DEF TypeOK, MarksAreSafe
  <2>8. TypeOK'
    BY <1>1, <2>2, <2>6, <2>7, Zenon DEF TypeOK
  <2>9. KnownMarksAreSafe'
    BY <1>1, <1>2, <2>2, <2>6, <2>7, Zenon DEF KnownMarksAreSafe, MarksAreSafe
  <2>10. OverflowInOrder' /\ CacheIsBehind'
    BY <2>2, OverflowKept, CacheKept, Zenon DEF Holds
  <2>11. DownIsEmpty'
    BY <1>1, <1>3, <2>2, Zenon DEF DownIsEmpty
  <2> QED
    BY <2>8, <2>9, <2>10, <2>11, Zenon DEF KafkaInv
<1>4. CASE processMarkWrote
  <2>1. PICK m : m = Head(markChan)
    OBVIOUS
  <2>2. /\ UNCHANGED <<topic, oldest, stored, commits, run, pos, marks, cache, overflow, notify>>
        /\ markChan # <<>> /\ markChan' = Tail(markChan)
        /\ local' = [local EXCEPT ![m.s] = m.off]
    BY <1>4, <2>1, Zenon DEF processMarkWrote, kafka
  <2>3. /\ m \in Mark /\ m = markChan[1] /\ 1 \in 1..Len(markChan) /\ markChan' \in Seq(Mark)
        /\ Len(markChan) \in Nat /\ Len(markChan') = Len(markChan) - 1
        /\ \A i \in 1..(Len(markChan) - 1) : markChan'[i] = markChan[i + 1]
    <3>1. markChan \in Seq(Mark)
      BY <1>1, Zenon DEF TypeOK
    <3>2. Len(markChan) \in Nat \ {0}
      BY <2>2, <3>1
    <3> QED
      BY <2>1, <2>2, <3>1, <3>2
  <2>4. m.s \in Series /\ m.off \in Nat /\ MarkIsSafe(m)
    BY <1>1, <2>3, Zenon DEF Mark, MarksAreSafe
  <2>5. /\ local' \in [Series -> Nat] /\ local'[m.s] = m.off
        /\ \A s \in Series : s # m.s => local'[s] = local[s]
    BY <1>1, <2>2, <2>4, Zenon DEF TypeOK
  <2>6. TypeOK'
    BY <1>1, <2>2, <2>3, <2>5, Zenon DEF TypeOK
  <2>7. PICK l : l = local'
    OBVIOUS
  <2>8. ASSUME NEW s \in Series PROVE MarkIsSafe([s |-> s, off |-> l[s]])
    <3>1. CASE s = m.s
      BY <2>4, <2>5, <2>7, <3>1, Zenon DEF MarkIsSafe
    <3>2. CASE s # m.s
      BY <1>1, <2>5, <2>7, <3>2, Zenon DEF MarksAreSafe
    <3> QED
      BY <3>1, <3>2, Zenon
  <2>9. PICK d : d = markChan'
    OBVIOUS
  <2>10. \A i \in 1..Len(d) : MarkIsSafe(d[i])
    <3> SUFFICES ASSUME NEW i \in 1..Len(d) PROVE MarkIsSafe(d[i])
      OBVIOUS
    <3>1. d[i] = markChan[i + 1] /\ i + 1 \in 1..Len(markChan)
      BY <2>3, <2>9
    <3> QED
      BY <1>1, <3>1, Zenon DEF MarksAreSafe
  <2>11. KnownMarksAreSafe'
    BY <1>1, <1>2, <2>2, <2>7, <2>8, <2>9, <2>10, Zenon DEF KnownMarksAreSafe, MarksAreSafe
  <2>12. OverflowInOrder' /\ CacheIsBehind'
    BY <2>2, OverflowKept, CacheKept, Zenon DEF Holds
  <2>13. DownIsEmpty'
    BY <1>1, <2>2, Zenon DEF DownIsEmpty
  <2> QED
    BY <2>6, <2>11, <2>12, <2>13, Zenon DEF KafkaInv
<1> QED
  BY <1>3, <1>4, Zenon

\* Stopping: the cache is emptied without a mark, beside a writer that goes on
\* with the channel.
LEMMA StoppingKeepsInv == KafkaInv /\ Grows /\ (Retention \/ Stop \/ Stops) => KafkaInv'
<1> SUFFICES ASSUME KafkaInv, Grows PROVE (Retention \/ Stop \/ Stops) => KafkaInv'
  OBVIOUS
<1>1. TypeOK /\ KnownMarksAreSafe /\ DownIsEmpty
  BY Zenon DEF KafkaInv
<1>2. CASE Retention \/ Stop \/ BeginPurge
  <2>1. /\ UNCHANGED <<topic, stored, commits, local, pos, marks, cache, overflow, notify, markChan>>
        /\ oldest' \in Nat /\ run' \in {"down", "up", "closing", "purging"}
        /\ run' \in {run, "closing", "purging"}
    BY <1>1, <1>2 DEF Retention, Stop, BeginPurge, TypeOK, kafka, disk, memory, history
  <2>2. TypeOK'
    BY <1>1, <2>1, Zenon DEF TypeOK
  <2>3. KnownMarksAreSafe' /\ OverflowInOrder' /\ CacheIsBehind'
    BY <2>1, MarksKept, OverflowKept, CacheKept, Zenon DEF Holds
  <2> QED
    BY <1>1, <2>1, <2>2, <2>3, Zenon DEF KafkaInv, DownIsEmpty
<1>3. CASE Exit
  BY <1>3, ForgetKeepsInv, Zenon DEF Exit, history
<1>4. CASE LateAdd \/ \E s \in Series : Purge(s) \/ PurgeGivesUp(s)
  <2>1. /\ run' = "purging"
        /\ UNCHANGED <<topic, oldest, commits, local, pos, marks, overflow, markChan>>
    BY <1>4, Zenon DEF LateAdd, Purge, PurgeGivesUp, kafka, disk, history
  <2>2. PICK s \in Series, q \in SUBSET Int, f \in Nat :
          cache' = [cache EXCEPT ![s] = Item(s, q, f)] /\ (q = {} => f = 0)
    <3>1. CASE LateAdd
      <4>1. pos \in Nat /\ pos \in Offsets
        BY <1>1, <3>1, Zenon DEF LateAdd, TypeOK
      <4>2. SeriesOf(pos) \in Series
        BY <1>1, <4>1, TopicType, Zenon
      <4>3. cache[SeriesOf(pos)].pts \in SUBSET Int
        BY <1>1, <4>2, Zenon DEF TypeOK, Items
      <4> DEFINE kept == IF Cardinality(cache[SeriesOf(pos)].pts) > MaxPoints THEN {} ELSE cache[SeriesOf(pos)].pts
      <4>4. cache' = [cache EXCEPT ![SeriesOf(pos)] = Item(SeriesOf(pos), kept \cup {pos}, pos)]
        BY <3>1, Zenon DEF LateAdd
      <4>5. kept \cup {pos} \in SUBSET Int /\ kept \cup {pos} # {}
        BY <4>1, <4>3
      <4> HIDE DEF kept
      <4> QED
        BY <4>1, <4>2, <4>4, <4>5, Zenon
    <3>2. CASE \E t \in Series : Purge(t) \/ PurgeGivesUp(t)
      <4>1. PICK t \in Series : cache' = [cache EXCEPT ![t] = Item(t, {}, 0)]
        BY <3>2, Zenon DEF Purge, PurgeGivesUp, Empty
      <4>2. {} \in SUBSET Int /\ 0 \in Nat
        OBVIOUS
      <4> QED
        BY <4>1, <4>2, Zenon
    <3> QED
      BY <1>4, <3>1, <3>2, Zenon
  <2>3. PICK new : /\ notify' \subseteq notify \cup {new}
                   /\ new \in [from : {"overflow", "purge"}, s : Series, off : Nat] /\ new.off = 0
    <3>1. CASE LateAdd \/ \E t \in Series : PurgeGivesUp(t)
      <4>1. notify' = notify
        BY <3>1, Zenon DEF LateAdd, PurgeGivesUp
      <4>2. PICK new : new = [from |-> "purge", s |-> s, off |-> 0]
        OBVIOUS
      <4>3. new \in [from : {"overflow", "purge"}, s : Series, off : Nat] /\ new.off = 0
        BY <4>2, Zenon
      <4> QED
        BY <4>1, <4>3, Zenon
    <3>2. CASE \E t \in Series : Purge(t)
      <4>1. PICK t \in Series : notify' = notify \cup {[from |-> "purge", s |-> t, off |-> 0]}
        BY <3>2, Zenon DEF Purge
      <4>2. PICK new : new = [from |-> "purge", s |-> t, off |-> 0]
        OBVIOUS
      <4>3. new \in [from : {"overflow", "purge"}, s : Series, off : Nat] /\ new.off = 0
        BY <4>2, Zenon
      <4> QED
        BY <4>1, <4>2, <4>3, Zenon
    <3> QED
      BY <1>4, <3>1, <3>2, Zenon
  <2>4. Item(s, q, f) \in Items /\ Item(s, q, f).s = s /\ Item(s, q, f).pts = q /\ Item(s, q, f).off = f
    BY Zenon DEF Item, Items
  <2>5. /\ cache' \in [Series -> Items]
        /\ \A t \in Series : cache'[t].s = t /\ (cache'[t].pts = {} => cache'[t].off = 0)
    BY <1>1, <2>2, <2>4, Zenon DEF TypeOK
  <2>6. TypeOK'
    BY <1>1, <2>1, <2>3, <2>5, Zenon DEF TypeOK
  <2>7. KnownMarksAreSafe'
    <3>1. \A m : MarkIsSafe(m) => MarkIsSafe(m)'
      BY MarkStaysSafe, Zenon
    <3>2. MarkIsSafe(new)'
      BY <2>3 DEF MarkIsSafe
    <3> QED
      BY <1>1, <2>1, <2>3, <3>1, <3>2, Zenon DEF KnownMarksAreSafe, MarksAreSafe
  <2>8. OverflowInOrder'
    BY <2>1, OverflowKept, Zenon
  <2> QED
    BY <2>1, <2>6, <2>7, <2>8, Zenon DEF KafkaInv, DownIsEmpty, CacheIsBehind
<1> QED
  BY <1>2, <1>3, <1>4, Zenon DEF Stops

-----------------------------------------------------------------------------
\* The marks of the injector are safe, and its consumer behind nothing it has
\* not accounted for, whatever happens in whatever order: InsertSeries reports
\* a series after the ones that left the cache before it.
THEOREM InjectorIsSafe == Spec => []KafkaInv
<1>1. KafkaInv /\ [Next]_vars => KafkaInv'
  <2> SUFFICES ASSUME KafkaInv, [Next]_vars PROVE KafkaInv'
    OBVIOUS
  <2>0. Grows
    BY NextGrows, Zenon
  <2>1. CASE Starts
    BY <2>0, <2>1, StartKeepsInv, Zenon
  <2>2. CASE Consumes
    BY <2>0, <2>2, PassingKeepsInv, ConsumeKeepsInv, Zenon DEF Consumes
  <2>3. CASE Writes
    BY <2>0, <2>3, WritesKeepInv, Zenon
  <2>4. CASE Retention \/ Stop \/ Stops
    BY <2>0, <2>4, StoppingKeepsInv, Zenon
  <2>5. CASE \E s \in Series : pushExpired(s)
    BY <2>0, <2>5, ExpiryKeepsInv, Zenon
  <2>6. CASE processMarkWrote \/ \E n \in notify : onMessageWritten(n)
    BY <2>0, <2>6, MarkingKeepsInv, Zenon
  <2>7. CASE Crash \/ ExpirePanics
    BY <2>7, ForgetKeepsInv, Zenon DEF Crash, ExpirePanics, history
  <2>8. CASE UNCHANGED vars
    <3>1. UNCHANGED <<topic, oldest, stored, commits, local, run, pos, marks, cache, overflow, notify, markChan,
                      orphans, dropped>>
      BY <2>8, Zenon DEF vars
    <3>2. TypeOK' /\ DownIsEmpty'
      BY <3>1, Zenon DEF KafkaInv, TypeOK, DownIsEmpty
    <3> QED
      BY <2>0, <3>1, <3>2, MarksKept, OverflowKept, CacheKept, Zenon DEF KafkaInv, Holds
  <2> QED
    BY <2>1, <2>2, <2>3, <2>4, <2>5, <2>6, <2>7, <2>8, Zenon DEF Next
<1> QED
  BY <1>1, KafkaInvInit, PTL DEF Spec

\* No mark onMessageWritten emits promises a point that neither reached
\* cassandra nor is known to be lost.
THEOREM NoMarkOvertakesAPoint == Spec => []MarksAreSafe
<1>1. KafkaInv => MarksAreSafe
  BY Zenon DEF KafkaInv, KnownMarksAreSafe
<1> QED
  BY <1>1, InjectorIsSafe, PTL

\* startConsume resumes early enough: a point the consumer is past is stored, in
\* memory, or lost in a way that is recorded.
THEOREM NoPointIsForgotten == Spec => []NothingForgotten
<1>1. KafkaInv => NothingForgotten
  <2> SUFFICES ASSUME KafkaInv, run = "up", NEW o \in Offsets, o < pos
               PROVE  o \in stored \cup InMemory \cup Lost
    BY Zenon DEF NothingForgotten
  <2>1. TypeOK /\ CacheIsBehind
    BY Zenon DEF KafkaInv
  <2>2. SeriesOf(o) \in Series
    BY <2>1, TopicType, Zenon
  <2>3. \/ o \in stored \cup Lost \/ o \in cache[SeriesOf(o)].pts
        \/ \E j \in 1..Len(overflow) : o \in overflow[j].pts
    BY <2>1, Zenon DEF CacheIsBehind
  <2>4. o \in cache[SeriesOf(o)].pts => o \in InMemory
    BY <2>2, Zenon DEF InMemory
  <2>5. ASSUME NEW j \in 1..Len(overflow), o \in overflow[j].pts PROVE o \in InMemory
    <3>1. overflow[j].pts \in {overflow[i].pts : i \in 1..Len(overflow)}
      OBVIOUS
    <3>2. o \in PointsOf(overflow)
      BY <2>5, <3>1, Zenon DEF PointsOf
    <3> QED
      BY <3>2, Zenon DEF InMemory
  <2> QED
    BY <2>3, <2>4, <2>5, Zenon
<1> QED
  BY <1>1, InjectorIsSafe, PTL
=============================================================================
