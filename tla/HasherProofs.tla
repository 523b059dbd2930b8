---------------------------- MODULE HasherProofs ----------------------------
(***************************************************************************)
(* What is proved of ConstHasher for any number of backends, keys, lookups *)
(* and operators, whatever hash keys these give, and for every capacity of *)
(* the cache: the ring, the pool and the two maps agree, what is cached is *)
(* fresh unless a late lookup cached it, and the cache keeps within its    *)
(* capacity.                                                               *)
(***************************************************************************)
EXTENDS Hasher, FiniteSetTheorems, SequenceTheorems, WellFoundedInduction, TLAPS

-----------------------------------------------------------------------------
(* The ring.                                                                *)

\* A set of places has a first one.
LEMMA FirstPlace ==
    ASSUME NEW T, T # {}, T \subseteq Nat
    PROVE  \E j \in T : \A i \in T : j <= i
  <1> DEFINE R == OpToRel(<, Nat)
  <1>1. R = {ss \in Nat \X Nat : ss[1] < ss[2]}
    BY Zenon DEF OpToRel
  <1>2. IsWellFoundedOn(R, Nat)
    BY NatLessThanWellFounded, Zenon
  <1> HIDE DEF R
  <1>3. PICK j \in T : \A i \in T : ~(<<i, j>> \in R)
    BY <1>2, WFMin, Zenon
  <1>4. ASSUME NEW i \in T PROVE j <= i
    <2>1. i \in Nat /\ j \in Nat /\ ~(<<i, j>> \in R)
      BY <1>3, Zenon
    <2>2. ~(i < j)
      BY <1>1, <2>1, Zenon
    <2> QED
      BY <2>1, <2>2
  <1> QED
    BY <1>3, <1>4, Zenon

\* Any set of members of the ring is finite.
LEMMA RingIsFinite ==
    ASSUME ring \subseteq Hashes
    PROVE  /\ IsFiniteSet(ring) /\ Cardinality(ring) \in Nat
           /\ \A S \in SUBSET ring : IsFiniteSet(S) /\ Cardinality(S) \in Nat
  <1>1. IsFiniteSet(Hashes)
    BY HasherAssumption, FS_AddElement, Zenon DEF Hashes
  <1>2. IsFiniteSet(ring)
    BY <1>1, FS_Subset, Zenon
  <1> QED
    BY <1>2, FS_Subset, FS_CardinalityType, Zenon

\* A place adds at most one member to those met, and only its own.
LEMMA MetSteps ==
    ASSUME ring \subseteq Hashes, NEW k \in Keys
    PROVE  /\ \A j \in Nat : Met(k, j) \in Nat
           /\ Met(k, 0) = 0
           /\ Met(k, Len(Order[k])) = Cardinality(ring)
           /\ \A j \in DOMAIN Order[k] :
                /\ Met(k, j) <= Met(k, j - 1) + 1
                /\ Order[k][j] \notin ring => Met(k, j) = Met(k, j - 1)
  <1> DEFINE O == Order[k]
             Seen(j) == {O[i] : i \in 1..j} \cap ring
  <1>1. \A j : Met(k, j) = Cardinality(Seen(j))
    BY Zenon DEF Met
  <1>2. O \in Seq(Hashes) /\ Hashes = Range(O)
    BY HasherAssumption, Zenon
  <1>3. DOMAIN O = 1..Len(O) /\ Len(O) \in Nat
    BY <1>2, LenProperties, Zenon
  <1>4. \A j : IsFiniteSet(Seen(j)) /\ Cardinality(Seen(j)) \in Nat
    BY RingIsFinite, Zenon
  <1>5. Seen(0) = {}
    OBVIOUS
  <1>6. Seen(Len(O)) = ring
    BY <1>2, <1>3, Zenon DEF Range
  <1>7. ASSUME NEW j \in 1..Len(O)
        PROVE  /\ Met(k, j) <= Met(k, j - 1) + 1
               /\ O[j] \notin ring => Met(k, j) = Met(k, j - 1)
    <2>1. Seen(j) = Seen(j - 1) \cup ({O[j]} \cap ring)
      <3>1. 1..j = 1..(j - 1) \cup {j}
        BY <1>3
      <3> QED
        BY <3>1, Zenon
    <2>0. /\ Met(k, j) = Cardinality(Seen(j)) /\ Met(k, j - 1) = Cardinality(Seen(j - 1))
          /\ Cardinality(Seen(j - 1)) \in Nat
      BY <1>1, <1>4, Zenon
    <2>2. CASE O[j] \notin ring
      <3>1. Seen(j) = Seen(j - 1)
        BY <2>1, <2>2, Zenon
      <3> HIDE DEF Seen
      <3> QED
        BY <2>0, <3>1
    <2>3. CASE O[j] \in ring
      <3>1. Seen(j) = Seen(j - 1) \cup {O[j]}
        BY <2>1, <2>3, Zenon
      <3>2. \/ Cardinality(Seen(j)) = Cardinality(Seen(j - 1))
            \/ Cardinality(Seen(j)) = Cardinality(Seen(j - 1)) + 1
        BY <1>4, <3>1, FS_AddElement, Zenon
      <3> HIDE DEF Seen
      <3> QED
        BY <2>0, <2>3, <3>2
    <2> QED
      BY <2>2, <2>3, Zenon
  <1>8. Met(k, 0) = 0 /\ Met(k, Len(O)) = Cardinality(ring)
    BY <1>1, <1>5, <1>6, FS_EmptySet, Zenon
  <1> QED
    BY <1>1, <1>3, <1>4, <1>7, <1>8, Zenon

\* The walk of GetN finds a member for each place of its result.
LEMMA MemberFound ==
    ASSUME ring \subseteq Hashes, NEW k \in Keys, NEW n \in 1..Cardinality(ring)
    PROVE  LET j == CHOOSE j \in DOMAIN Order[k] : Met(k, j) = n /\ Met(k, j - 1) = n - 1
           IN  Order[k][j] \in ring
  <1> DEFINE O == Order[k]
             P(j) == Met(k, j) = n /\ Met(k, j - 1) = n - 1
  <1>1. DOMAIN O = 1..Len(O) /\ Len(O) \in Nat
    BY HasherAssumption, LenProperties, Zenon
  <1>2. Cardinality(ring) \in Nat
    BY RingIsFinite, Zenon
  <1>3. \E j \in DOMAIN O : P(j)
    <2> DEFINE T == {j \in 0..Len(O) : Met(k, j) >= n}
    <2>0. Met(k, 0) = 0 /\ Met(k, Len(O)) = Cardinality(ring)
      BY MetSteps, Zenon
    <2>1. Len(O) \in T
      BY <1>1, <1>2, <2>0
    <2>2. PICK j \in T : \A i \in T : j <= i
      <3>1. T \subseteq Nat /\ T # {}
        BY <1>1, <2>1
      <3> HIDE DEF T
      <3> QED
        BY <3>1, FirstPlace, Zenon
    <2>3. j # 0
      BY <1>2, <2>0, <2>2
    <2>4. j \in 1..Len(O) /\ j - 1 \in 0..Len(O) /\ j - 1 \in Nat
      BY <1>1, <2>2, <2>3
    <2>5. j - 1 \notin T
      BY <2>2, <2>4
    <2>6. Met(k, j) \in Nat /\ Met(k, j - 1) \in Nat /\ Met(k, j) <= Met(k, j - 1) + 1
      <3>1. j \in Nat /\ j - 1 \in Nat /\ j \in DOMAIN Order[k]
        BY <1>1, <2>4
      <3> QED
        BY <3>1, MetSteps, Zenon
    <2>7. Met(k, j) >= n /\ ~(Met(k, j - 1) >= n)
      BY <2>2, <2>4, <2>5, Zenon
    <2> QED
      BY <1>1, <1>2, <2>4, <2>6, <2>7
  <1> DEFINE j == CHOOSE j \in DOMAIN O : P(j)
  <1>4. j \in DOMAIN O /\ P(j)
    BY <1>3, Zenon
  <1>5. Met(k, j) # Met(k, j - 1)
    BY <1>2, <1>4
  <1>6. O[j] \in ring
    BY <1>4, <1>5, MetSteps, Zenon
  <1> QED
    BY <1>6, Zenon

\* GetN returns as many members as it was asked for, or all there are.
LEMMA RouteType ==
    ASSUME ring \subseteq Hashes, num \in Nat, count \in Int, NEW k \in Keys
    PROVE  /\ Routed \in Nat
           /\ Route(k) \in [1..Routed -> ring]
           /\ Route(k) \in Seq(Hashes) /\ Len(Route(k)) = Routed
  <1>1. Cardinality(ring) \in Nat /\ (ring # {} => Cardinality(ring) # 0)
    BY RingIsFinite, FS_EmptySet, Zenon
  <1>2. Routed \in Nat /\ 1..Routed \subseteq 1..Cardinality(ring)
    BY <1>1 DEF Routed, Enough, Wanted
  <1>3. Route(k) \in [1..Routed -> ring]
    BY <1>2, MemberFound, Zenon DEF Route
  <1> QED
    BY <1>2, <1>3

-----------------------------------------------------------------------------
(* The list of the cache.                                                   *)

Entry == [key : Keys, val : Seq(Backends)]
Unique(list) == \A i, j \in DOMAIN list : list[i].key = list[j].key => i = j

\* Removing one element keeps the others in their order.
LEMMA RemoveType ==
    ASSUME NEW S, NEW list \in Seq(S), NEW m \in 1..Len(list)
    PROVE  /\ Remove(list, m) \in Seq(S) /\ Len(Remove(list, m)) = Len(list) - 1
           /\ \A i \in 1..(Len(list) - 1) :
                Remove(list, m)[i] = IF i < m THEN list[i] ELSE list[i + 1]
  <1> DEFINE a == SubSeq(list, 1, m - 1)
             b == SubSeq(list, m + 1, Len(list))
  <1>1. Len(list) \in Nat /\ \A i \in 1..Len(list) : list[i] \in S
    BY LenProperties, ElementOfSeq, Zenon
  <1>2. /\ a \in Seq(S) /\ Len(a) = m - 1
        /\ \A i \in 1..(m - 1) : a[i] = list[i]
    <2>1. m - 1 \in Int /\ \A i \in 1..(m - 1) : list[i] \in S
      BY <1>1
    <2> QED
      BY <1>1, <2>1, SubSeqProperties
  <1>3. /\ b \in Seq(S) /\ Len(b) = Len(list) - m
        /\ \A i \in 1..(Len(list) - m) : b[i] = list[m + i]
    <2>1. m + 1 \in Int /\ Len(list) \in Int /\ \A i \in (m + 1)..Len(list) : list[i] \in S
      BY <1>1
    <2>2. /\ b \in Seq(S)
          /\ Len(b) = IF m + 1 <= Len(list) THEN Len(list) - (m + 1) + 1 ELSE 0
          /\ \A i \in 1..(Len(list) - (m + 1) + 1) : b[i] = list[(m + 1) + i - 1]
      BY <2>1, SubSeqProperties
    <2>3. Len(b) = Len(list) - m
      BY <1>1, <2>2
    <2> HIDE DEF b
    <2>4. ASSUME NEW i \in 1..(Len(list) - m) PROVE b[i] = list[m + i]
      <3>1. i \in 1..(Len(list) - (m + 1) + 1) /\ (m + 1) + i - 1 = m + i
        BY <1>1
      <3> QED
        BY <2>2, <3>1, Zenon
    <2> QED
      BY <2>2, <2>3, <2>4, Zenon
  <1>4. Remove(list, m) = a \o b
    BY Zenon DEF Remove
  <1> HIDE DEF a, b
  <1>5. /\ a \o b \in Seq(S) /\ Len(a \o b) = Len(list) - 1
        /\ \A i \in 1..(Len(list) - 1) : (a \o b)[i] = IF i <= m - 1 THEN a[i] ELSE b[i - (m - 1)]
    BY <1>1, <1>2, <1>3, ConcatProperties
  <1>6. ASSUME NEW i \in 1..(Len(list) - 1)
        PROVE  (a \o b)[i] = IF i < m THEN list[i] ELSE list[i + 1]
    <2>1. CASE i < m
      BY <1>1, <1>2, <1>5, <2>1
    <2>2. CASE ~(i < m)
      <3>1. i - (m - 1) \in 1..(Len(list) - m) /\ m + (i - (m - 1)) = i + 1
        BY <1>1, <2>2
      <3> QED
        BY <1>1, <1>3, <1>5, <2>2, <3>1
    <2> QED
      BY <2>1, <2>2, Zenon
  <1> QED
    BY <1>4, <1>5, <1>6, Zenon

\* Taking an element off the list takes it out of the set of elements.
LEMMA RemoveOne ==
    ASSUME NEW list \in Seq(Entry), Unique(list), NEW m \in 1..Len(list)
    PROVE  /\ Remove(list, m) \in Seq(Entry) /\ Unique(Remove(list, m))
           /\ Range(Remove(list, m)) = Range(list) \ {list[m]}
  <1>0. DOMAIN list = 1..Len(list) /\ Len(list) \in Nat
    BY LenProperties, Zenon
  <1> DEFINE w == Remove(list, m)
             n == Len(list)
  <1>1. m \in 1..n
    OBVIOUS
  <1>3. /\ w \in Seq(Entry) /\ Len(w) = n - 1
        /\ \A i \in 1..(n - 1) : w[i] = IF i < m THEN list[i] ELSE list[i + 1]
    BY RemoveType, Zenon
  <1>4. DOMAIN w = 1..(n - 1)
    BY <1>3, LenProperties, Zenon
  <1> HIDE DEF w, n
  <1>5. \A i \in 1..(n - 1) : \E j \in 1..n : j # m /\ w[i] = list[j] /\ (j = i \/ j = i + 1)
    <2> TAKE i \in 1..(n - 1)
    <2>1. CASE i < m
      BY <1>0, <1>1, <1>3, <2>1 DEF n
    <2>2. CASE ~(i < m)
      <3>1. i + 1 \in 1..n /\ i + 1 # m
        BY <1>0, <1>1, <2>2 DEF n
      <3> QED
        BY <1>3, <2>2, <3>1, Zenon
    <2> QED
      BY <2>1, <2>2, Zenon
  <1>6. \A j \in 1..n : j # m => \E i \in 1..(n - 1) : w[i] = list[j]
    <2> TAKE j \in 1..n
    <2> HAVE j # m
    <2>1. CASE j < m
      BY <1>0, <1>1, <1>3, <2>1 DEF n
    <2>2. CASE j > m
      <3>1. j - 1 \in 1..(n - 1) /\ ~(j - 1 < m) /\ (j - 1) + 1 = j
        BY <1>0, <1>1, <2>2 DEF n
      <3> QED
        BY <1>3, <3>1, Zenon
    <2> QED
      BY <1>0, <1>1, <2>1, <2>2 DEF n
  <1>7. Unique(w)
    <2> SUFFICES ASSUME NEW i \in 1..(n - 1), NEW j \in 1..(n - 1), w[i].key = w[j].key
                 PROVE  i = j
      BY <1>4, Zenon DEF Unique
    <2>1. CASE i < m /\ j < m
      <3>1. i \in 1..n /\ j \in 1..n /\ w[i] = list[i] /\ w[j] = list[j]
        BY <1>0, <1>3, <2>1 DEF n
      <3> QED
        BY <1>0, <3>1 DEF Unique, n
    <2>2. CASE ~(i < m) /\ ~(j < m)
      <3>1. i + 1 \in 1..n /\ j + 1 \in 1..n /\ w[i] = list[i + 1] /\ w[j] = list[j + 1]
        BY <1>0, <1>3, <2>2 DEF n
      <3>2. i + 1 = j + 1
        BY <1>0, <3>1, Zenon DEF Unique, n
      <3> QED
        BY <1>0, <3>2 DEF n
    <2>3. CASE i < m /\ ~(j < m)
      <3>1. i \in 1..n /\ j + 1 \in 1..n /\ w[i] = list[i] /\ w[j] = list[j + 1]
        BY <1>0, <1>3, <2>3 DEF n
      <3>2. i = j + 1
        BY <1>0, <3>1, Zenon DEF Unique, n
      <3> QED
        BY <1>0, <1>1, <2>3, <3>2 DEF n
    <2>4. CASE ~(i < m) /\ j < m
      <3>1. j \in 1..n /\ i + 1 \in 1..n /\ w[j] = list[j] /\ w[i] = list[i + 1]
        BY <1>0, <1>3, <2>4 DEF n
      <3>2. j = i + 1
        BY <1>0, <3>1, Zenon DEF Unique, n
      <3> QED
        BY <1>0, <1>1, <2>4, <3>2 DEF n
    <2> QED
      BY <2>1, <2>2, <2>3, <2>4, Zenon
  <1>8. Range(w) = Range(list) \ {list[m]}
    <2>1. ASSUME NEW i \in 1..(n - 1) PROVE w[i] \in Range(list) /\ w[i] # list[m]
      <3>1. PICK j \in 1..n : j # m /\ w[i] = list[j]
        BY <1>5, Zenon
      <3> QED
        BY <1>0, <1>1, <3>1, Zenon DEF Range, Unique, n
    <2>2. ASSUME NEW j \in 1..n, list[j] # list[m] PROVE list[j] \in Range(w)
      BY <1>1, <1>4, <1>6, <2>2, Zenon DEF Range
    <2> QED
      BY <1>0, <1>4, <2>1, <2>2, Zenon DEF Range, n
  <1> QED
    BY <1>3, <1>7, <1>8, Zenon DEF w

\* The list without the element of a key has all the other elements, and none
\* of the key, if no key has two.
LEMMA WithoutType ==
    ASSUME cache \in Seq(Entry), Unique(cache), NEW k
    PROVE  /\ Without(k) \in Seq(Entry) /\ Unique(Without(k))
           /\ Range(Without(k)) = {e \in Range(cache) : e.key # k}
  <1>1. CASE Entries(k) = {}
    BY <1>1, Zenon DEF Without, Entries, Range
  <1>2. CASE Entries(k) # {}
    <2> DEFINE m == element(k)
    <2>1. m \in DOMAIN cache /\ m \in 1..Len(cache) /\ cache[m].key = k
      BY <1>2, LenProperties, Zenon DEF element, Entries
    <2>2. Without(k) = Remove(cache, m)
      BY <1>2, Zenon DEF Without
    <2>3. \A e \in Range(cache) : e.key = k <=> e = cache[m]
      BY <2>1, Zenon DEF Range, Unique
    <2> HIDE DEF m
    <2>4. /\ Remove(cache, m) \in Seq(Entry) /\ Unique(Remove(cache, m))
          /\ Range(Remove(cache, m)) = Range(cache) \ {cache[m]}
      BY <2>1, RemoveOne, Zenon
    <2> QED
      BY <2>2, <2>3, <2>4, Zenon
  <1> QED
    BY <1>1, <1>2, Zenon

\* An element of a new key goes to the front.
LEMMA PushFront ==
    ASSUME NEW list \in Seq(Entry), Unique(list), NEW e \in Entry,
           \A f \in Range(list) : f.key # e.key
    PROVE  /\ <<e>> \o list \in Seq(Entry) /\ Unique(<<e>> \o list)
           /\ Range(<<e>> \o list) = {e} \cup Range(list) /\ <<e>> \o list # <<>>
  <1> DEFINE n == Len(list)
             l == <<e>> \o list
  <1>1. DOMAIN list = 1..n /\ n \in Nat
    BY LenProperties, Zenon
  <1>2. /\ l \in Seq(Entry) /\ Len(l) = n + 1
        /\ l[1] = e /\ \A i \in 2..(n + 1) : l[i] = list[i - 1]
    <2>1. <<e>> \in Seq(Entry) /\ Len(<<e>>) = 1 /\ <<e>>[1] = e
      OBVIOUS
    <2>2. /\ l \in Seq(Entry) /\ Len(l) = 1 + n
          /\ \A i \in 1..(1 + n) : l[i] = IF i <= 1 THEN <<e>>[i] ELSE list[i - 1]
      BY <2>1, ConcatProperties, Zenon
    <2> HIDE DEF l
    <2> QED
      BY <1>1, <2>1, <2>2
  <1>3. DOMAIN l = 1..(n + 1) /\ l # <<>>
    <2>1. DOMAIN l = 1..(n + 1)
      BY <1>2, LenProperties, Zenon
    <2> QED
      BY <1>1, <2>1
  <1> HIDE DEF l, n
  <1>4. \A i \in 2..(n + 1) : i - 1 \in DOMAIN list /\ l[i] \in Range(list) /\ l[i] = list[i - 1]
    <2> TAKE i \in 2..(n + 1)
    <2>1. i - 1 \in DOMAIN list
      BY <1>1
    <2> QED
      BY <1>2, <2>1, Zenon DEF Range
  <1>5. Unique(l)
    <2> SUFFICES ASSUME NEW i \in 1..(n + 1), NEW j \in 1..(n + 1), l[i].key = l[j].key
                 PROVE  i = j
      BY <1>3, Zenon DEF Unique
    <2>1. CASE i = 1 \/ j = 1
      BY <1>1, <1>2, <1>4, <2>1
    <2>2. CASE i # 1 /\ j # 1
      <3>1. i \in 2..(n + 1) /\ j \in 2..(n + 1)
        BY <1>1, <2>2
      <3>2. i - 1 = j - 1
        BY <1>4, <3>1 DEF Unique
      <3> QED
        BY <1>1, <3>2
    <2> QED
      BY <2>1, <2>2, Zenon
  <1>6. Range(l) = {e} \cup Range(list)
    <2>1. ASSUME NEW i \in 1..(n + 1) PROVE l[i] \in {e} \cup Range(list)
      BY <1>1, <1>2, <1>4
    <2>2. ASSUME NEW j \in 1..n PROVE list[j] \in Range(l)
      <3>1. j + 1 \in 2..(n + 1) /\ (j + 1) - 1 = j /\ j + 1 \in 1..(n + 1)
        BY <1>1
      <3> QED
        BY <1>3, <1>4, <3>1, Zenon DEF Range
    <2>3. e \in Range(l)
      BY <1>1, <1>2, <1>3 DEF Range
    <2> QED
      BY <1>1, <1>3, <2>1, <2>2, <2>3, Zenon DEF Range
  <1> QED
    BY <1>2, <1>3, <1>5, <1>6, Zenon DEF l

\* The backends the elements E list, each under the key of its element.
ListedIn(E) == UNION {{e.key} \X DOMAIN e.val : e \in E}

\* An element of a new key adds as many as it lists.
LEMMA ListedAdd ==
    ASSUME NEW E \in SUBSET Entry, NEW e \in Entry, \A f \in E : f.key # e.key,
           IsFiniteSet(ListedIn(E))
    PROVE  /\ IsFiniteSet(ListedIn(E \cup {e}))
           /\ Cardinality(ListedIn(E \cup {e})) = Cardinality(ListedIn(E)) + Len(e.val)
  <1> DEFINE S == {e.key} \X DOMAIN e.val
  <1>1. DOMAIN e.val = 1..Len(e.val) /\ Len(e.val) \in Nat
    BY LenProperties, Zenon DEF Entry
  <1>2. IsFiniteSet(DOMAIN e.val) /\ Cardinality(DOMAIN e.val) = Len(e.val)
    BY <1>1, FS_Interval
  <1>3. IsFiniteSet({e.key}) /\ Cardinality({e.key}) = 1
    BY FS_Singleton, Zenon
  <1>4. IsFiniteSet(S) /\ Cardinality(S) = Len(e.val)
    <2> DEFINE K == {e.key}
               D == DOMAIN e.val
    <2>1. IsFiniteSet(K) /\ IsFiniteSet(D) /\ Cardinality(K) = 1 /\ Cardinality(D) = Len(e.val)
      BY <1>2, <1>3, Zenon
    <2> HIDE DEF K, D
    <2>2. IsFiniteSet(K \X D) /\ Cardinality(K \X D) = Cardinality(K) * Cardinality(D)
      BY <2>1, FS_Product, Zenon
    <2>3. Cardinality(K) * Cardinality(D) = Len(e.val)
      BY <1>1, <2>1
    <2> QED
      BY <2>2, <2>3, Zenon DEF K, D
  <1>5. ListedIn(E \cup {e}) = ListedIn(E) \cup S
    <2>1. \A x : x \in ListedIn(E \cup {e}) <=> \E f \in E \cup {e} : x \in {f.key} \X DOMAIN f.val
      BY Zenon DEF ListedIn
    <2>2. \A x : x \in ListedIn(E) <=> \E f \in E : x \in {f.key} \X DOMAIN f.val
      BY Zenon DEF ListedIn
    <2> QED
      BY <2>1, <2>2, Zenon
  <1>6. ListedIn(E) \cap S = {}
    BY DEF ListedIn
  <1>7. /\ Cardinality(ListedIn(E)) \in Nat /\ Cardinality({}) = 0
    BY FS_CardinalityType, FS_EmptySet, Zenon
  <1> HIDE DEF S
  <1>8. /\ IsFiniteSet(ListedIn(E) \cup S)
        /\ Cardinality(ListedIn(E) \cup S) =
             Cardinality(ListedIn(E)) + Cardinality(S) - Cardinality(ListedIn(E) \cap S)
    BY <1>4, FS_Union, Zenon
  <1>9. Cardinality(ListedIn(E) \cap S) = 0
    BY <1>6, <1>7, Zenon
  <1>10. Cardinality(ListedIn(E) \cup S) = Cardinality(ListedIn(E)) + Len(e.val)
    BY <1>1, <1>4, <1>7, <1>8, <1>9
  <1> QED
    BY <1>5, <1>8, <1>10, Zenon

\* An element that goes takes as many with it, if no other has its key.
LEMMA ListedRemove ==
    ASSUME NEW E \in SUBSET Entry, NEW e \in E, \A f \in E : f.key = e.key => f = e,
           IsFiniteSet(ListedIn(E))
    PROVE  /\ IsFiniteSet(ListedIn(E \ {e}))
           /\ Cardinality(ListedIn(E \ {e})) = Cardinality(ListedIn(E)) - Len(e.val)
  <1>1. ListedIn(E \ {e}) \subseteq ListedIn(E)
    BY Zenon DEF ListedIn
  <1>2. IsFiniteSet(ListedIn(E \ {e}))
    BY <1>1, FS_Subset, Zenon
  <1>3. E = (E \ {e}) \cup {e}
    OBVIOUS
  <1>4. Cardinality(ListedIn(E)) = Cardinality(ListedIn(E \ {e})) + Len(e.val)
    <2>1. /\ E \ {e} \in SUBSET Entry /\ e \in Entry
          /\ \A f \in E \ {e} : f.key # e.key
      OBVIOUS
    <2>2. Cardinality(ListedIn((E \ {e}) \cup {e})) = Cardinality(ListedIn(E \ {e})) + Len(e.val)
      BY <1>2, <2>1, ListedAdd, Zenon
    <2> QED
      BY <1>3, <2>2, Zenon
  <1>5. Cardinality(ListedIn(E \ {e})) \in Nat /\ Len(e.val) \in Nat
    BY <1>2, FS_CardinalityType, LenProperties, Zenon DEF Entry
  <1> QED
    BY <1>2, <1>4, <1>5

-----------------------------------------------------------------------------
(* The cache.                                                               *)

\* The list has one element for a key, and size counts what the elements list.
CacheOK ==
    /\ cache \in Seq(Entry) /\ Unique(cache)
    /\ IsFiniteSet(Listed) /\ size = Cardinality(Listed)

\* A cleared cache lists nothing.
LEMMA EmptyCache ==
    /\ cache = <<>> /\ size = 0 => CacheOK
    /\ cache' = <<>> /\ size' = 0 => CacheOK'
  <1>1. Range(<<>>) = {} /\ ListedIn({}) = {} /\ DOMAIN <<>> = {}
    BY EmptySeq DEF Range, ListedIn
  <1>2. IsFiniteSet({}) /\ Cardinality({}) = 0
    BY FS_EmptySet, Zenon
  <1> QED
    BY <1>1, <1>2, EmptySeq, Zenon DEF CacheOK, Listed, ListedIn, Unique

\* The elements of the list, and those of two keys.
LEMMA CacheElements ==
    ASSUME cache \in Seq(Entry), Unique(cache)
    PROVE  /\ Listed = ListedIn(Range(cache)) /\ Range(cache) \in SUBSET Entry
           /\ \A e, f \in Range(cache) : e.key = f.key => e = f
           /\ \A k : Entries(k) # {} => /\ cache[element(k)] \in Range(cache)
                                        /\ cache[element(k)].key = k
           /\ \A k : Entries(k) = {} => \A e \in Range(cache) : e.key # k
  <1>1. Range(cache) \in SUBSET Entry
    BY DEF Range
  <1>2. Listed = ListedIn(Range(cache))
    BY Zenon DEF Listed, ListedIn
  <1>3. \A e, f \in Range(cache) : e.key = f.key => e = f
    BY Zenon DEF Range, Unique
  <1>4. \A k : Entries(k) # {} => element(k) \in DOMAIN cache /\ cache[element(k)].key = k
    BY Zenon DEF Entries, element
  <1>5. \A k : Entries(k) = {} => \A e \in Range(cache) : e.key # k
    BY Zenon DEF Entries, Range
  <1> QED
    BY <1>1, <1>2, <1>3, <1>4, <1>5, Zenon DEF Range

\* Get moves the element of the key to the front and changes nothing else.
LEMMA MoveToFront ==
    ASSUME CacheOK, NEW k, Entries(k) # {}, cache' = <<cache[element(k)]>> \o Without(k), size' = size
    PROVE  CacheOK' /\ Range(cache') = Range(cache)
  <1> DEFINE e == cache[element(k)]
  <1>1. e \in Entry /\ e \in Range(cache) /\ e.key = k
    BY CacheElements, Zenon DEF CacheOK
  <1>2. /\ Without(k) \in Seq(Entry) /\ Unique(Without(k))
        /\ Range(Without(k)) = {f \in Range(cache) : f.key # k}
    BY WithoutType, Zenon DEF CacheOK
  <1>3. \A f \in Range(cache) : f.key = k => f = e
    BY <1>1, CacheElements, Zenon DEF CacheOK
  <1>4. cache' = <<e>> \o Without(k)
    OBVIOUS
  <1> HIDE DEF e
  <1>5. /\ cache' \in Seq(Entry) /\ Unique(cache')
        /\ Range(cache') = {e} \cup Range(Without(k))
    BY <1>1, <1>2, <1>4, PushFront, Zenon
  <1>6. Range(cache') = Range(cache)
    BY <1>1, <1>2, <1>3, <1>5, Zenon
  <1>7. Listed' = Listed
    BY <1>6, Zenon DEF Listed
  <1>8. IsFiniteSet(Listed') /\ size' = Cardinality(Listed')
    BY <1>7, Zenon DEF CacheOK
  <1> QED
    BY <1>5, <1>6, <1>8, Zenon DEF CacheOK

\* Set replaces the element of the key or adds one; checkCapacity takes the last
\* element off when the sum is over the capacity.
LEMMA SetType ==
    ASSUME CacheOK, NEW k \in Keys, NEW v \in Seq(Backends), Set(k, v)
    PROVE  LET new == [key |-> k, val |-> v] IN
           /\ CacheOK'
           /\ Range(cache') \subseteq Range(cache) \cup {new}
           /\ \/ size' <= Capacity
              \/ \E e \in Range(cache) \cup {new} : size' + Len(e.val) <= size + Len(v)
  <1> DEFINE new == [key |-> k, val |-> v]
             C == Range(cache)
             W == Range(Without(k))
             list == <<new>> \o Without(k)
             total == size + Len(v) - OldSize(k)
  <1>1. new \in Entry /\ new.key = k /\ new.val = v /\ Len(v) \in Nat
    BY LenProperties, Zenon DEF Entry
  <1>2. /\ Without(k) \in Seq(Entry) /\ Unique(Without(k)) /\ W = {f \in C : f.key # k}
        /\ C \in SUBSET Entry /\ Listed = ListedIn(C)
        /\ \A e, f \in C : e.key = f.key => e = f
    BY WithoutType, CacheElements, Zenon DEF CacheOK
  <1>3. /\ IsFiniteSet(ListedIn(W)) /\ OldSize(k) \in Nat
        /\ Cardinality(ListedIn(W)) = size - OldSize(k)
    <2>1. CASE Entries(k) = {}
      <3>1. W = C /\ OldSize(k) = 0
        BY <1>2, <2>1, CacheElements DEF CacheOK, OldSize
      <3>2. size \in Nat /\ IsFiniteSet(Listed) /\ size = Cardinality(Listed)
        BY FS_CardinalityType, Zenon DEF CacheOK
      <3>3. ListedIn(W) = Listed
        BY <1>2, <3>1, Zenon
      <3> HIDE DEF C, W
      <3> QED
        BY <3>1, <3>2, <3>3
    <2>2. CASE Entries(k) # {}
      <3> DEFINE e == cache[element(k)]
      <3>1. e \in C /\ e.key = k
        BY <2>2, CacheElements, Zenon DEF CacheOK
      <3>2. OldSize(k) = Len(e.val) /\ Len(e.val) \in Nat
        BY <1>2, <2>2, <3>1, LenProperties, Zenon DEF OldSize, Entry
      <3> HIDE DEF e
      <3>3. W = C \ {e} /\ \A f \in C : f.key = e.key => f = e
        BY <1>2, <3>1, Zenon
      <3>4. IsFiniteSet(ListedIn(C))
        BY <1>2, Zenon DEF CacheOK
      <3> HIDE DEF C, W
      <3>5. /\ IsFiniteSet(ListedIn(C \ {e}))
            /\ Cardinality(ListedIn(C \ {e})) = Cardinality(ListedIn(C)) - Len(e.val)
        BY <1>2, <3>1, <3>3, <3>4, ListedRemove, Zenon
      <3> QED
        BY <1>2, <3>2, <3>3, <3>5, Zenon DEF CacheOK
    <2> QED
      BY <2>1, <2>2, Zenon
  <1>4. Cardinality(Listed) \in Nat /\ size \in Nat /\ total \in Int
    BY <1>1, <1>3, FS_CardinalityType DEF CacheOK
  <1> HIDE DEF new, C, W, list
  <1>5. /\ list \in Seq(Entry) /\ Unique(list) /\ list # <<>>
        /\ Range(list) = {new} \cup W
    BY <1>1, <1>2, PushFront, Zenon DEF W, list
  <1>6. W \in SUBSET Entry /\ \A f \in W : f.key # new.key
    BY <1>1, <1>2, Zenon
  <1>7. /\ IsFiniteSet(ListedIn(Range(list)))
        /\ Cardinality(ListedIn(Range(list))) = total
    <2>1. /\ IsFiniteSet(ListedIn(W \cup {new}))
          /\ Cardinality(ListedIn(W \cup {new})) = Cardinality(ListedIn(W)) + Len(new.val)
      BY <1>1, <1>3, <1>6, ListedAdd, Zenon
    <2>2. W \cup {new} = Range(list)
      BY <1>5, Zenon
    <2>3. Cardinality(ListedIn(W)) + Len(new.val) = total
      BY <1>1, <1>3, <1>4
    <2> QED
      BY <2>1, <2>2, <2>3, Zenon
  <1>8. CASE total > Capacity
    <2> DEFINE n == Len(list)
    <2>1. cache' = Remove(list, n) /\ size' = total - Len(Back(list).val)
      BY <1>8, Zenon DEF Set, list, new
    <2>2. /\ Remove(list, n) \in Seq(Entry) /\ Unique(Remove(list, n))
          /\ Back(list) \in Range(list) /\ Range(Remove(list, n)) = Range(list) \ {Back(list)}
      <3>1. n \in 1..n /\ n \in DOMAIN list
        BY <1>5, LenProperties, EmptySeq
      <3>2. Back(list) = list[n]
        BY Zenon DEF Back
      <3> HIDE DEF n
      <3>3. list[n] \in Range(list)
        BY <3>1, Zenon DEF Range
      <3>4. /\ Remove(list, n) \in Seq(Entry) /\ Unique(Remove(list, n))
            /\ Range(Remove(list, n)) = Range(list) \ {list[n]}
        BY <1>5, <3>1, RemoveOne, Zenon DEF n
      <3> QED
        BY <3>2, <3>3, <3>4, Zenon
    <2> HIDE DEF n
    <2> DEFINE e == Back(list)
               L == Range(list)
    <2>3. /\ L \in SUBSET Entry /\ e \in L /\ Len(e.val) \in Nat
          /\ \A f \in L : f.key = e.key => f = e
      <3>1. L \in SUBSET Entry
        BY <1>1, <1>5, <1>6, Zenon
      <3>2. e \in L
        BY <2>2, Zenon
      <3>3. Len(e.val) \in Nat
        BY <3>1, <3>2, LenProperties, Zenon DEF Entry
      <3>4. \A f \in L : f.key = e.key => f = e
        BY <3>2, <1>5, Zenon DEF Unique, Range
      <3> QED
        BY <3>1, <3>2, <3>3, <3>4, Zenon
    <2> HIDE DEF e, L
    <2>4. /\ IsFiniteSet(ListedIn(L \ {e}))
          /\ Cardinality(ListedIn(L \ {e})) = Cardinality(ListedIn(L)) - Len(e.val)
      BY <1>7, <2>3, ListedRemove, Zenon DEF L
    <2>5. Listed' = ListedIn(L \ {e})
      BY <2>1, <2>2, Zenon DEF Listed, ListedIn, L, e
    <2>6. CacheOK'
      BY <1>7, <2>1, <2>2, <2>4, <2>5, Zenon DEF CacheOK, e, L
    <2>7. Range(cache') \subseteq C \cup {new} /\ e \in C \cup {new}
      BY <1>2, <1>5, <2>1, <2>2, <2>3, Zenon DEF L
    <2>8. size' + Len(e.val) <= size + Len(v)
      <3>1. size' = (size + Len(v) - OldSize(k)) - Len(e.val)
        BY <2>1, Zenon DEF e
      <3>2. size \in Nat /\ Len(v) \in Nat /\ OldSize(k) \in Nat /\ Len(e.val) \in Nat
        BY <1>1, <1>3, <1>4, <2>3, Zenon
      <3> HIDE DEF total
      <3> QED
        BY <3>1, <3>2
    <2> QED
      BY <2>6, <2>7, <2>8, Zenon DEF C, new
  <1>9. CASE ~(total > Capacity)
    <2>1. cache' = list /\ size' = total
      BY <1>9, Zenon DEF Set, list, new
    <2>2. Listed' = ListedIn(Range(list))
      BY <2>1, Zenon DEF Listed, ListedIn
    <2>3. CacheOK'
      BY <1>5, <1>7, <2>1, <2>2, Zenon DEF CacheOK
    <2>4. Range(cache') \subseteq C \cup {new}
      BY <1>2, <1>5, <2>1, Zenon
    <2>5. size' <= Capacity
      BY <1>4, <1>9, <2>1, HasherAssumption
    <2> QED
      BY <2>3, <2>4, <2>5, Zenon DEF C, new
  <1> QED
    BY <1>8, <1>9, Zenon DEF C, new

-----------------------------------------------------------------------------
(* The inductive invariant.                                                 *)

Stages == {"idle", "xref", "pool", "ring", "clear"}
Calls == [at : Stages, op : {"add", "purge"}, server : Servers, hash : Hashes]
Lookups == [at : {"idle", "ring", "inner", "spin", "set"}, key : Keys, val : Seq(Hashes)]

MapsOK == HashKeyToServer \in [Hashes -> Backends] /\ ServerToHashkey \in [Servers -> Hashes]

TypeOK ==
    /\ num \in Nat /\ count \in Int /\ overlapped \in BOOLEAN
    /\ ring \subseteq Hashes /\ servers \in [Servers -> Int] /\ MapsOK
    /\ lookup \in [Clients -> Lookups]
    /\ admin \in [Admins -> Calls]
    /\ CacheOK

\* The hash keys that lead to a server lead to one whose key they are, and the
\* other way round as long as no two servers were given the same.
Linked == {h \in Hashes : HashKeyToServer[h] # Nowhere}
MapsAgree ==
    /\ \A h \in Linked : HashKeyToServer[h] \in Mapped /\ ServerToHashkey[HashKeyToServer[h]] = h
    /\ ~shared => \A s \in Mapped : HashKeyToServer[ServerToHashkey[s]] = s

\* The pool's list has server s n times, and each other one of the maps once.
Lists(s, n) ==
    \A t \in Servers : servers[t] = IF t = s THEN n ELSE IF t \in Mapped THEN 1 ELSE 0

\* How far call m has got: AddServer writes the maps, then the ring, then the
\* pool's list; PurgeServer the ring, the list and then the maps.
Progress(m) ==
    LET s == m.server
        h == ServerToHashkey[s]
        n == Cardinality(Mapped) IN
    /\ m.at = "ring" => m.hash = h
    /\ m.op = "add" =>
         /\ Lists(s, 0)
         /\ m.at = "xref" => s \notin Mapped /\ m.hash \in HashKeys /\ ring = Linked /\ count = n
         /\ m.at \in {"pool", "ring"} => s \in Mapped /\ ring \cup {h} = Linked /\ count + 1 = n
         /\ m.at = "clear" => s \in Mapped /\ ring = Linked /\ count = n
    /\ m.op = "purge" =>
         /\ s \in Mapped
         /\ m.at \in {"pool", "ring"} => Lists(s, 1) /\ ring = Linked /\ count = n
         /\ m.at = "clear" => Lists(s, 1) /\ ring = Linked \ {h} /\ count + 1 = n
         /\ m.at = "xref" => Lists(s, 0) /\ ring = Linked \ {h} /\ count + 1 = n

Settled ==
    /\ ring = Linked /\ count = Cardinality(Mapped)
    /\ \A t \in Servers : servers[t] = IF t \in Mapped THEN 1 ELSE 0

\* As long as no two calls overlapped, only one is under way.
CallInv ==
    ~overlapped =>
        /\ MapsAgree
        /\ \A a, b \in Admins : Busy(a) /\ Busy(b) => a = b
        /\ (\A a \in Admins : ~Busy(a)) => Settled
        /\ \A a \in Admins : Busy(a) => Progress(admin[a])

\* What a lookup that is not late holds, and what such lookups have cached.
CacheInv ==
    /\ \A c \in Clients \ late : lookup[c].at = "set" => lookup[c].val = Route(lookup[c].key)
    /\ ~Changing =>
         \A e \in Range(cache) :
             e.key \in tainted \/ /\ Len(e.val) = Routed
                                  /\ ~Remapping /\ ~overlapped => e.val = Translate(Route(e.key))
    /\ ~Changing /\ tainted = {} => size <= Capacity

HasherInv == TypeOK /\ CallInv /\ CacheInv

-----------------------------------------------------------------------------
(* Types.                                                                   *)

\* The records of a client and of an operator that are idle.
LEMMA HasherTypes == NoLookup \in Lookups /\ NoCall \in Calls
  BY HasherAssumption, EmptySeq DEF NoLookup, NoCall, Lookups, Calls, Stages, Hashes

\* The hasher starts with the configured servers and an empty cache.
LEMMA TypeInit == Init => TypeOK
  <1> SUFFICES ASSUME Init PROVE TypeOK
    OBVIOUS
  <1>1. CacheOK
    BY EmptyCache, Zenon DEF Init
  <1>2. Started \subseteq Servers /\ Configured \in [Started -> HashKeys]
    BY HasherAssumption, Zenon
  <1>3. Cardinality(Started) \in Nat
    BY <1>2, HasherAssumption, FS_Subset, FS_CardinalityType, Zenon
  <1>4. num \in Nat
    <2>1. PICK o \in Options : num = o[1]
      BY Zenon DEF Init
    <2>2. o \in (1..Cardinality(Started)) \X (Nat \ {0})
      BY HasherAssumption, Zenon
    <2> QED
      BY <1>3, <2>1, <2>2
  <1>5. ring \subseteq Hashes
    BY <1>2, Zenon DEF Init, Range, Hashes
  <1>6. MapsOK
    <2>1. \A h \in Range(Configured) : \E s \in Started : Configured[s] = h
      BY <1>2, Zenon DEF Range
    <2>2. \A h \in Range(Configured) : (CHOOSE s \in Started : Configured[s] = h) \in Servers
      BY <1>2, <2>1, Zenon
    <2> QED
      BY <1>2, <2>2, Zenon DEF Init, MapsOK, Hashes, Backends
  <1>7. servers \in [Servers -> Int]
    BY DEF Init
  <1>8. count \in Int
    BY <1>3 DEF Init
  <1> QED
    BY <1>1, <1>4, <1>5, <1>6, <1>7, <1>8, HasherTypes, Zenon DEF Init, TypeOK

\* Translate gives a backend, or the empty string, for each hash key.
LEMMA TranslateType ==
    ASSUME MapsOK, NEW v \in Seq(Hashes)
    PROVE  Translate(v) \in Seq(Backends) /\ Len(Translate(v)) = Len(v)
  <1>1. DOMAIN v = 1..Len(v) /\ Len(v) \in Nat /\ \A i \in 1..Len(v) : v[i] \in Hashes
    BY LenProperties, ElementOfSeq, Zenon
  <1>2. Translate(v) \in [1..Len(v) -> Backends]
    BY <1>1, Zenon DEF Translate, MapsOK
  <1> QED
    BY <1>1, <1>2

\* Lookups and calls keep the types, and the list of the cache to one element
\* for a key.
LEMMA TypeStep == TypeOK /\ [Next]_vars => TypeOK'
  <1> SUFFICES ASSUME TypeOK, [Next]_vars PROVE TypeOK'
    OBVIOUS
  <1> USE DEF TypeOK
  <1>c. ASSUME UNCHANGED <<cache, size>> PROVE CacheOK'
    BY <1>c, Zenon DEF CacheOK, Listed, Unique
  <1>m. ASSUME UNCHANGED maps PROVE MapsOK'
    BY <1>m, Zenon DEF MapsOK, maps
  <1>l. \A c \in Clients : /\ lookup[c] \in Lookups
                           /\ lookup[c].key \in Keys /\ lookup[c].val \in Seq(Hashes)
    BY Zenon DEF Lookups
  <1>a. \A a \in Admins : /\ admin[a] \in Calls
                          /\ admin[a].server \in Servers /\ admin[a].hash \in Hashes
    BY Zenon DEF Calls
  <1>1. ASSUME NEW c \in Clients, NEW k \in Keys, CacheGet(c, k) PROVE TypeOK'
    <2>1. CacheOK'
      <3>1. CASE Entries(k) # {}
        BY <1>1, <3>1, MoveToFront, Zenon DEF CacheGet
      <3>2. CASE Entries(k) = {}
        BY <1>1, <1>c, <3>2, Zenon DEF CacheGet
      <3> QED
        BY <3>1, <3>2, Zenon
    <2>2. lookup' \in [Clients -> Lookups]
      <3>1. [at |-> "ring", key |-> k, val |-> <<>>] \in Lookups
        BY EmptySeq, Zenon DEF Lookups
      <3> QED
        BY <1>1, <3>1, Zenon DEF CacheGet
    <2> QED
      BY <1>1, <1>m, <2>1, <2>2, Zenon DEF CacheGet, options, circle, history
  <1>2. ASSUME NEW c \in Clients, GetN(c) \/ Get(c) PROVE TypeOK'
    <2>1. UNCHANGED <<num, ring, count, servers, maps, cache, size, admin, overlapped>>
      BY <1>2, Zenon DEF GetN, Get, options, circle, history
    <2>2. \/ \E at \in {"inner", "spin"} : lookup' = [lookup EXCEPT ![c].at = at]
          \/ lookup' = [lookup EXCEPT ![c].at = "set", ![c].val = Route(lookup[c].key)]
      BY <1>2, Zenon DEF GetN, Get, Reads
    <2>3. Route(lookup[c].key) \in Seq(Hashes)
      BY <1>l, RouteType, Zenon
    <2>4. lookup' \in [Clients -> Lookups]
      <3> DEFINE stops(at) == [lookup[c] EXCEPT !.at = at]
                 read == [lookup[c] EXCEPT !.at = "set", !.val = Route(lookup[c].key)]
      <3>1. read \in Lookups /\ \A at \in {"inner", "spin"} : stops(at) \in Lookups
        BY <1>l, <2>3, Zenon DEF Lookups
      <3>2. \/ \E at \in {"inner", "spin"} : lookup' = [lookup EXCEPT ![c] = stops(at)]
            \/ lookup' = [lookup EXCEPT ![c] = read]
        BY <2>2, Zenon
      <3> HIDE DEF stops, read
      <3> QED
        BY <3>1, <3>2, Zenon
    <2>5. CacheOK'
      BY <1>c, <2>1, Zenon
    <2> QED
      BY <1>m, <2>1, <2>4, <2>5, Zenon
  <1>3. ASSUME NEW c \in Clients, CacheSet(c) PROVE TypeOK'
    <2>1. Translate(lookup[c].val) \in Seq(Backends)
      BY <1>l, TranslateType, Zenon
    <2>2. CacheOK'
      BY <1>3, <1>l, <2>1, SetType, Zenon DEF CacheSet
    <2> QED
      BY <1>3, <1>m, <2>2, HasherTypes, Zenon DEF CacheSet, options, circle
  <1>4. ASSUME NEW a \in Admins, NEW s \in Servers, NEW op \in {"add", "purge"}, NEW h \in Hashes,
               Begin(a, op, s, h)
        PROVE  TypeOK'
    <2>1. [at |-> IF op = "add" THEN "xref" ELSE "pool", op |-> op, server |-> s, hash |-> h] \in Calls
      BY Zenon DEF Calls, Stages
    <2> QED
      BY <1>4, <1>c, <1>m, <2>1, Zenon DEF Begin, Starts, options, circle, router
  <1>s. ASSUME NEW a \in Admins, NEW at \in Stages, NEW h \in Hashes,
               \/ Goes(a, at) \/ admin' = [admin EXCEPT ![a] = NoCall]
               \/ admin' = [admin EXCEPT ![a].at = at, ![a].hash = h]
        PROVE  admin' \in [Admins -> Calls]
    BY <1>s, <1>a, HasherTypes DEF Goes, Calls
  <1>5. ASSUME NEW a \in Admins, WriteXref(a) PROVE TypeOK'
    <2>1. admin' \in [Admins -> Calls]
      BY <1>5, <1>s, <1>a, Zenon DEF WriteXref, Stages
    <2>2. MapsOK'
      <3>1. ServerToHashkey[admin[a].server] \in Hashes /\ Nowhere \in Hashes /\ Nowhere \in Backends
            /\ Servers \subseteq Backends
        BY <1>a, Zenon DEF MapsOK, Hashes, Backends
      <3>2. /\ \E t \in Servers, h \in Hashes : ServerToHashkey' = [ServerToHashkey EXCEPT ![t] = h]
            /\ \E h \in Hashes, b \in Backends : HashKeyToServer' = [HashKeyToServer EXCEPT ![h] = b]
        BY <1>5, <1>a, <3>1, Zenon DEF WriteXref, Drops
      <3> QED
        BY <3>2, Zenon DEF MapsOK
    <2> QED
      BY <1>5, <1>c, <2>1, <2>2, Zenon DEF WriteXref, options, circle, router
  <1>n. ASSUME NEW a \in Admins, Notify(a) PROVE admin' \in [Admins -> Calls]
    <2>1. ServerToHashkey[admin[a].server] \in Hashes
      BY <1>a, Zenon DEF MapsOK
    <2> QED
      BY <1>n, <1>s, <2>1, Zenon DEF Notify, Stages
  <1>6. ASSUME NEW a \in Admins, LockPool(a) PROVE TypeOK'
    <2>1. admin' \in [Admins -> Calls]
      BY <1>6, <1>s, <1>n, <1>a, Zenon DEF LockPool, Stages
    <2> QED
      BY <1>6, <1>c, <1>m, <2>1, Zenon DEF LockPool, options, circle, router, history
  <1>7. ASSUME NEW a \in Admins, ChangeRing(a) PROVE TypeOK'
    <2>1. admin' \in [Admins -> Calls]
      BY <1>7, <1>s, <1>a, Zenon DEF ChangeRing, Stages
    <2>2. ring' \subseteq Hashes
      <3>1. ring' = ring \cup {admin[a].hash} \/ ring' = ring \ {admin[a].hash}
        BY <1>7, Zenon DEF ChangeRing, Changes
      <3>2. ring \subseteq Hashes /\ admin[a].hash \in Hashes
        BY <1>a, Zenon
      <3> QED
        BY ONLY <3>1, <3>2
    <2>3. count' \in Int
      BY <1>7 DEF ChangeRing, Changes
    <2> QED
      BY <1>7, <1>c, <1>m, <2>1, <2>2, <2>3, Zenon DEF ChangeRing, options, router
  <1>8. ASSUME NEW a \in Admins, Clear(a) PROVE TypeOK'
    <2>1. admin' \in [Admins -> Calls]
      BY <1>8, <1>s, <1>n, <1>a, Zenon DEF Clear, ChangeList, Stages
    <2>2. CacheOK'
      BY <1>8, EmptyCache, Zenon DEF Clear
    <2>3. servers' \in [Servers -> Int]
      BY <1>8, <1>a DEF Clear, ChangeList
    <2> QED
      BY <1>8, <1>m, <2>1, <2>2, <2>3, Zenon DEF Clear, options, circle
  <1>9. CASE ConcurrentMap
    BY <1>9, <1>c, <1>m, Zenon DEF ConcurrentMap, options, circle, router, history
  <1>10. CASE UNCHANGED vars
    BY <1>10, <1>c, <1>m, Zenon DEF vars, maps
  <1>11. Nowhere \in Hashes /\ HashKeys \subseteq Hashes
    BY Zenon DEF Hashes
  <1> QED
    BY <1>1, <1>2, <1>3, <1>4, <1>5, <1>6, <1>7, <1>8, <1>9, <1>10, <1>11, Zenon
       DEF Next, LookupStep, AdminStep
-----------------------------------------------------------------------------
(* One call at a time.                                                      *)

\* The servers of the maps can be counted.
LEMMA MappedIsFinite == IsFiniteSet(Mapped) /\ Cardinality(Mapped) \in Nat
  BY HasherAssumption, FS_Subset, FS_CardinalityType, Zenon DEF Mapped

\* The configured servers have hash keys of their own.
LEMMA CallInit == Init => CallInv
  <1> SUFFICES ASSUME Init PROVE CallInv
    OBVIOUS
  <1> DEFINE taker(h) == CHOOSE s \in Started : Configured[s] = h
  <1>1. /\ Started \subseteq Servers /\ Configured \in [Started -> HashKeys]
        /\ \A s, t \in Started : Configured[s] = Configured[t] => s = t
        /\ Nowhere \notin Servers /\ Nowhere \notin HashKeys
    BY HasherAssumption, Zenon
  <1>2. \A h \in Range(Configured) : taker(h) \in Started /\ Configured[taker(h)] = h
    <2>1. \A h \in Range(Configured) : \E s \in Started : Configured[s] = h
      BY <1>1, Zenon DEF Range
    <2> QED
      BY <2>1, Zenon
  <1>3. \A s \in Started : Configured[s] \in Range(Configured) /\ Configured[s] \in Hashes
    BY <1>1, Zenon DEF Range, Hashes
  <1>4. \A s \in Started : taker(Configured[s]) = s
    BY <1>1, <1>2, <1>3, Zenon
  <1> HIDE DEF taker
  <1>5. /\ \A h \in Hashes : HashKeyToServer[h] = IF h \in Range(Configured) THEN taker(h) ELSE Nowhere
        /\ \A s \in Servers : ServerToHashkey[s] = IF s \in Started THEN Configured[s] ELSE Nowhere
        /\ \A s \in Servers : servers[s] = IF s \in Started THEN 1 ELSE 0
    BY Zenon DEF Init, taker
  <1>6. Mapped = Started
    <2>1. \A s \in Started : Configured[s] # Nowhere
      BY <1>1, Zenon
    <2> QED
      BY ONLY <1>1, <1>5, <2>1 DEF Mapped
  <1>7. Linked = Range(Configured)
    <2>1. Range(Configured) \subseteq Hashes
      BY <1>1, Zenon DEF Range, Hashes
    <2> QED
      BY ONLY <1>1, <1>2, <1>5, <2>1 DEF Linked
  <1>8. MapsAgree
    <2>1. \A h \in Linked : h \in Hashes /\ HashKeyToServer[h] = taker(h) /\ taker(h) \in Started
                          /\ Configured[taker(h)] = h
      BY <1>2, <1>5, <1>7, Zenon DEF Linked
    <2>2. \A h \in Linked : HashKeyToServer[h] \in Mapped /\ ServerToHashkey[HashKeyToServer[h]] = h
      BY ONLY <1>1, <1>5, <1>6, <2>1
    <2>3. \A s \in Mapped : HashKeyToServer[ServerToHashkey[s]] = s
      BY <1>1, <1>3, <1>4, <1>5, <1>6, Zenon
    <2> QED
      BY <2>2, <2>3, Zenon DEF MapsAgree
  <1>9. Settled
    BY <1>5, <1>6, <1>7, Zenon DEF Init, Settled
  <1>10. \A a \in Admins : ~Busy(a)
    BY DEF Init, Busy, NoCall
  <1> QED
    BY <1>8, <1>9, <1>10, Zenon DEF CallInv

\* AddServer writes the maps for a server that is in neither; it takes the hash
\* key from the server that had it.
LEMMA MapsAdd ==
    ASSUME MapsOK, MapsAgree, NEW s \in Servers, NEW h \in HashKeys, s \notin Mapped,
           ServerToHashkey' = [ServerToHashkey EXCEPT ![s] = h],
           HashKeyToServer' = [HashKeyToServer EXCEPT ![h] = s],
           shared' = (shared \/ h \in Range(ServerToHashkey))
    PROVE  /\ MapsAgree' /\ ServerToHashkey'[s] = h
           /\ Mapped' = Mapped \cup {s} /\ Linked' = Linked \cup {h}
           /\ Cardinality(Mapped') = Cardinality(Mapped) + 1
  <1>1. /\ s # Nowhere /\ h # Nowhere /\ h \in Hashes
        /\ ServerToHashkey[s] = Nowhere
    BY HasherAssumption, Zenon DEF Hashes, Mapped
  <1>2. /\ ServerToHashkey'[s] = h /\ HashKeyToServer'[h] = s
        /\ \A t \in Servers \ {s} : ServerToHashkey'[t] = ServerToHashkey[t]
        /\ \A x \in Hashes \ {h} : HashKeyToServer'[x] = HashKeyToServer[x]
    BY <1>1, Zenon DEF MapsOK
  <1>3. Mapped' = Mapped \cup {s} /\ Linked' = Linked \cup {h}
    BY <1>1, <1>2, Zenon DEF Mapped, Linked
  <1>4. Cardinality(Mapped') = Cardinality(Mapped) + 1
    BY <1>3, MappedIsFinite, FS_AddElement, Zenon
  <1>5. \A x \in Linked' : HashKeyToServer'[x] \in Mapped' /\ ServerToHashkey'[HashKeyToServer'[x]] = x
    <2> SUFFICES ASSUME NEW x \in Linked'
                 PROVE  HashKeyToServer'[x] \in Mapped' /\ ServerToHashkey'[HashKeyToServer'[x]] = x
      OBVIOUS
    <2>1. CASE x = h
      <3>1. s \in Mapped'
        BY <1>3, Zenon
      <3> QED
        BY ONLY <1>2, <2>1, <3>1
    <2>2. CASE x # h
      <3>1. x \in Linked /\ x \in Hashes /\ HashKeyToServer'[x] = HashKeyToServer[x]
        BY <1>2, <1>3, <2>2, Zenon DEF Linked
      <3>2. HashKeyToServer[x] \in Mapped /\ ServerToHashkey[HashKeyToServer[x]] = x
        BY <3>1, Zenon DEF MapsAgree
      <3>3. HashKeyToServer[x] \in Servers \ {s}
        BY <3>2, Zenon DEF Mapped
      <3>4. HashKeyToServer[x] \in Mapped'
        BY <1>3, <3>2, Zenon
      <3> QED
        BY ONLY <1>2, <3>1, <3>2, <3>3, <3>4
    <2> QED
      BY <2>1, <2>2, Zenon
  <1>6. ~shared' => \A t \in Mapped' : HashKeyToServer'[ServerToHashkey'[t]] = t
    <2> SUFFICES ASSUME ~shared', NEW t \in Mapped'
                 PROVE  HashKeyToServer'[ServerToHashkey'[t]] = t
      OBVIOUS
    <2>1. CASE t = s
      BY <1>2, <2>1, Zenon
    <2>2. CASE t # s
      <3>1. t \in Mapped /\ t \in Servers /\ ServerToHashkey'[t] = ServerToHashkey[t]
        BY <1>2, <1>3, <2>2, Zenon DEF Mapped
      <3>2. ServerToHashkey[t] \in Hashes /\ ServerToHashkey[t] \in Range(ServerToHashkey)
        BY <3>1, Zenon DEF MapsOK, Range
      <3>3. HashKeyToServer[ServerToHashkey[t]] = t /\ ServerToHashkey[t] # h
        BY <3>1, <3>2, Zenon DEF MapsAgree
      <3> QED
        BY <1>2, <3>1, <3>2, <3>3, Zenon
    <2> QED
      BY <2>1, <2>2, Zenon
  <1>7. MapsAgree'
    BY <1>5, <1>6, Zenon DEF MapsAgree
  <1> QED
    BY <1>2, <1>3, <1>4, <1>7, Zenon

\* PurgeServer deletes the hash key of the server, which another may share.
LEMMA MapsDrop ==
    ASSUME MapsOK, MapsAgree, NEW s \in Servers, s \in Mapped, Drops(s), shared' = shared
    PROVE  /\ MapsAgree'
           /\ Mapped' = Mapped \ {s} /\ Linked' = Linked \ {ServerToHashkey[s]}
           /\ Cardinality(Mapped') = Cardinality(Mapped) - 1
  <1> DEFINE h == ServerToHashkey[s]
  <1>1. h # Nowhere /\ h \in Hashes
    BY Zenon DEF Mapped, MapsOK
  <1>2. /\ ServerToHashkey'[s] = Nowhere /\ HashKeyToServer'[h] = Nowhere
        /\ \A t \in Servers \ {s} : ServerToHashkey'[t] = ServerToHashkey[t]
        /\ \A x \in Hashes \ {h} : HashKeyToServer'[x] = HashKeyToServer[x]
    BY <1>1, Zenon DEF MapsOK, Drops
  <1> HIDE DEF h
  <1>3. Mapped' = Mapped \ {s} /\ Linked' = Linked \ {h}
    BY <1>1, <1>2, Zenon DEF Mapped, Linked
  <1>4. Cardinality(Mapped') = Cardinality(Mapped) - 1
    BY <1>3, MappedIsFinite, FS_RemoveElement, Zenon
  <1>5. \A x \in Linked' : HashKeyToServer'[x] \in Mapped' /\ ServerToHashkey'[HashKeyToServer'[x]] = x
    <2> SUFFICES ASSUME NEW x \in Linked'
                 PROVE  HashKeyToServer'[x] \in Mapped' /\ ServerToHashkey'[HashKeyToServer'[x]] = x
      OBVIOUS
    <2>1. x \in Linked /\ x \in Hashes /\ x # h /\ HashKeyToServer'[x] = HashKeyToServer[x]
      BY <1>2, <1>3, Zenon DEF Linked
    <2>2. HashKeyToServer[x] \in Mapped /\ ServerToHashkey[HashKeyToServer[x]] = x
      BY <2>1, Zenon DEF MapsAgree
    <2>3. HashKeyToServer[x] \in Servers \ {s}
      BY <2>1, <2>2, Zenon DEF Mapped, h
    <2> QED
      BY <1>2, <1>3, <2>1, <2>2, <2>3, Zenon
  <1>6. ~shared' => \A t \in Mapped' : HashKeyToServer'[ServerToHashkey'[t]] = t
    <2> SUFFICES ASSUME ~shared', NEW t \in Mapped'
                 PROVE  HashKeyToServer'[ServerToHashkey'[t]] = t
      OBVIOUS
    <2>1. t \in Mapped /\ t \in Servers /\ t # s /\ ServerToHashkey'[t] = ServerToHashkey[t]
      BY <1>2, <1>3, Zenon DEF Mapped
    <2>2. HashKeyToServer[ServerToHashkey[t]] = t /\ HashKeyToServer[h] = s
      BY <2>1, Zenon DEF MapsAgree, h
    <2>3. ServerToHashkey[t] \in Hashes \ {h}
      BY <2>1, <2>2, Zenon DEF MapsOK
    <2> QED
      BY <1>2, <2>1, <2>2, <2>3, Zenon
  <1>7. MapsAgree'
    BY <1>5, <1>6, Zenon DEF MapsAgree
  <1> QED
    BY <1>3, <1>4, <1>7, Zenon DEF h

\* A call that has begun goes on alone.
LEMMA CallStep == TypeOK /\ CallInv /\ [Next]_vars => CallInv'
  <1> SUFFICES ASSUME TypeOK, CallInv, [Next]_vars, ~overlapped' PROVE CallInv'
    BY Zenon DEF CallInv
  <1>m. ASSUME UNCHANGED <<maps, shared>>
        PROVE  /\ Mapped' = Mapped /\ Linked' = Linked /\ (MapsAgree <=> MapsAgree')
               /\ UNCHANGED <<HashKeyToServer, ServerToHashkey>>
    BY <1>m, Zenon DEF maps, MapsAgree, Mapped, Linked
  <1>u. ASSUME UNCHANGED <<ring, count, servers, maps, admin, overlapped, shared>> PROVE CallInv'
    <2>1. /\ Mapped' = Mapped /\ Linked' = Linked /\ (MapsAgree <=> MapsAgree')
          /\ UNCHANGED ServerToHashkey
      BY <1>u, <1>m, Zenon
    <2>2. \A a \in Admins : Busy(a)' = Busy(a)
      BY <1>u, Zenon DEF Busy
    <2>3. Settled => Settled'
      BY <1>u, <2>1, Zenon DEF Settled
    <2>4. \A s, n : Lists(s, n) => Lists(s, n)'
      BY <1>u, <2>1, Zenon DEF Lists
    <2>5. \A a \in Admins : Progress(admin[a]) => Progress(admin[a])'
      BY <1>u, <2>1, <2>4, Zenon DEF Progress
    <2> QED
      BY <1>u, <2>1, <2>2, <2>3, <2>5, Zenon DEF CallInv
  <1>a. \A a \in Admins : admin[a] \in Calls
    BY Zenon DEF TypeOK
  <1>o. ASSUME NEW a \in Admins, Busy(a), overlapped' = overlapped, MapsAgree',
               \A b \in Admins \ {a} : admin'[b] = admin[b],
               admin'[a].at # "idle" => Progress(admin[a])',
               admin'[a].at = "idle" => Settled'
        PROVE  CallInv'
    <2>1. \A b \in Admins \ {a} : ~Busy(b)
      BY <1>o, Zenon DEF CallInv
    <2>2. \A b \in Admins : Busy(b)' => b = a
      BY <1>o, <2>1, Zenon DEF Busy
    <2>3. Busy(a)' <=> admin'[a].at # "idle"
      BY Zenon DEF Busy
    <2> QED
      BY <1>o, <2>2, <2>3, Zenon DEF CallInv
  <1>1. ASSUME NEW c \in Clients, LookupStep(c) \/ \E k \in Keys : CacheGet(c, k) PROVE CallInv'
    BY <1>1, <1>u, Zenon DEF LookupStep, GetN, Get, CacheSet, CacheGet, circle, history
  <1>2. ASSUME NEW a \in Admins, NEW s \in Servers, NEW op \in {"add", "purge"}, NEW h,
               Begin(a, op, s, h), op = "add" => h \in HashKeys
        PROVE  CallInv'
    <2> DEFINE m == [at |-> IF op = "add" THEN "xref" ELSE "pool", op |-> op, server |-> s,
                     hash |-> h]
    <2>1. /\ ~overlapped /\ \A b \in Admins : ~Busy(b)
          /\ UNCHANGED <<ring, count, servers, maps, shared>> /\ admin' = [admin EXCEPT ![a] = m]
          /\ (op = "add") <=> s \notin Mapped
      BY <1>2, Zenon DEF Begin, Starts, circle, Mapped
    <2>2. Settled /\ MapsAgree
      BY <2>1, Zenon DEF CallInv
    <2>3. admin'[a] = m /\ \A b \in Admins \ {a} : admin'[b] = admin[b]
      BY <2>1, Zenon DEF TypeOK
    <2>4. Mapped' = Mapped /\ Linked' = Linked /\ MapsAgree'
      BY <1>m, <2>1, <2>2, Zenon
    <2>5. Progress(m)'
      <3>1. CASE op = "add"
        <4>1. m.at = "xref" /\ m.op = "add" /\ m.server = s /\ m.hash = h
          BY <3>1, Zenon
        <4>2. s \notin Mapped' /\ ring' = Linked' /\ count' = Cardinality(Mapped') /\ h \in HashKeys
          BY <1>2, <2>1, <2>2, <2>4, <3>1, Zenon DEF Settled
        <4>3. Lists(s, 0)'
          BY <2>1, <2>2, <2>4, <3>1, Zenon DEF Settled, Lists
        <4> HIDE DEF m
        <4> QED
          BY <4>1, <4>2, <4>3 DEF Progress
      <3>2. CASE op = "purge"
        <4>1. m.at = "pool" /\ m.op = "purge" /\ m.server = s
          BY <3>2
        <4>2. s \in Mapped' /\ ring' = Linked' /\ count' = Cardinality(Mapped')
          BY <2>1, <2>2, <2>4, <3>2 DEF Settled
        <4>3. Lists(s, 1)'
          BY <2>1, <2>2, <2>4, <4>2, Zenon DEF Settled, Lists
        <4> HIDE DEF m
        <4> QED
          BY <4>1, <4>2, <4>3 DEF Progress
      <3> QED
        BY <3>1, <3>2, Zenon
    <2>6. m.at # "idle"
      OBVIOUS
    <2> HIDE DEF m
    <2>7. \A b \in Admins : Busy(b)' <=> b = a
      BY <2>1, <2>3, <2>6, Zenon DEF Busy
    <2> QED
      BY <2>3, <2>4, <2>5, <2>7, Zenon DEF CallInv
  <1>3. ASSUME NEW a \in Admins, AdminStep(a) PROVE CallInv'
    <2> DEFINE x == admin[a]
               y == admin'[a]
               n == Cardinality(Mapped)
    <2>1. Busy(a) /\ overlapped' = overlapped
      BY <1>3, Zenon DEF AdminStep, WriteXref, LockPool, ChangeRing, Clear, Busy, history
    <2> PICK s \in Servers : s = x.server
      BY <1>a, Zenon DEF Calls
    <2> DEFINE h == ServerToHashkey[s]
    <2>2. /\ Progress(x) /\ MapsAgree /\ MapsOK
          /\ x \in Calls /\ x.op \in {"add", "purge"}
      BY <1>a, <2>1, Zenon DEF CallInv, Calls, TypeOK
    <2>3. CASE WriteXref(a)
      <3>1. x.at = "xref" /\ UNCHANGED <<ring, count, servers>>
        BY <2>3, Zenon DEF WriteXref, circle
      <3>2. CASE x.op = "add"
        <4>1. /\ ServerToHashkey' = [ServerToHashkey EXCEPT ![s] = x.hash]
              /\ HashKeyToServer' = [HashKeyToServer EXCEPT ![x.hash] = s]
              /\ shared' = (shared \/ x.hash \in Range(ServerToHashkey))
              /\ Goes(a, "pool")
          BY <2>3, <3>2, Zenon DEF WriteXref
        <4>2. /\ y.at = "pool" /\ y.op = "add" /\ y.server = s
              /\ \A b \in Admins \ {a} : admin'[b] = admin[b]
          BY <2>2, <3>2, <4>1, Zenon DEF Goes, TypeOK, Calls
        <4>3. /\ s \notin Mapped /\ x.hash \in HashKeys /\ ring = Linked /\ count = n
              /\ Lists(s, 0)
          BY <2>2, <3>1, <3>2, Zenon DEF Progress
        <4>4. /\ MapsAgree' /\ ServerToHashkey'[s] = x.hash
              /\ Mapped' = Mapped \cup {s} /\ Linked' = Linked \cup {x.hash}
              /\ Cardinality(Mapped') = n + 1
          <5> HIDE DEF x
          <5> QED
            BY <2>2, <4>1, <4>3, MapsAdd, Zenon
        <4>5. Lists(s, 0)'
          BY <3>1, <4>3, <4>4, Zenon DEF Lists
        <4>6. Progress(admin[a])'
          <5>1. ring' \cup {ServerToHashkey'[s]} = Linked' /\ s \in Mapped'
            BY <3>1, <4>3, <4>4, Zenon
          <5>2. count' + 1 = Cardinality(Mapped')
            BY <3>1, <4>3, <4>4, Zenon
          <5> QED
            BY <4>2, <4>5, <5>1, <5>2 DEF Progress
        <4> QED
          BY <1>o, <2>1, <4>2, <4>4, <4>6, Zenon
      <3>3. CASE x.op = "purge"
        <4>1. /\ Drops(s) /\ shared' = shared /\ y.at = "idle"
              /\ \A b \in Admins \ {a} : admin'[b] = admin[b]
          BY <2>3, <3>3 DEF WriteXref, TypeOK, NoCall
        <4>2. s \in Mapped /\ Lists(s, 0) /\ ring = Linked \ {h} /\ count + 1 = n
          BY <2>2, <3>1, <3>3 DEF Progress
        <4>3. /\ MapsAgree' /\ Mapped' = Mapped \ {s} /\ Linked' = Linked \ {h}
              /\ Cardinality(Mapped') = n - 1
          BY <2>2, <4>1, <4>2, MapsDrop, Zenon
        <4>4. \A t \in Servers : servers'[t] = IF t \in Mapped' THEN 1 ELSE 0
          BY <3>1, <4>2, <4>3, Zenon DEF Lists
        <4>5. count' = Cardinality(Mapped')
          <5>1. n \in Nat /\ count \in Int
            BY MappedIsFinite, Zenon DEF TypeOK
          <5> HIDE DEF n
          <5> QED
            BY <3>1, <4>2, <4>3, <5>1
        <4>6. Settled'
          BY <3>1, <4>2, <4>3, <4>4, <4>5, Zenon DEF Settled
        <4> QED
          BY <1>o, <2>1, <4>1, <4>3, <4>6, Zenon
      <3> QED
        BY <2>2, <3>2, <3>3, Zenon
    <2>4. CASE LockPool(a)
      <3>1. x.at = "pool" /\ UNCHANGED <<ring, count, servers, maps, shared>>
        BY <2>4, Zenon DEF LockPool, circle, history
      <3>2. x.op = "purge" => servers[s] = 1
        BY <2>2, <3>1, Zenon DEF Progress, Lists
      <3>3. Notify(a)
        BY <2>4, <3>2 DEF LockPool
      <3>4. /\ y.at = "ring" /\ y.op = x.op /\ y.server = s /\ y.hash = h
            /\ \A b \in Admins \ {a} : admin'[b] = admin[b]
        BY <2>2, <3>3, Zenon DEF Notify, TypeOK, Calls
      <3>5. /\ Mapped' = Mapped /\ Linked' = Linked /\ MapsAgree'
            /\ UNCHANGED ServerToHashkey
        BY <1>m, <2>2, <3>1, Zenon
      <3>6. Progress(admin[a])'
        <4>1. \A k : Lists(s, k) => Lists(s, k)'
          BY <3>1, <3>5, Zenon DEF Lists
        <4>2. CASE x.op = "add"
          <5>1. Lists(s, 0) /\ s \in Mapped /\ ring \cup {h} = Linked /\ count + 1 = n
            BY <2>2, <3>1, <4>2, Zenon DEF Progress
          <5> QED
            BY <3>1, <3>4, <3>5, <4>1, <4>2, <5>1 DEF Progress
        <4>3. CASE x.op = "purge"
          <5>1. s \in Mapped /\ Lists(s, 1) /\ ring = Linked /\ count = n
            BY <2>2, <3>1, <4>3, Zenon DEF Progress
          <5> QED
            BY <3>1, <3>4, <3>5, <4>1, <4>3, <5>1 DEF Progress
        <4> QED
          BY <2>2, <4>2, <4>3, Zenon
      <3> QED
        BY <1>o, <2>1, <3>4, <3>5, <3>6, Zenon
    <2>5. CASE ChangeRing(a)
      <3>1. /\ x.at = "ring" /\ UNCHANGED <<servers, maps, shared>> /\ Goes(a, "clear")
            /\ Changes(a)
        BY <2>5, Zenon DEF ChangeRing
      <3>2. /\ y.at = "clear" /\ y.op = x.op /\ y.server = s
            /\ \A b \in Admins \ {a} : admin'[b] = admin[b]
        BY <2>2, <3>1, Zenon DEF Goes, TypeOK, Calls
      <3>3. /\ Mapped' = Mapped /\ Linked' = Linked /\ MapsAgree'
            /\ UNCHANGED ServerToHashkey
        BY <1>m, <2>2, <3>1, Zenon
      <3>4. x.hash = h
        BY <2>2, <3>1, Zenon DEF Progress
      <3>5. Progress(admin[a])'
        <4>1. \A k : Lists(s, k) => Lists(s, k)'
          BY <3>1, <3>3, Zenon DEF Lists
        <4>2. CASE x.op = "add"
          <5>1. Lists(s, 0) /\ s \in Mapped /\ ring \cup {h} = Linked /\ count + 1 = n
            BY <2>2, <3>1, <4>2, Zenon DEF Progress
          <5>2. ring' = ring \cup {h} /\ count' = count + 1
            BY <3>1, <3>4, <4>2, Zenon DEF Changes
          <5> QED
            BY <3>2, <3>3, <4>1, <4>2, <5>1, <5>2 DEF Progress
        <4>3. CASE x.op = "purge"
          <5>1. s \in Mapped /\ Lists(s, 1) /\ ring = Linked /\ count = n
            BY <2>2, <3>1, <4>3, Zenon DEF Progress
          <5>2. ring' = ring \ {h} /\ count' = count - 1
            BY <3>1, <3>4, <4>3 DEF Changes
          <5>3. ring' = Linked' \ {h} /\ count' + 1 = n
            BY <3>3, <5>1, <5>2, MappedIsFinite
          <5> QED
            BY <3>2, <3>3, <4>1, <4>3, <5>1, <5>3 DEF Progress
        <4> QED
          BY <2>2, <4>2, <4>3, Zenon
      <3> QED
        BY <1>o, <2>1, <3>2, <3>3, <3>5, Zenon
    <2>6. CASE Clear(a)
      <3>1. x.at = "clear" /\ UNCHANGED <<ring, count, maps, shared>> /\ ChangeList(a)
        BY <2>6, Zenon DEF Clear, circle
      <3>2. /\ Mapped' = Mapped /\ Linked' = Linked /\ MapsAgree'
            /\ UNCHANGED ServerToHashkey
        BY <1>m, <2>2, <3>1, Zenon
      <3>3. CASE x.op = "add"
        <4>1. /\ servers' = [servers EXCEPT ![s] = @ + 1] /\ y.at = "idle"
              /\ \A b \in Admins \ {a} : admin'[b] = admin[b]
          BY <3>1, <3>3 DEF ChangeList, TypeOK, NoCall
        <4>2. Lists(s, 0) /\ s \in Mapped /\ ring = Linked /\ count = n
          BY <2>2, <3>1, <3>3 DEF Progress
        <4>3. \A t \in Servers : servers'[t] = IF t \in Mapped THEN 1 ELSE 0
          BY <2>2, <4>1, <4>2 DEF Lists, TypeOK
        <4>4. Settled'
          BY <3>1, <3>2, <4>2, <4>3, Zenon DEF Settled
        <4> QED
          BY <1>o, <2>1, <3>2, <4>1, <4>4, Zenon
      <3>4. CASE x.op = "purge"
        <4>1. s \in Mapped /\ Lists(s, 1) /\ ring = Linked \ {h} /\ count + 1 = n
          BY <2>2, <3>1, <3>4 DEF Progress
        <4>2. servers[s] = 1
          BY <2>2, <4>1, Zenon DEF Lists
        <4>3. servers' = [servers EXCEPT ![s] = 0] /\ Goes(a, "xref")
          BY <3>1, <3>4, <4>2 DEF ChangeList, TypeOK
        <4>4. /\ y.at = "xref" /\ y.op = "purge" /\ y.server = s
              /\ \A b \in Admins \ {a} : admin'[b] = admin[b]
          BY <2>2, <3>4, <4>3, Zenon DEF Goes, TypeOK, Calls
        <4>5. Lists(s, 0)'
          BY <2>2, <3>2, <4>1, <4>3, Zenon DEF Lists, TypeOK
        <4>6. Progress(admin[a])'
          <5> QED
            BY <3>1, <3>2, <4>1, <4>4, <4>5 DEF Progress
        <4> QED
          BY <1>o, <2>1, <3>2, <4>4, <4>6, Zenon
      <3> QED
        BY <2>2, <3>3, <3>4, Zenon
    <2> QED
      BY <1>3, <2>3, <2>4, <2>5, <2>6, Zenon DEF AdminStep
  <1>4. CASE ConcurrentMap
    BY <1>4, <1>u, Zenon DEF ConcurrentMap, circle, history
  <1>5. CASE UNCHANGED vars
    BY <1>5, <1>u, Zenon DEF vars, maps
  <1> QED
    BY <1>1, <1>2, <1>3, <1>4, <1>5, Zenon DEF Next

-----------------------------------------------------------------------------
(* What the cache holds.                                                    *)

\* At first nothing is cached.
LEMMA CacheInit == Init => CacheInv
  <1> SUFFICES ASSUME Init PROVE CacheInv
    OBVIOUS
  <1>0. cache = <<>> /\ size = 0 /\ lookup = [c \in Clients |-> NoLookup]
    BY Zenon DEF Init
  <1>1. Range(cache) = {} /\ size = 0
    BY ONLY <1>0, EmptySeq DEF Range
  <1>2. \A c \in Clients : lookup[c].at # "set"
    BY ONLY <1>0 DEF NoLookup
  <1>3. 0 <= Capacity
    BY HasherAssumption
  <1>4. size <= Capacity
    BY ONLY <1>1, <1>3, Zenon
  <1> QED
    BY ONLY <1>1, <1>2, <1>4, Zenon DEF CacheInv

\* A route depends on the ring, its count and Replicas alone, and the servers it
\* leads to on what the maps have for the members.
LEMMA SameRoute ==
    UNCHANGED <<num, ring, count>> => Routed' = Routed /\ \A k : Route(k)' = Route(k)
  BY DEF Route, Routed, Enough, Wanted, Met

LEMMA SameServers ==
    ASSUME TypeOK, UNCHANGED <<num, ring, count>>,
           \A h \in ring : HashKeyToServer'[h] = HashKeyToServer[h]
    PROVE  \A k \in Keys : Translate(Route(k))' = Translate(Route(k))
  <1> SUFFICES ASSUME NEW k \in Keys PROVE Translate(Route(k))' = Translate(Route(k))
    OBVIOUS
  <1>1. Route(k)' = Route(k)
    BY SameRoute, Zenon
  <1>2. Route(k) \in [1..Routed -> ring]
    BY RouteType, Zenon DEF TypeOK
  <1>3. \A i \in DOMAIN Route(k) : HashKeyToServer'[Route(k)[i]] = HashKeyToServer[Route(k)[i]]
    BY <1>2, Zenon
  <1>4. Translate(Route(k))' = [i \in DOMAIN Route(k) |-> HashKeyToServer'[Route(k)[i]]]
    BY <1>1, Zenon DEF Translate
  <1> QED
    BY <1>3, <1>4, Zenon DEF Translate

\* A step that touches neither the ring nor the cache, nor a lookup that has read,
\* nor the server of a member but with Remapping.
Steady == ~Remapping /\ ~overlapped
LEMMA CacheUntouched ==
    ASSUME TypeOK, CacheInv, UNCHANGED <<num, ring, count, size, late, tainted>>,
           Range(cache') = Range(cache), Changing <=> Changing', Steady' => Steady,
           Steady' => \A h \in ring : HashKeyToServer'[h] = HashKeyToServer[h],
           \A c \in Clients \ late : lookup'[c].at = "set" =>
               lookup'[c] = lookup[c] \/ lookup'[c].val = Route(lookup'[c].key)
    PROVE  CacheInv'
  <1>1. Routed' = Routed /\ \A k : Route(k)' = Route(k)
    BY SameRoute, Zenon
  <1>2. \A c \in Clients \ late' : lookup'[c].at = "set" =>
            lookup'[c].val = Route(lookup'[c].key)
    BY Zenon DEF CacheInv
  <1>3. (\A c \in Clients \ late : lookup[c].at = "set" => lookup[c].val = Route(lookup[c].key))'
    BY <1>1, <1>2, Zenon
  <1>4. Steady' => \A k \in Keys : Translate(Route(k))' = Translate(Route(k))
    BY SameServers, Zenon
  <1>5. \A e \in Range(cache) : e.key \in Keys
    BY CacheElements, Zenon DEF TypeOK, CacheOK, Entry
  <1>6. ASSUME ~Changing', NEW e \in Range(cache')
        PROVE  e.key \in tainted' \/ /\ Len(e.val) = Routed'
                                     /\ Steady' => e.val = Translate(Route(e.key))'
    <2>1. e \in Range(cache) /\ e.key \in Keys
      BY <1>5, <1>6, Zenon
    <2>2. e.key \in tainted \/ /\ Len(e.val) = Routed
                               /\ Steady => e.val = Translate(Route(e.key))
      BY <1>6, <2>1, Zenon DEF CacheInv, Steady
    <2> QED
      BY <1>1, <1>4, <2>1, <2>2, Zenon
  <1>7. (~Changing => \A e \in Range(cache) :
             e.key \in tainted \/ /\ Len(e.val) = Routed
                                  /\ ~Remapping /\ ~overlapped => e.val = Translate(Route(e.key)))'
    BY <1>6, Zenon DEF Steady
  <1>8. (~Changing /\ tainted = {} => size <= Capacity)'
    BY Zenon DEF CacheInv
  <1> QED
    BY <1>3, <1>7, <1>8, Zenon DEF CacheInv

\* An entry that leaves makes room for one of its length.
LEMMA RoomForOne ==
    ASSUME NEW s \in Int, NEW t \in Int, NEW d \in Int, t + d <= s + d
    PROVE  t <= s
  OBVIOUS

\* The cache holds what the lookups read, whoever reads and changes meanwhile.
LEMMA CacheStep == TypeOK /\ CallInv /\ CacheInv /\ [Next]_vars => CacheInv'
  <1> SUFFICES ASSUME TypeOK, CallInv, CacheInv, [Next]_vars PROVE CacheInv'
    OBVIOUS
  <1>t. CacheOK /\ lookup \in [Clients -> Lookups] /\ admin \in [Admins -> Calls]
    BY Zenon DEF TypeOK
  <1>c. ASSUME UNCHANGED <<admin, maps, ring, overlapped>>
        PROVE  /\ (Changing <=> Changing') /\ (Steady <=> Steady')
               /\ HashKeyToServer' = HashKeyToServer
    BY <1>c, Zenon DEF Changing, Steady, Remapping, maps
  <1>1. ASSUME NEW c \in Clients, NEW k \in Keys, CacheGet(c, k) PROVE CacheInv'
    <2>1. Range(cache') = Range(cache)
      BY <1>1, <1>t, MoveToFront, Zenon DEF CacheGet
    <2>2. UNCHANGED <<num, ring, count, maps, size, late, tainted, overlapped, admin>>
      BY <1>1, Zenon DEF CacheGet, options, circle, history
    <2>3. \A b \in Clients : lookup'[b] = lookup[b] \/ lookup'[b].at = "ring"
      BY <1>1, <1>t DEF CacheGet
    <2> QED
      BY <1>c, <2>1, <2>2, <2>3, CacheUntouched, Zenon
  <1>2. ASSUME NEW c \in Clients, GetN(c) \/ Get(c) PROVE CacheInv'
    <2>1. UNCHANGED <<num, ring, count, maps, cache, size, late, tainted, overlapped, admin>>
      BY <1>2, Zenon DEF GetN, Get, options, circle, history
    <2>2. \/ \E at \in {"inner", "spin"} : lookup' = [lookup EXCEPT ![c].at = at]
          \/ lookup' = [lookup EXCEPT ![c].at = "set", ![c].val = Route(lookup[c].key)]
      BY <1>2, Zenon DEF GetN, Get, Reads
    <2>3. \A b \in Clients : \/ lookup'[b] = lookup[b] \/ lookup'[b].at # "set"
                             \/ lookup'[b].val = Route(lookup'[b].key)
      <3>1. \A b \in Clients \ {c} : lookup'[b] = lookup[b]
        BY <1>t, <2>2, Zenon
      <3>2. lookup[c] \in Lookups
        BY <1>t, Zenon
      <3>3. \/ lookup'[c].at # "set"
            \/ lookup'[c].key = lookup[c].key /\ lookup'[c].val = Route(lookup[c].key)
        BY <1>t, <2>2, <3>2 DEF Lookups
      <3> QED
        BY <3>1, <3>3, Zenon
    <2> QED
      BY <1>c, <2>1, <2>3, CacheUntouched, Zenon
  <1>3. ASSUME NEW c \in Clients, CacheSet(c) PROVE CacheInv'
    <2> DEFINE k == lookup[c].key
               v == Translate(lookup[c].val)
               new == [key |-> k, val |-> v]
    <2>1. /\ UNCHANGED <<num, ring, count, maps, admin, overlapped>> /\ late' = late \ {c}
          /\ lookup' = [lookup EXCEPT ![c] = NoLookup] /\ lookup[c].at = "set"
          /\ tainted' = IF c \in late THEN tainted \cup {k} ELSE tainted
          /\ Set(k, v)
      BY <1>3, Zenon DEF CacheSet, options, circle
    <2>2. k \in Keys /\ lookup[c].val \in Seq(Hashes) /\ v \in Seq(Backends)
      <3>1. k \in Keys /\ lookup[c].val \in Seq(Hashes)
        BY <1>t, Zenon DEF Lookups
      <3> QED
        BY <3>1, TranslateType, Zenon DEF TypeOK
    <2>3. /\ Range(cache') \subseteq Range(cache) \cup {new}
          /\ \/ size' <= Capacity
             \/ \E e \in Range(cache) \cup {new} : size' + Len(e.val) <= size + Len(v)
      <3> HIDE DEF k, v
      <3> QED
        BY <1>t, <2>1, <2>2, SetType, Zenon
    <2>4. /\ Routed' = Routed /\ (\A l : Route(l)' = Route(l))
          /\ \A l \in Keys : Translate(Route(l))' = Translate(Route(l))
          /\ (Changing <=> Changing') /\ (Steady <=> Steady')
      BY <1>c, <2>1, SameRoute, SameServers, Zenon
    <2>5. c \notin late => v = Translate(Route(k)) /\ Len(v) = Routed
      <3> SUFFICES ASSUME c \notin late PROVE v = Translate(Route(k)) /\ Len(v) = Routed
        OBVIOUS
      <3>1. lookup[c].val = Route(k)
        BY <2>1, Zenon DEF CacheInv
      <3>2. Len(Route(k)) = Routed
        BY <2>2, RouteType, Zenon DEF TypeOK
      <3>3. Len(v) = Len(lookup[c].val)
        BY <2>2, TranslateType, Zenon DEF TypeOK
      <3> QED
        BY <3>1, <3>2, <3>3, Zenon
    <2>6. (\A b \in Clients \ late : lookup[b].at = "set" => lookup[b].val = Route(lookup[b].key))'
      <3>1. \A b \in Clients \ {c} : lookup'[b] = lookup[b]
        BY <1>t, <2>1, Zenon
      <3>2. lookup'[c].at = "idle"
        BY <1>t, <2>1, Zenon DEF NoLookup
      <3>3. \A b \in Clients \ late' : lookup'[b].at = "set" =>
                b # c /\ b \notin late /\ lookup[b].at = "set" /\ lookup'[b] = lookup[b]
        BY <2>1, <3>1, <3>2, Zenon
      <3>4. \A b \in Clients \ late' : lookup'[b].at = "set" =>
                lookup'[b].val = Route(lookup'[b].key)
        BY <3>3, Zenon DEF CacheInv
      <3> QED
        BY <2>4, <3>4, Zenon
    <2> DEFINE Good(e) == Len(e.val) = Routed /\ (Steady => e.val = Translate(Route(e.key)))
    <2>7. ~Changing => \A e \in Range(cache) \cup {new} : e.key \in tainted' \/ Good(e)
      <3> SUFFICES ASSUME ~Changing, NEW e \in Range(cache) \cup {new}
                   PROVE  e.key \in tainted' \/ Good(e)
        OBVIOUS
      <3>1. CASE e \in Range(cache)
        BY <2>1, <3>1, Zenon DEF CacheInv, Steady
      <3>2. CASE e = new
        <4>1. e.key = k /\ e.val = v
          BY <3>2, Zenon
        <4> HIDE DEF k, v
        <4> QED
          BY <2>1, <2>5, <4>1, Zenon
      <3> QED
        BY <3>1, <3>2, Zenon
    <2>8. ~Changing' /\ tainted' = {} => size' <= Capacity
      <3> SUFFICES ASSUME ~Changing', tainted' = {} PROVE size' <= Capacity
        OBVIOUS
      <3>1. c \notin late /\ tainted = {} /\ ~Changing
        BY <2>1, <2>4, Zenon
      <3>2. size <= Capacity
        BY <3>1, Zenon DEF CacheInv
      <3>3. \A e \in Range(cache) \cup {new} : Len(e.val) = Routed
        BY <2>7, <3>1, Zenon
      <3>4. size \in Nat /\ Capacity \in Nat
        BY <1>t, FS_CardinalityType, HasherAssumption, Zenon DEF CacheOK
      <3>5. size' \in Int
        <4>1. CacheOK'
          BY TypeStep, Zenon DEF TypeOK
        <4> QED
          BY <4>1, FS_CardinalityType DEF CacheOK
      <3>6. size' <= Capacity \/ size' <= size
        <4>1. Routed \in Int /\ size \in Int
          <5>1. Routed \in Nat
            BY <2>2, RouteType, Zenon DEF TypeOK
          <5> QED
            BY <3>4, <5>1
        <4>2. size' <= Capacity \/ size' + Routed <= size + Routed
          BY <2>3, <2>5, <3>1, <3>3, Zenon
        <4> QED
          BY <3>5, <4>1, <4>2, RoomForOne, Zenon
      <3> QED
        BY ONLY <3>2, <3>4, <3>5, <3>6
    <2>9. ~Changing' => \A e \in Range(cache') : e.key \in Keys /\ (e.key \in tainted' \/ Good(e))
      <3>1. new.key \in Keys /\ \A e \in Range(cache) : e.key \in Keys
        BY <1>t, <2>2, CacheElements, Zenon DEF CacheOK, Entry
      <3> QED
        BY <2>3, <2>4, <2>7, <3>1, Zenon
    <2>10. (~Changing => \A e \in Range(cache) :
                e.key \in tainted \/ /\ Len(e.val) = Routed
                                     /\ ~Remapping /\ ~overlapped => e.val = Translate(Route(e.key)))'
      BY <2>4, <2>9, Zenon DEF Steady
    <2> QED
      BY <2>6, <2>8, <2>10, Zenon DEF CacheInv
  <1>4. ASSUME NEW a \in Admins, WriteXref(a) \/ LockPool(a)
               \/ \E s \in Servers, op \in {"add", "purge"}, h \in Hashes : Begin(a, op, s, h)
        PROVE  CacheInv'
    <2>1. UNCHANGED <<num, ring, count, cache, size, lookup, late, tainted>>
      BY <1>4, Zenon DEF WriteXref, LockPool, Begin, Starts, options, circle, router, history
    <2>2. /\ admin[a].at # "clear" /\ admin'[a].at # "clear"
          /\ \A b \in Admins \ {a} : admin'[b] = admin[b]
      <3>1. admin[a] \in Calls
        BY <1>t, Zenon
      <3> QED
        BY <1>4, <1>t, <3>1 DEF WriteXref, LockPool, Begin, Starts, Notify, Goes, Busy, NoCall, Calls
    <2>3. Changing <=> Changing'
      BY <2>2, Zenon DEF Changing
    <2>4. Steady' => Steady /\ \A x \in ring : HashKeyToServer'[x] = HashKeyToServer[x]
      <3> SUFFICES ASSUME Steady' PROVE Steady /\ \A x \in ring : HashKeyToServer'[x] = HashKeyToServer[x]
        OBVIOUS
      <3>1. CASE \E s \in Servers, op \in {"add", "purge"}, h \in Hashes : Begin(a, op, s, h)
        <4>1. ~overlapped /\ (\A b \in Admins : ~Busy(b)) /\ HashKeyToServer' = HashKeyToServer
          BY <3>1, Zenon DEF Steady, Begin, Starts, maps
        <4>2. ~Remapping
          BY <4>1 DEF Remapping, Busy
        <4> QED
          BY <4>1, <4>2, Zenon DEF Steady
      <3>2. CASE LockPool(a)
        <4>1. /\ ~overlapped /\ UNCHANGED <<HashKeyToServer, ServerToHashkey>>
              /\ admin[a].at = "pool" /\ (admin[a].op = "add" => Notify(a))
          BY <3>2 DEF Steady, LockPool, maps, history
        <4>2. admin[a].op = "add" => /\ admin'[a].op = "add" /\ admin'[a].at = "ring"
                                     /\ admin'[a].server = admin[a].server
          BY <1>t, <4>1, Zenon DEF Notify, Calls
        <4>3. ~Remapping
          <5> SUFFICES ASSUME NEW b \in Admins, admin[b].op = "add", admin[b].at \in {"pool", "ring"},
                              ServerToHashkey[admin[b].server] \in ring
                       PROVE  Remapping'
            BY Zenon DEF Remapping, Steady
          <5>1. /\ admin'[b].op = "add" /\ admin'[b].at \in {"pool", "ring"}
                /\ admin'[b].server = admin[b].server
            BY <2>2, <4>2, Zenon
          <5> QED
            BY <2>1, <4>1, <5>1, Zenon DEF Remapping
        <4> QED
          BY <4>1, <4>3, Zenon DEF Steady
      <3>3. CASE WriteXref(a)
        <4>1. /\ ~overlapped /\ admin[a].at = "xref" /\ Busy(a)
          BY <3>3 DEF Steady, WriteXref, Busy
        <4>2. /\ \A b \in Admins \ {a} : admin[b].at = "idle"
              /\ Progress(admin[a]) /\ MapsOK
              /\ admin[a] \in Calls
          BY <1>t, <4>1, Zenon DEF CallInv, Busy, TypeOK
        <4>3. ~Remapping
          BY <4>1, <4>2 DEF Remapping
        <4>4. CASE admin[a].op = "add"
          <5>1. /\ HashKeyToServer' = [HashKeyToServer EXCEPT ![admin[a].hash] = admin[a].server]
                /\ ServerToHashkey' = [ServerToHashkey EXCEPT ![admin[a].server] = admin[a].hash]
                /\ Goes(a, "pool")
            BY <3>3, <4>4, Zenon DEF WriteXref
          <5>2. /\ admin'[a].op = "add" /\ admin'[a].at = "pool" /\ admin'[a].server = admin[a].server
            BY <1>t, <4>2, <4>4, <5>1, Zenon DEF Goes, Calls
          <5>3. ServerToHashkey'[admin'[a].server] = admin[a].hash
            BY <4>2, <5>1, <5>2, Zenon DEF Calls, MapsOK
          <5>4. admin[a].hash \notin ring
            BY <2>1, <5>2, <5>3 DEF Steady, Remapping
          <5>5. ring \subseteq Hashes
            BY Zenon DEF TypeOK
          <5>6. \A x \in ring : HashKeyToServer'[x] = HashKeyToServer[x]
            BY <4>2, <5>1, <5>4, <5>5, Zenon DEF MapsOK
          <5> QED
            BY <4>1, <4>3, <5>6, Zenon DEF Steady
        <4>5. CASE admin[a].op = "purge"
          <5>1. HashKeyToServer' = [HashKeyToServer EXCEPT ![ServerToHashkey[admin[a].server]] = Nowhere]
            BY <3>3, <4>5 DEF WriteXref, Drops
          <5>2. ring = Linked \ {ServerToHashkey[admin[a].server]}
            BY <4>1, <4>2, <4>5 DEF Progress
          <5>3. ring \subseteq Hashes
            BY Zenon DEF TypeOK
          <5>4. \A x \in ring : HashKeyToServer'[x] = HashKeyToServer[x]
            BY <4>2, <5>1, <5>2, <5>3, Zenon DEF MapsOK
          <5> QED
            BY <4>1, <4>3, <5>4, Zenon DEF Steady
        <4> QED
          BY <4>2, <4>4, <4>5, Zenon DEF Calls
      <3> QED
        BY <1>4, <3>1, <3>2, <3>3, Zenon
    <2> QED
      BY <2>1, <2>3, <2>4, CacheUntouched, Zenon
  <1>5. ASSUME NEW a \in Admins, ChangeRing(a) PROVE CacheInv'
    <2>1. Changing'
      BY <1>5, <1>t, Zenon DEF ChangeRing, Goes, Changing, Calls
    <2>2. late' = {c \in Clients : lookup[c].at = "set"} /\ lookup' = lookup
      BY <1>5, Zenon DEF ChangeRing, router
    <2>3. \A c \in Clients \ late' : lookup'[c].at # "set"
      BY ONLY <2>2, Zenon
    <2> QED
      BY ONLY <2>1, <2>3, Zenon DEF CacheInv
  <1>6. ASSUME NEW a \in Admins, Clear(a) PROVE CacheInv'
    <2>1. UNCHANGED <<num, ring, count, lookup, late>> /\ cache' = <<>> /\ size' = 0
      BY <1>6, Zenon DEF Clear, options, circle
    <2>2. Range(cache') = {} /\ 0 <= Capacity
      <3>1. Range(cache') = {}
        BY ONLY <2>1, EmptySeq DEF Range
      <3>2. 0 <= Capacity
        BY ONLY HasherAssumption
      <3> QED
        BY ONLY <3>1, <3>2, Zenon
    <2>3. \A k : Route(k)' = Route(k)
      BY <2>1, SameRoute, Zenon
    <2>4. (\A c \in Clients \ late : lookup[c].at = "set" => lookup[c].val = Route(lookup[c].key))'
      BY <2>1, <2>3, Zenon DEF CacheInv
    <2> QED
      BY <2>1, <2>2, <2>4, Zenon DEF CacheInv
  <1>7. CASE ConcurrentMap \/ UNCHANGED vars
    <2>1. UNCHANGED <<num, ring, count, maps, cache, size, lookup, late, tainted, overlapped, admin>>
      BY <1>7, Zenon DEF ConcurrentMap, vars, options, circle, maps, router, history
    <2> QED
      BY <1>c, <2>1, CacheUntouched, Zenon
  <1>8. Nowhere \in Hashes /\ HashKeys \subseteq Hashes
    BY Zenon DEF Hashes
  <1> QED
    BY <1>1, <1>2, <1>3, <1>4, <1>5, <1>6, <1>7, <1>8, Zenon DEF Next, LookupStep, AdminStep

-----------------------------------------------------------------------------
(* The theorems.                                                            *)

\* The invariant holds at all times.
LEMMA HasherHolds == Spec => []HasherInv
  <1>1. Init => HasherInv
    BY TypeInit, CallInit, CacheInit, Zenon DEF HasherInv
  <1>2. HasherInv /\ [Next]_vars => HasherInv'
    BY TypeStep, CallStep, CacheStep, Zenon DEF HasherInv
  <1> QED
    BY <1>1, <1>2, PTL DEF Spec

\* When addnode and purgenode have returned and no two calls overlapped, the pool
\* lists each server of the maps once and the ring counts them; each hash key on
\* the ring leads to a server whose key it is, whatever lookups ran meanwhile and
\* whatever hash keys addnode was given; and each listed server can be reached,
\* unless addnode gave one the hash key of another.
THEOREM CallsKeepTheServersTogether == Spec => []RingMatchesServers
  <1>1. ASSUME HasherInv PROVE RingMatchesServers
    <2> SUFFICES ASSUME \A a \in Admins : ~Busy(a), ~overlapped
                 PROVE  /\ servers = [s \in Servers |-> IF s \in Mapped THEN 1 ELSE 0]
                        /\ count = Cardinality(Mapped) /\ ring = Linked
                        /\ MapsAgree /\ (~shared => \A s \in Mapped : ServerToHashkey[s] \in Linked)
      BY Zenon DEF RingMatchesServers, MapsAgree, Linked
    <2>1. Settled /\ MapsAgree /\ MapsOK /\ servers \in [Servers -> Int]
      BY <1>1, Zenon DEF HasherInv, CallInv, TypeOK
    <2>2. servers = [s \in Servers |-> IF s \in Mapped THEN 1 ELSE 0]
      BY <2>1, Zenon DEF Settled
    <2>3. ~shared => \A s \in Mapped : ServerToHashkey[s] \in Linked
      <3> SUFFICES ASSUME ~shared, NEW s \in Mapped PROVE ServerToHashkey[s] \in Linked
        OBVIOUS
      <3>1. s \in Servers /\ s # Nowhere /\ ServerToHashkey[s] \in Hashes
        BY <2>1, HasherAssumption, Zenon DEF Mapped, MapsOK
      <3>2. HashKeyToServer[ServerToHashkey[s]] = s
        BY <2>1, Zenon DEF MapsAgree
      <3> QED
        BY <3>1, <3>2, Zenon DEF Linked
    <2> QED
      BY <2>1, <2>2, <2>3, Zenon DEF Settled
  <1> QED
    BY <1>1, HasherHolds, PTL

\* The cache sends a key where the ring sends it, for every ring, every number of
\* replicas and every interleaving of lookups with addnode and purgenode, but for
\* keys that a lookup cached which had read the ring before it changed.
THEOREM CachedRoutesAreCurrent == Spec => []OnlyLateEntriesAreStale
  <1>1. HasherInv => OnlyLateEntriesAreStale
    BY Zenon DEF HasherInv, CacheInv, OnlyLateEntriesAreStale, Range
  <1> QED
    BY <1>1, HasherHolds, PTL

\* The LRU list never has two elements for a key, its size field is the number of
\* backends the elements list, and evicting one element at most is enough to keep
\* it within the capacity.
THEOREM OneEvictionIsEnough == Spec => []CacheWithinCapacity
  <1>1. HasherInv => CacheWithinCapacity
    BY Zenon DEF HasherInv, TypeOK, CacheOK, Unique, CacheInv, CacheWithinCapacity
  <1> QED
    BY <1>1, HasherHolds, PTL
=============================================================================
